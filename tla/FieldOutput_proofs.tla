------------------------- MODULE FieldOutput_proofs -------------------------
(***************************************************************************)
(* Proofs about FieldOutput (Propagator::outputAllocatedFields): the type  *)
(* invariant and WalkInv, the invariant of the backward erase loop, hold   *)
(* in every reachable state, for every number of fields, datasets and      *)
(* requested outputs.  Neither is inductive alone: TypeOK needs WalkInv    *)
(* (the index erased is in range, the column searched for exists) and      *)
(* WalkInv needs TypeOK (the lists are sequences), so they are proved      *)
(* together as IInv.                                                       *)
(***************************************************************************)
EXTENDS FieldOutput, SequenceTheorems, TLAPS

IInv == TypeOK /\ WalkInv

USE ConstAssumption

(***************************************************************************)
(* RemoveAt(s, j) drops position j and shifts the tail one place left.     *)
(***************************************************************************)
LEMMA RemoveAtLemma ==
    ASSUME NEW S, NEW s \in Seq(S), NEW j \in 1..Len(s)
    PROVE  /\ RemoveAt(s, j) \in Seq(S)
           /\ Len(RemoveAt(s, j)) = Len(s) - 1
           /\ \A k \in 1..(Len(s) - 1) :
                  RemoveAt(s, j)[k] = IF k < j THEN s[k] ELSE s[k + 1]
<1> DEFINE A == SubSeq(s, 1, j - 1)
           B == SubSeq(s, j + 1, Len(s))
<1>1. /\ A \in Seq(S)
      /\ Len(A) = j - 1
      /\ \A k \in 1..(j - 1) : A[k] = s[k]
  <2>1. \A k \in 1..(j - 1) : s[k] \in S
    BY ElementOfSeq
  <2>. QED BY <2>1, SubSeqProperties
<1>2. /\ B \in Seq(S)
      /\ Len(B) = Len(s) - j
      /\ \A k \in 1..(Len(s) - j) : B[k] = s[j + k]
  <2>1. \A k \in (j + 1)..Len(s) : s[k] \in S
    BY ElementOfSeq
  <2>2. Len(s) \in Nat
    BY LenProperties
  <2>. QED BY <2>1, <2>2, SubSeqProperties
<1>3. RemoveAt(s, j) = A \o B
  BY DEF RemoveAt
<1> HIDE DEF A, B
<1>0. Len(s) \in Nat
  BY LenProperties
<1>4. /\ A \o B \in Seq(S)
      /\ Len(A \o B) = Len(A) + Len(B)
      /\ \A k \in 1..(Len(A) + Len(B)) :
            (A \o B)[k] = IF k <= Len(A) THEN A[k] ELSE B[k - Len(A)]
  BY <1>1, <1>2, ConcatProperties
<1>5. \A k \in 1..(Len(s) - 1) : (A \o B)[k] = IF k < j THEN s[k] ELSE s[k + 1]
  <2> SUFFICES ASSUME NEW k \in 1..(Len(s) - 1)
               PROVE  (A \o B)[k] = IF k < j THEN s[k] ELSE s[k + 1]
    OBVIOUS
  <2>0. Len(s) \in Nat
    BY LenProperties
  <2>1. k < j => (A \o B)[k] = s[k]
    BY <2>0, <1>1, <1>2, <1>4
  <2>2. ~(k < j) => (A \o B)[k] = s[k + 1]
    <3> SUFFICES ASSUME ~(k < j) PROVE (A \o B)[k] = s[k + 1]
      OBVIOUS
    <3>1. (A \o B)[k] = B[k - (j - 1)]
      BY <2>0, <1>1, <1>2, <1>4
    <3>2. B[k - (j - 1)] = s[k + 1]
      <4>1. k - (j - 1) \in 1..(Len(s) - j)
        BY <2>0
      <4>2. B[k - (j - 1)] = s[j + (k - (j - 1))]
        BY <4>1, <1>2
      <4>3. j + (k - (j - 1)) = k + 1
        BY <2>0
      <4>. QED BY <4>2, <4>3, Zenon
    <3>. QED BY <3>1, <3>2
  <2>3. k < j \/ ~(k < j)
    OBVIOUS
  <2>. QED BY <2>1, <2>2, <2>3, Zenon
<1>6. Len(A \o B) = Len(s) - 1
  BY <1>0, <1>1, <1>2, <1>4
<1>. QED BY <1>3, <1>4, <1>5, <1>6

(***************************************************************************)
(* A request list is a sequence of field indices no longer than MaxOut.    *)
(***************************************************************************)
LEMMA RequestListLemma ==
    ASSUME NEW s \in RequestLists
    PROVE  /\ s \in Seq(Fields)
           /\ Len(s) \in 0..MaxOut
<1>1. PICK n \in 0..MaxOut : s \in [1..n -> Fields]
  BY DEF RequestLists
<1>2. s \in Seq(Fields)
  BY <1>1, ConstAssumption
<1>3. Len(s) = n
  BY <1>1, <1>2, LenProperties, ConstAssumption
<1>. QED BY <1>1, <1>2, <1>3

LEMMA InitIInv == Init => IInv
BY ConstAssumption DEF Init, IInv, TypeOK, WalkInv, Datasets

(***************************************************************************)
(* Column(d, fidx) of a field found at 0-based position c of an injective  *)
(* request list is c.                                                      *)
(***************************************************************************)
LEMMA ColumnLemma ==
    ASSUME NEW d \in Datasets, outIdx[d] \in RequestLists,
           NEW c \in 0..(Len(outIdx[d]) - 1)
    PROVE  Column(d, outIdx[d][c + 1]) = c
<1>1. /\ outIdx[d] \in Seq(Fields)
      /\ Len(outIdx[d]) \in 0..MaxOut
      /\ IsInjective(outIdx[d])
  BY RequestListLemma DEF RequestLists
<1>2. DOMAIN outIdx[d] = 1..Len(outIdx[d])
  BY <1>1, LenProperties
<1>3. \A c2 \in 0..(Len(outIdx[d]) - 1) :
         outIdx[d][c2 + 1] = outIdx[d][c + 1] => c2 = c
  BY <1>1, <1>2 DEF IsInjective
<1>. QED BY <1>3 DEF Column

\* The step of StartDataset preserves IInv.
LEMMA StartDatasetIInv == IInv /\ StartDataset => IInv'
<1> SUFFICES ASSUME IInv, StartDataset PROVE IInv'
  OBVIOUS
<1>1. /\ outIdx[ds] \in Seq(Fields)
      /\ Len(outIdx[ds]) \in 0..MaxOut
  BY RequestListLemma DEF IInv, TypeOK
<1>2. OutputFieldNames(ds) \in Seq(Datasets \X Fields)
      /\ Len(OutputFieldNames(ds)) = Len(outIdx[ds])
      /\ \A k \in 1..Len(outIdx[ds]) : OutputFieldNames(ds)[k] = FieldName(ds, outIdx[ds][k])
  <2>1. DOMAIN outIdx[ds] = 1..Len(outIdx[ds])
    BY <1>1, LenProperties
  <2>2. OutputFieldNames(ds) = [k \in 1..Len(outIdx[ds]) |-> <<ds, outIdx[ds][k]>>]
    BY <2>1 DEF OutputFieldNames, FieldName
  <2>3. \A k \in 1..Len(outIdx[ds]) : <<ds, outIdx[ds][k]>> \in Datasets \X Fields
    BY <1>1, ElementOfSeq DEF IInv, TypeOK
  <2>4. [k \in 1..Len(outIdx[ds]) |-> <<ds, outIdx[ds][k]>>] \in Seq(Datasets \X Fields)
    BY <1>1, <2>3, IsASeq
  <2>. QED BY <2>2, <2>4, LenProperties DEF FieldName
<1>3. TypeOK'
  <2>1. i' \in -1..MaxOut
    BY <1>1 DEF StartDataset
  <2>. QED BY <1>1, <1>2, <2>1 DEF IInv, TypeOK, StartDataset
<1>4. WalkInv'
  BY <1>1, <1>2 DEF IInv, TypeOK, StartDataset, WalkInv
<1>. QED BY <1>3, <1>4 DEF IInv

\* The step of WriteField preserves IInv: the erase keeps the unvisited
\* prefix in place and shifts only visited, unallocated fields.
LEMMA WriteFieldIInv == IInv /\ WriteField => IInv'
<1> SUFFICES ASSUME IInv, WriteField PROVE IInv'
  OBVIOUS
<1> DEFINE fidx == indicesDone[i + 1]
<1>1. /\ pc = "loop"
      /\ ds \in Datasets
      /\ outIdx[ds] \in RequestLists
      /\ indicesDone \in Seq(Fields)
      /\ namesDone \in Seq(Datasets \X Fields)
      /\ i \in 0..MaxOut
      /\ i + 1 \in 1..Len(indicesDone)
      /\ i + 1 <= Len(outIdx[ds])
      /\ \A k \in 1..(i + 1) : indicesDone[k] = outIdx[ds][k]
      /\ \A k \in (i + 2)..Len(indicesDone) : indicesDone[k] \notin alloc[ds]
      /\ Len(namesDone) = Len(indicesDone)
      /\ \A k \in 1..Len(indicesDone) : namesDone[k] = FieldName(ds, indicesDone[k])
  BY DEF IInv, TypeOK, WalkInv, WriteField
<1>2. /\ fidx = outIdx[ds][i + 1]
      /\ fidx \in Fields
      /\ namesDone[i + 1] \in Datasets \X Fields
  BY <1>1, ElementOfSeq
<1>3. Column(ds, fidx) = i
  BY <1>1, <1>2, RequestListLemma, ColumnLemma
<1>4. /\ RemoveAt(indicesDone, i + 1) \in Seq(Fields)
      /\ Len(RemoveAt(indicesDone, i + 1)) = Len(indicesDone) - 1
      /\ \A k \in 1..(Len(indicesDone) - 1) :
            RemoveAt(indicesDone, i + 1)[k] =
                IF k < i + 1 THEN indicesDone[k] ELSE indicesDone[k + 1]
  BY <1>1, RemoveAtLemma
<1>5. /\ RemoveAt(namesDone, i + 1) \in Seq(Datasets \X Fields)
      /\ Len(RemoveAt(namesDone, i + 1)) = Len(namesDone) - 1
      /\ \A k \in 1..(Len(namesDone) - 1) :
            RemoveAt(namesDone, i + 1)[k] =
                IF k < i + 1 THEN namesDone[k] ELSE namesDone[k + 1]
  BY <1>1, RemoveAtLemma
<1>6. TypeOK'
  <2>1. [ds |-> ds, key |-> namesDone[i + 1], col |-> Column(ds, fidx), field |-> fidx]
          \in [ds : Datasets, key : Datasets \X Fields, col : 0..MaxOut, field : Fields]
    BY <1>1, <1>2, <1>3
  <2>2. written' \in Seq([ds : Datasets, key : Datasets \X Fields,
                           col : 0..MaxOut, field : Fields])
    BY <2>1, AppendProperties DEF IInv, TypeOK, WriteField
  <2>3. onHost' \subseteq Datasets \X Fields
    BY <1>1, <1>2 DEF IInv, TypeOK, WriteField
  <2>. QED BY <1>1, <1>4, <1>5, <2>2, <2>3 DEF IInv, TypeOK, WriteField
<1>7. WalkInv'
  <2>1. i' + 1 \in 0..Len(indicesDone') /\ i' + 1 <= Len(outIdx'[ds'])
    BY <1>1, <1>4 DEF WriteField
  <2>2. \A k \in 1..(i' + 1) : indicesDone'[k] = outIdx'[ds'][k]
    <3> SUFFICES ASSUME NEW k \in 1..i PROVE indicesDone'[k] = outIdx[ds][k]
      BY <1>1 DEF WriteField
    <3>1. k \in 1..(Len(indicesDone) - 1) /\ k < i + 1
      BY <1>1
    <3>2. indicesDone'[k] = indicesDone[k]
      BY <3>1, <1>4 DEF WriteField
    <3>. QED BY <3>1, <3>2, <1>1
  <2>3. \A k \in (i' + 2)..Len(indicesDone') : indicesDone'[k] \notin alloc'[ds']
    <3>0. /\ i' + 2 = i + 1
          /\ Len(indicesDone') = Len(indicesDone) - 1
          /\ alloc'[ds'] = alloc[ds]
      BY <1>1, <1>4 DEF WriteField
    <3> SUFFICES ASSUME NEW k \in (i + 1)..(Len(indicesDone) - 1)
                 PROVE  indicesDone'[k] \notin alloc[ds]
      BY <3>0
    <3>1. ~(k < i + 1) /\ k \in 1..(Len(indicesDone) - 1)
      BY <1>1
    <3>2. indicesDone'[k] = indicesDone[k + 1]
      BY <3>1, <1>4 DEF WriteField
    <3>3. k + 1 \in (i + 2)..Len(indicesDone)
      BY <1>1
    <3>. QED BY <3>2, <3>3, <1>1
  <2>4. Len(namesDone') = Len(indicesDone')
    BY <1>1, <1>4, <1>5 DEF WriteField
  <2>5. \A k \in 1..Len(indicesDone') : namesDone'[k] = FieldName(ds', indicesDone'[k])
    <3> SUFFICES ASSUME NEW k \in 1..(Len(indicesDone) - 1)
                 PROVE  namesDone'[k] = FieldName(ds, indicesDone'[k])
      BY <1>4 DEF WriteField
    <3>1. CASE k < i + 1
      <4>1. namesDone'[k] = namesDone[k] /\ indicesDone'[k] = indicesDone[k]
        BY <3>1, <1>1, <1>4, <1>5 DEF WriteField
      <4>. QED BY <4>1, <1>1
    <3>2. CASE ~(k < i + 1)
      <4>1. namesDone'[k] = namesDone[k + 1] /\ indicesDone'[k] = indicesDone[k + 1]
        BY <3>2, <1>1, <1>4, <1>5 DEF WriteField
      <4>2. k + 1 \in 1..Len(indicesDone)
        BY <1>1
      <4>. QED BY <4>1, <4>2, <1>1
    <3>. QED BY <3>1, <3>2
  <2>. QED BY <2>1, <2>2, <2>3, <2>4, <2>5 DEF WalkInv
<1>. QED BY <1>6, <1>7 DEF IInv

\* The step of SkipField preserves IInv: the field stepped over is not
\* allocated, so the visited part still holds only unallocated fields.
LEMMA SkipFieldIInv == IInv /\ SkipField => IInv'
<1> SUFFICES ASSUME IInv, SkipField PROVE IInv'
  OBVIOUS
<1>1. /\ i \in 0..MaxOut
      /\ i + 1 \in 1..Len(indicesDone)
      /\ indicesDone[i + 1] \notin alloc[ds]
      /\ \A k \in (i + 2)..Len(indicesDone) : indicesDone[k] \notin alloc[ds]
  BY DEF IInv, TypeOK, WalkInv, SkipField
<1>2. \A k \in (i + 1)..Len(indicesDone) : indicesDone[k] \notin alloc[ds]
  BY <1>1
<1>3. TypeOK'
  BY <1>1 DEF IInv, TypeOK, SkipField
<1>4. WalkInv'
  BY <1>1, <1>2 DEF IInv, TypeOK, WalkInv, SkipField
<1>. QED BY <1>3, <1>4 DEF IInv

\* EndLoop leaves the loop: WalkInv no longer constrains the state.
LEMMA EndLoopIInv == IInv /\ EndLoop => IInv'
BY DEF IInv, TypeOK, WalkInv, EndLoop

\* The names printed by the warning loop form a sequence of name pairs.
LEMMA WarningNamesType ==
    ASSUME NEW d \in Datasets, NEW idx \in Seq(Fields), idx # <<>>
    PROVE  WarningNames(d, idx) \in Seq(Datasets \X Nat)
<1>1. Len(idx) \in Nat \ {0}
  BY EmptySeq
<1>2. [k \in 1..(Len(idx) - 1) |-> FieldName(d, k - 1)] \in Seq(Datasets \X Nat)
  <2>1. \A k \in 1..(Len(idx) - 1) : FieldName(d, k - 1) \in Datasets \X Nat
    BY DEF FieldName
  <2>. QED BY <1>1, <2>1, IsASeq
<1>3. <<FieldName(d, idx[Len(idx)])>> \in Seq(Datasets \X Nat)
  <2>1. idx[Len(idx)] \in Fields
    BY <1>1, ElementOfSeq
  <2>. QED BY <2>1 DEF FieldName, Fields
<1>. QED BY <1>2, <1>3, ConcatProperties DEF WarningNames

\* Warn prints at most one line and moves to the next dataset, if any.
LEMMA WarnIInv == IInv /\ Warn => IInv'
<1> SUFFICES ASSUME IInv, Warn PROVE IInv'
  OBVIOUS
<1>1. warning' \in Seq([ds : Datasets, names : Seq(Datasets \X Nat)])
  <2>1. CASE indicesDone # <<>> /\ WriterRank = 0
    <3>1. [ds |-> ds, names |-> WarningNames(ds, indicesDone)]
            \in [ds : Datasets, names : Seq(Datasets \X Nat)]
      BY <2>1, WarningNamesType DEF IInv, TypeOK
    <3>. QED BY <2>1, <3>1, AppendProperties DEF IInv, TypeOK, Warn
  <2>2. CASE ~(indicesDone # <<>> /\ WriterRank = 0)
    BY <2>2 DEF IInv, TypeOK, Warn
  <2>. QED BY <2>1, <2>2
<1>2. ds' \in Datasets /\ pc' \in {"start", "done"}
  BY DEF IInv, TypeOK, Warn, Datasets
<1>. QED BY <1>1, <1>2 DEF IInv, TypeOK, WalkInv, Warn

\* A stuttering step leaves every variable, hence IInv, unchanged.
LEMMA StutterIInv == IInv /\ UNCHANGED vars => IInv'
BY DEF IInv, TypeOK, WalkInv, vars

(***************************************************************************)
(* Type correctness and the loop invariant of outputAllocatedFields hold   *)
(* in every state of every behaviour, for all values of the constants.    *)
(***************************************************************************)
THEOREM IInvInvariant == Spec => []IInv
<1>1. Init => IInv
  BY InitIInv
<1>2. IInv /\ [Next]_vars => IInv'
  BY StartDatasetIInv, WriteFieldIInv, SkipFieldIInv, EndLoopIInv, WarnIInv, StutterIInv
  DEF Next
<1>. QED BY <1>1, <1>2, PTL DEF Spec

(***************************************************************************)
(* The type invariant of the model of outputAllocatedFields.               *)
(***************************************************************************)
THEOREM TypeCorrect == Spec => []TypeOK
BY IInvInvariant, PTL DEF IInv

(***************************************************************************)
(* WalkInv, the loop invariant of the backward erase loop checked by the   *)
(* run field_output, holds for every size of field table and request.      *)
(***************************************************************************)
THEOREM WalkInvariant == Spec => []WalkInv
BY IInvInvariant, PTL DEF IInv

=============================================================================
