----------------------- MODULE FieldOutput_refinement -----------------------
(***************************************************************************)
(* Proof that FieldOutput (Propagator::outputAllocatedFields) implements   *)
(* AbstractFieldOutput under the mapping finished <- (pc = "done"),         *)
(* out <- written, for every number of fields, datasets and requested      *)
(* outputs.  The backward erase walk writes the allocated fields in        *)
(* reverse request order and erases them as it goes; what makes each       *)
(* write a legal abstract Write (a due field not yet written) is           *)
(* WrittenInv, which is proved inductive together with TypeOK and WalkInv.  *)
(***************************************************************************)
EXTENDS FieldOutput_proofs

RInv == IInv /\ WrittenInv

\* The records of writeField calls.
WriteRec == [ds : Datasets, key : Datasets \X Fields, col : 0..MaxOut, field : Fields]

\* The fields of dataset d written in the sequence of writes w.
WS(w, d) == {w[k].field : k \in {k \in DOMAIN w : w[k].ds = d}}

(***************************************************************************)
(* Appending a write adds its field to the written fields of its dataset   *)
(* and to no other.                                                        *)
(***************************************************************************)
LEMMA WSAppend ==
    ASSUME NEW w \in Seq(WriteRec), NEW r \in WriteRec, NEW d, r.ds = d
    PROVE  WS(Append(w, r), d) = WS(w, d) \cup {r.field}
<1>1. /\ DOMAIN Append(w, r) = 1..(Len(w) + 1)
      /\ \A k \in 1..Len(w) : Append(w, r)[k] = w[k]
      /\ Append(w, r)[Len(w) + 1] = r
      /\ DOMAIN w = 1..Len(w)
      /\ Len(w) \in Nat
  BY AppendProperties, LenProperties
<1>. QED BY <1>1 DEF WS

LEMMA WrittenSetWS == \A d : WrittenSet(d) = WS(written, d)
BY DEF WrittenSet, WritesFor, WS

\* The positions of a request list hold distinct fields.
LEMMA InjectiveLemma ==
    ASSUME NEW d \in Datasets, outIdx[d] \in RequestLists,
           NEW k1 \in 1..Len(outIdx[d]), NEW k2 \in 1..Len(outIdx[d]),
           outIdx[d][k1] = outIdx[d][k2]
    PROVE  k1 = k2
<1>1. outIdx[d] \in Seq(Fields) /\ IsInjective(outIdx[d])
  BY RequestListLemma DEF RequestLists
<1>2. DOMAIN outIdx[d] = 1..Len(outIdx[d])
  BY <1>1, LenProperties
<1>. QED BY <1>1, <1>2 DEF IsInjective

LEMMA InitRInv == Init => RInv
<1> SUFFICES ASSUME Init PROVE RInv
  OBVIOUS
<1>1. IInv
  BY InitIInv
<1>2. WrittenInv
  BY DEF Init, WrittenInv, WrittenSet, WritesFor
<1>. QED BY <1>1, <1>2 DEF RInv

LEMMA StartDatasetWrittenInv == RInv /\ StartDataset => WrittenInv'
<1> SUFFICES ASSUME RInv, StartDataset PROVE WrittenInv'
  OBVIOUS
<1>1. Len(outIdx[ds]) \in Nat
  BY RequestListLemma DEF RInv, IInv, TypeOK
<1>2. WrittenSet(ds) = {}
  BY DEF RInv, WrittenInv, StartDataset
<1>3. WrittenSet(ds)' = WrittenSet(ds)
  BY DEF StartDataset, WrittenSet, WritesFor
<1>4. (i' + 2)..Len(outIdx'[ds']) = {}
  BY <1>1 DEF StartDataset
<1>. QED BY <1>2, <1>3, <1>4 DEF RInv, WrittenInv, StartDataset

LEMMA WriteFieldWrittenInv == RInv /\ WriteField => WrittenInv'
<1> SUFFICES ASSUME RInv, WriteField PROVE WrittenInv'
  OBVIOUS
<1> DEFINE f == indicesDone[i + 1]
           r == [ds |-> ds, key |-> namesDone[i + 1], col |-> Column(ds, f), field |-> f]
           L == Len(outIdx[ds])
<1>1. /\ pc = "loop"
      /\ ds \in Datasets
      /\ i \in 0..MaxOut
      /\ i + 1 <= L
      /\ L \in Nat
      /\ f = outIdx[ds][i + 1]
      /\ f \in alloc[ds]
      /\ written \in Seq([ds : Datasets, key : Datasets \X Fields, col : 0..MaxOut, field : Fields])
      /\ WrittenSet(ds) = {outIdx[ds][k] : k \in (i + 2)..L} \cap alloc[ds]
      /\ \A k \in DOMAIN written : written[k].ds <= ds
  BY RequestListLemma, LenProperties DEF RInv, IInv, TypeOK, WalkInv, WrittenInv, WriteField
<1>2. r \in [ds : Datasets, key : Datasets \X Fields, col : 0..MaxOut, field : Fields]
  BY TypeCorrect, WriteFieldIInv DEF RInv, IInv, TypeOK, WriteField
<1>3. written' = Append(written, r)
  BY DEF WriteField
<1>4. WrittenSet(ds)' = WrittenSet(ds) \cup {f}
  <2>1. WS(Append(written, r), ds) = WS(written, ds) \cup {f}
    <3>1. written \in Seq(WriteRec) /\ r \in WriteRec /\ r.ds = ds /\ r.field = f
      BY <1>1, <1>2 DEF WriteRec
    <3>. QED BY <3>1, WSAppend
  <2>. QED BY <2>1, <1>3, WrittenSetWS DEF WriteField, WrittenSet, WritesFor, WS
<1>5. {outIdx[ds][k] : k \in (i + 1)..L} \cap alloc[ds]
        = ({outIdx[ds][k] : k \in (i + 2)..L} \cap alloc[ds]) \cup {f}
  BY <1>1
<1>6. \A k \in DOMAIN written' : written'[k].ds <= ds'
  <2>1. /\ DOMAIN written' = 1..(Len(written) + 1)
        /\ \A k \in 1..Len(written) : written'[k] = written[k]
        /\ written'[Len(written) + 1] = r
        /\ DOMAIN written = 1..Len(written)
        /\ Len(written) \in Nat
    BY <1>1, <1>2, <1>3, AppendProperties, LenProperties
  <2>2. ds' = ds /\ r.ds = ds
    BY DEF WriteField
  <2>3. \A k \in 1..Len(written) : written[k].ds <= ds
    BY <1>1, <2>1
  <2>4. SUFFICES ASSUME NEW k \in DOMAIN written' PROVE written'[k].ds <= ds
    BY <2>2
  <2>5. CASE k \in 1..Len(written)
    BY <2>1, <2>3, <2>5
  <2>6. CASE k = Len(written) + 1
    <3>1. ds \in Nat
      BY <1>1 DEF Datasets
    <3>. QED BY <2>1, <2>2, <2>6, <3>1
  <2>. QED BY <2>1, <2>5, <2>6
<1>. QED BY <1>1, <1>4, <1>5, <1>6 DEF WrittenInv, WriteField

LEMMA SkipFieldWrittenInv == RInv /\ SkipField => WrittenInv'
<1> SUFFICES ASSUME RInv, SkipField PROVE WrittenInv'
  OBVIOUS
<1>1. /\ pc = "loop"
      /\ i \in 0..MaxOut
      /\ i + 1 <= Len(outIdx[ds])
      /\ indicesDone[i + 1] = outIdx[ds][i + 1]
      /\ indicesDone[i + 1] \notin alloc[ds]
  <2>1. pc = "loop" /\ i \in -1..MaxOut /\ i >= 0 /\ indicesDone[i + 1] \notin alloc[ds]
    BY DEF RInv, IInv, TypeOK, SkipField
  <2>2. i + 1 <= Len(outIdx[ds]) /\ \A k \in 1..(i + 1) : indicesDone[k] = outIdx[ds][k]
    BY <2>1 DEF RInv, IInv, WalkInv
  <2>. QED BY <2>1, <2>2
<1>3. WrittenSet(ds) = {outIdx[ds][k] : k \in (i + 2)..Len(outIdx[ds])} \cap alloc[ds]
  BY <1>1 DEF RInv, WrittenInv
<1>2. {outIdx[ds][k] : k \in (i + 1)..Len(outIdx[ds])} \cap alloc[ds]
        = {outIdx[ds][k] : k \in (i + 2)..Len(outIdx[ds])} \cap alloc[ds]
  BY <1>1
<1>. QED BY <1>1, <1>2, <1>3 DEF RInv, WrittenInv, SkipField, WrittenSet, WritesFor

LEMMA EndLoopWrittenInv == RInv /\ EndLoop => WrittenInv'
<1> SUFFICES ASSUME RInv, EndLoop PROVE WrittenInv'
  OBVIOUS
<1>1. /\ i = -1
      /\ outIdx[ds] \in Seq(Fields)
  <2>1. pc = "loop" /\ i \in -1..MaxOut /\ i < 0 /\ ds \in Datasets /\ outIdx[ds] \in RequestLists
    BY DEF RInv, IInv, TypeOK, EndLoop
  <2>. QED BY <2>1, RequestListLemma
<1>3. WrittenSet(ds) = {outIdx[ds][k] : k \in 1..Len(outIdx[ds])} \cap alloc[ds]
  BY <1>1 DEF RInv, WrittenInv, EndLoop
<1>2. Range(outIdx[ds]) = {outIdx[ds][k] : k \in 1..Len(outIdx[ds])}
  BY <1>1, LenProperties DEF Range
<1>. QED BY <1>1, <1>2, <1>3 DEF RInv, WrittenInv, EndLoop, WrittenSet, WritesFor

LEMMA WarnWrittenInv == RInv /\ Warn => WrittenInv'
<1> SUFFICES ASSUME RInv, Warn PROVE WrittenInv'
  OBVIOUS
<1>1. \A k \in DOMAIN written : written[k].ds <= ds
  BY DEF RInv, WrittenInv
<1>2. ds \in Nat
  BY DEF RInv, IInv, TypeOK, Datasets
<1>3. CASE ds < NumDatasets
  <2>1. ds' = ds + 1 /\ pc' = "start" /\ written' = written
    BY <1>3 DEF Warn
  <2>2. WrittenSet(ds + 1) = {}
    BY <1>1, <1>2 DEF WrittenSet, WritesFor
  <2>3. WrittenSet(ds)' = WrittenSet(ds + 1)
    BY <2>1 DEF WrittenSet, WritesFor
  <2>4. \A k \in DOMAIN written' : written'[k].ds <= ds'
    <3>1. \A k \in DOMAIN written : written[k].ds \in Nat
      <4>1. written \in Seq(WriteRec)
        BY DEF RInv, IInv, TypeOK, WriteRec
      <4>2. TAKE k \in DOMAIN written
      <4>3. written[k] \in WriteRec
        BY <4>1, ElementOfSeq, LenProperties
      <4>. QED BY <4>3 DEF WriteRec, Datasets
    <3>. QED BY <1>1, <1>2, <2>1, <3>1
  <2>. QED BY <2>1, <2>2, <2>3, <2>4 DEF WrittenInv
<1>4. CASE ~(ds < NumDatasets)
  <2>1. ds' = ds /\ pc' = "done" /\ written' = written
    BY <1>4 DEF Warn
  <2>. QED BY <1>1, <2>1 DEF WrittenInv
<1>. QED BY <1>3, <1>4

LEMMA RInvStep == RInv /\ [Next]_vars => RInv'
<1> SUFFICES ASSUME RInv, [Next]_vars PROVE RInv'
  OBVIOUS
<1>1. IInv'
  BY StartDatasetIInv, WriteFieldIInv, SkipFieldIInv, EndLoopIInv, WarnIInv, StutterIInv
  DEF RInv, Next
<1>2. WrittenInv'
  <2>1. CASE UNCHANGED vars
    <3>1. written' = written /\ ds' = ds /\ pc' = pc /\ i' = i /\ outIdx' = outIdx /\ alloc' = alloc
      BY <2>1 DEF vars
    <3>2. WrittenSet(ds)' = WrittenSet(ds)
      BY <3>1 DEF WrittenSet, WritesFor
    <3>. QED BY <3>1, <3>2 DEF RInv, WrittenInv
  <2>. QED BY <2>1, StartDatasetWrittenInv, WriteFieldWrittenInv, SkipFieldWrittenInv,
              EndLoopWrittenInv, WarnWrittenInv DEF Next
<1>. QED BY <1>1, <1>2 DEF RInv

(***************************************************************************)
(* WrittenInv, checked by the run field_output, holds in every reachable   *)
(* state of outputAllocatedFields, for all values of the constants.        *)
(***************************************************************************)
THEOREM WrittenInvariant == Spec => []WrittenInv
<1>1. Spec => []RInv
  BY InitRInv, RInvStep, PTL DEF Spec
<1>. QED BY <1>1, PTL DEF RInv
LEMMA InitRefines == Init => Abstract!Init
<1> SUFFICES ASSUME Init PROVE Abstract!Init
  OBVIOUS
<1>1. Abstract!RequestLists = RequestLists /\ Abstract!Datasets = Datasets /\ Abstract!Fields = Fields
  BY DEF Abstract!RequestLists, RequestLists, Abstract!Datasets, Datasets, Abstract!Fields, Fields,
     Abstract!IsInjective, IsInjective
<1>. QED BY <1>1 DEF Init, Abstract!Init

\* A write of the backward walk is an abstract Write of the field it visits.
LEMMA WriteFieldRefines == RInv /\ WriteField => Abstract!Write
<1> SUFFICES ASSUME RInv, WriteField PROVE Abstract!Write
  OBVIOUS
<1> DEFINE f == indicesDone[i + 1]
           L == Len(outIdx[ds])
<1>1. /\ pc = "loop"
      /\ ds \in Datasets
      /\ outIdx[ds] \in RequestLists
      /\ i \in 0..MaxOut
      /\ f \in alloc[ds]
      /\ i + 1 \in 1..Len(indicesDone)
      /\ i + 1 <= L
      /\ f = outIdx[ds][i + 1]
      /\ namesDone[i + 1] = FieldName(ds, f)
      /\ WrittenSet(ds) = {outIdx[ds][k] : k \in (i + 2)..L} \cap alloc[ds]
  <2>1. /\ pc = "loop"
        /\ ds \in Datasets
        /\ outIdx[ds] \in RequestLists
        /\ i \in -1..MaxOut
        /\ i >= 0
        /\ f \in alloc[ds]
    BY DEF RInv, IInv, TypeOK, WriteField
  <2>2. /\ i + 1 \in 0..Len(indicesDone)
        /\ i + 1 <= L
        /\ \A k \in 1..(i + 1) : indicesDone[k] = outIdx[ds][k]
        /\ \A k \in 1..Len(indicesDone) : namesDone[k] = FieldName(ds, indicesDone[k])
        /\ WrittenSet(ds) = {outIdx[ds][k] : k \in (i + 2)..L} \cap alloc[ds]
    BY <2>1 DEF RInv, IInv, WalkInv, WrittenInv
  <2>3. i \in 0..MaxOut /\ i + 1 \in 1..Len(indicesDone) /\ i + 1 \in 1..(i + 1)
    BY <2>1, <2>2
  <2>. QED BY <2>1, <2>2, <2>3
<1>2. /\ outIdx[ds] \in Seq(Fields)
      /\ L \in Nat
      /\ DOMAIN outIdx[ds] = 1..L
  BY <1>1, RequestListLemma, LenProperties
<1>3. i \in 0..(L - 1)
  BY <1>1, <1>2
<1>4. Column(ds, f) = i
  BY <1>1, <1>3, ColumnLemma
<1>5. f \in Range(outIdx[ds]) \cap alloc[ds]
  BY <1>1, <1>2 DEF Range
<1>6. f \notin WrittenSet(ds)
  <2>1. SUFFICES ASSUME NEW k \in (i + 2)..L, outIdx[ds][k] = f PROVE FALSE
    BY <1>1
  <2>2. k \in 1..L /\ i + 1 \in 1..L /\ k # i + 1
    BY <1>1, <1>2, <1>3
  <2>. QED BY <1>1, <2>1, <2>2, InjectiveLemma
<1>7. written' = Append(written, [ds |-> ds, key |-> FieldName(ds, f), col |-> i, field |-> f])
  BY <1>1, <1>4 DEF WriteField
<1>8. UNCHANGED <<outIdx, alloc, ds, pc = "done">>
  BY <1>1 DEF WriteField
<1>. QED
  <2>1. f \in Abstract!Due(ds) \ Abstract!Done(ds)
    BY <1>5, <1>6 DEF Abstract!Due, Abstract!Done, WrittenSet, WritesFor, Abstract!Range, Range
  <2>2. Abstract!FieldName(ds, f) = FieldName(ds, f)
    BY DEF Abstract!FieldName, FieldName
  <2>. QED BY <1>1, <1>3, <1>7, <1>8, <2>1, <2>2 DEF Abstract!Write

\* The end of a dataset's warning step is an abstract Finish.
LEMMA WarnRefines == RInv /\ Warn => Abstract!Finish
<1> SUFFICES ASSUME RInv, Warn PROVE Abstract!Finish
  OBVIOUS
<1>1. Abstract!Due(ds) \subseteq Abstract!Done(ds)
  BY DEF RInv, WrittenInv, Warn, Abstract!Due, Abstract!Done, WrittenSet, WritesFor, Abstract!Range, Range
<1>2. CASE ds < NumDatasets
  <2>1. ds' = ds + 1 /\ pc' = "start" /\ UNCHANGED <<outIdx, alloc, written>>
    BY <1>2 DEF Warn
  <2>. QED BY <1>1, <1>2, <2>1 DEF Abstract!Finish, Warn
<1>3. CASE ~(ds < NumDatasets)
  <2>1. ds' = ds /\ pc' = "done" /\ UNCHANGED <<outIdx, alloc, written>>
    BY <1>3 DEF Warn
  <2>. QED BY <1>1, <1>3, <2>1 DEF Abstract!Finish, Warn
<1>. QED BY <1>2, <1>3

LEMMA StepRefines == RInv /\ [Next]_vars => [Abstract!Next]_Abstract!avars
<1> SUFFICES ASSUME RInv, [Next]_vars PROVE [Abstract!Next]_Abstract!avars
  OBVIOUS
<1>1. CASE WriteField
  BY <1>1, WriteFieldRefines DEF Abstract!Next
<1>2. CASE Warn
  BY <1>2, WarnRefines DEF Abstract!Next
<1>3. CASE StartDataset \/ SkipField \/ EndLoop \/ UNCHANGED vars
  <2>1. UNCHANGED <<outIdx, alloc, ds, written>> /\ (pc' = "done") = (pc = "done")
    BY <1>3 DEF StartDataset, SkipField, EndLoop, vars
  <2>. QED BY <2>1 DEF Abstract!avars
<1>. QED BY <1>1, <1>2, <1>3 DEF Next

(***************************************************************************)
(* outputAllocatedFields implements its abstract specification: under the  *)
(* mapping finished <- (pc = "done"), out <- written, every behaviour of   *)
(* the backward erase walk is one in which each dataset writes each        *)
(* allocated requested field exactly once, under its own name and into    *)
(* its request column, before the next dataset starts.  The run           *)
(* field_output checks AbstractSpec on a small instance.                   *)
(***************************************************************************)
THEOREM Refinement == Spec => AbstractSpec
<1>1. Spec => []RInv
  BY InitRInv, RInvStep, PTL DEF Spec
<1>2. Spec => [][Abstract!Next]_Abstract!avars
  BY <1>1, StepRefines, PTL DEF Spec
<1>. QED BY <1>2, InitRefines, PTL DEF Spec, AbstractSpec, Abstract!Spec
====
