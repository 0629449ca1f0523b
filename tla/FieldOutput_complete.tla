------------------------ MODULE FieldOutput_complete ------------------------
(***************************************************************************)
(* Proof of OutputComplete for FieldOutput (Propagator::                   *)
(* outputAllocatedFields): once the lambda `output` has finished with a    *)
(* dataset, each allocated requested field of it was written exactly once, *)
(* under its name, into its request column, after its transfer to host.   *)
(* OutputComplete is not inductive: it speaks of finished datasets only,   *)
(* while the writes are made during the walk.  It follows from RInv (the   *)
(* walk and the writes of the current dataset, FieldOutput_refinement)     *)
(* together with DoneInv (what holds of the datasets already left) and     *)
(* RecordInv (what holds of every write as it is issued, and is never      *)
(* undone: `written` and `onHost` only grow).                              *)
(***************************************************************************)
EXTENDS FieldOutput_refinement

\* Every dataset already left wrote exactly its allocated requested fields.
DoneInv ==
    /\ \A d \in Datasets : d < ds => WrittenSet(d) = Range(outIdx[d]) \cap alloc[d]
    /\ pc = "done" => WrittenSet(ds) = Range(outIdx[ds]) \cap alloc[ds]

\* Each write has its field's name and column, its field is on host, and
\* no other write of the same dataset wrote the same field.
RecOK(w, h, o) ==
    \A k \in DOMAIN w :
        /\ w[k].key = FieldName(w[k].ds, w[k].field)
        /\ o[w[k].ds][w[k].col + 1] = w[k].field
        /\ <<w[k].ds, w[k].field>> \in h
        /\ \A k2 \in DOMAIN w : w[k2].ds = w[k].ds /\ w[k2].field = w[k].field => k2 = k

RecordInv == RecOK(written, onHost, outIdx)

CInv == RInv /\ DoneInv /\ RecordInv

(***************************************************************************)
(* Appending a write leaves the written fields of every other dataset as   *)
(* they were.                                                              *)
(***************************************************************************)
LEMMA WSAppendOther ==
    ASSUME NEW w \in Seq(WriteRec), NEW r \in WriteRec, NEW d, r.ds # d
    PROVE  WS(Append(w, r), d) = WS(w, d)
<1>1. /\ DOMAIN Append(w, r) = 1..(Len(w) + 1)
      /\ \A k \in 1..Len(w) : Append(w, r)[k] = w[k]
      /\ Append(w, r)[Len(w) + 1] = r
      /\ DOMAIN w = 1..Len(w)
      /\ Len(w) \in Nat
  BY AppendProperties, LenProperties
<1>. QED BY <1>1 DEF WS

(***************************************************************************)
(* Appending a write that has its field's name and column, whose field is  *)
(* on host and not yet written for its dataset, keeps RecOK, also when     *)
(* more fields reach the host.                                             *)
(***************************************************************************)
LEMMA RecAppend ==
    ASSUME NEW w \in Seq(WriteRec), NEW r \in WriteRec, NEW h, NEW h2, NEW o,
           RecOK(w, h, o), h \subseteq h2,
           r.key = FieldName(r.ds, r.field),
           o[r.ds][r.col + 1] = r.field,
           <<r.ds, r.field>> \in h2,
           r.field \notin WS(w, r.ds)
    PROVE  RecOK(Append(w, r), h2, o)
<1> DEFINE w2 == Append(w, r)
           n == Len(w)
<1>1. /\ DOMAIN w2 = 1..(n + 1)
      /\ \A k \in 1..n : w2[k] = w[k]
      /\ w2[n + 1] = r
      /\ DOMAIN w = 1..n
      /\ n \in Nat
  BY AppendProperties, LenProperties
<1> HIDE DEF w2
<1>2. \A k \in DOMAIN w2 :
        /\ w2[k].key = FieldName(w2[k].ds, w2[k].field)
        /\ o[w2[k].ds][w2[k].col + 1] = w2[k].field
        /\ <<w2[k].ds, w2[k].field>> \in h2
  <2> SUFFICES ASSUME NEW k \in DOMAIN w2
               PROVE  /\ w2[k].key = FieldName(w2[k].ds, w2[k].field)
                      /\ o[w2[k].ds][w2[k].col + 1] = w2[k].field
                      /\ <<w2[k].ds, w2[k].field>> \in h2
    OBVIOUS
  <2>1. CASE k \in 1..n
    BY <1>1, <2>1 DEF RecOK
  <2>2. CASE k = n + 1
    BY <1>1, <2>2
  <2>. QED BY <1>1, <2>1, <2>2
<1>3. ASSUME NEW k \in DOMAIN w2, NEW k2 \in DOMAIN w2,
             w2[k2].ds = w2[k].ds, w2[k2].field = w2[k].field
      PROVE  k2 = k
  <2>1. CASE k \in 1..n /\ k2 \in 1..n
    BY <1>1, <1>3, <2>1 DEF RecOK
  <2>2. CASE k \in 1..n /\ k2 = n + 1
    <3>1. w[k].ds = r.ds /\ w[k].field = r.field
      BY <1>1, <1>3, <2>2
    <3>. QED BY <1>1, <2>2, <3>1 DEF WS
  <2>3. CASE k = n + 1 /\ k2 \in 1..n
    <3>1. w[k2].ds = r.ds /\ w[k2].field = r.field
      BY <1>1, <1>3, <2>3
    <3>. QED BY <1>1, <2>3, <3>1 DEF WS
  <2>4. CASE k = n + 1 /\ k2 = n + 1
    BY <2>4
  <2>. QED BY <1>1, <2>1, <2>2, <2>3, <2>4
<1>. QED BY <1>2, <1>3 DEF RecOK, w2

LEMMA InitCInv == Init => CInv
<1> SUFFICES ASSUME Init PROVE CInv
  OBVIOUS
<1>1. RInv
  BY InitRInv
<1>2. DoneInv
  BY DEF Init, DoneInv, Datasets
<1>3. RecordInv
  BY DEF Init, RecordInv, RecOK
<1>. QED BY <1>1, <1>2, <1>3 DEF CInv

\* A write of the walk appends a record that keeps RecordInv, and touches
\* no dataset already left.
LEMMA WriteFieldCInv == CInv /\ WriteField => DoneInv' /\ RecordInv'
<1> SUFFICES ASSUME CInv, WriteField PROVE DoneInv' /\ RecordInv'
  OBVIOUS
<1>1. Abstract!Write
  BY WriteFieldRefines DEF CInv
<1>2. PICK f \in Abstract!Due(ds) \ Abstract!Done(ds), c \in 0..(Len(outIdx[ds]) - 1) :
         /\ outIdx[ds][c + 1] = f
         /\ written' = Append(written, [ds |-> ds, key |-> Abstract!FieldName(ds, f),
                                         col |-> c, field |-> f])
  BY <1>1 DEF Abstract!Write
<1> DEFINE r == [ds |-> ds, key |-> FieldName(ds, f), col |-> c, field |-> f]
<1>3. written' = Append(written, r)
  BY <1>2 DEF Abstract!FieldName, FieldName
<1>4. /\ written \in Seq(WriteRec)
      /\ written' \in Seq(WriteRec)
      /\ ds \in Datasets
      /\ pc = "loop"
  <2>1. RInv'
    BY RInvStep DEF CInv, Next
  <2>. QED BY <2>1 DEF CInv, RInv, IInv, TypeOK, WriteRec, WriteField
<1>5. /\ Len(written) \in Nat
      /\ Len(written') = Len(written) + 1
      /\ written'[Len(written) + 1] = r
  BY <1>3, <1>4, AppendProperties, LenProperties
<1>6. r \in WriteRec
  BY <1>4, <1>5, ElementOfSeq
<1>7. f = indicesDone[i + 1] /\ onHost' = onHost \cup {<<ds, f>>}
  <2>1. written'[Len(written) + 1].field = indicesDone[i + 1]
    BY <1>4, AppendProperties DEF WriteField
  <2>. QED BY <1>5, <2>1 DEF WriteField
<1>8. f \notin WS(written, ds)
  BY <1>2 DEF Abstract!Done, WS
<1>9. RecordInv'
  <2>1. RecOK(Append(written, r), onHost', outIdx)
    BY <1>2, <1>4, <1>6, <1>7, <1>8, RecAppend DEF CInv, RecordInv, FieldName
  <2>. QED BY <1>3, <2>1 DEF RecordInv, WriteField
<1>10. DoneInv'
  <2>1. ASSUME NEW d \in Datasets, d < ds
        PROVE  WrittenSet(d)' = Range(outIdx[d]) \cap alloc[d]
    <3>0. r.ds # d
      BY <1>4, <2>1 DEF Datasets
    <3>1. WS(Append(written, r), d) = WS(written, d)
      BY <1>4, <1>6, <3>0, WSAppendOther
    <3>2. WrittenSet(d) = Range(outIdx[d]) \cap alloc[d]
      BY <2>1 DEF CInv, DoneInv
    <3>. QED BY <1>3, <3>1, <3>2 DEF WriteField, WrittenSet, WritesFor, WS
  <2>. QED BY <1>4, <2>1 DEF DoneInv, WriteField
<1>. QED BY <1>9, <1>10

\* The steps that write nothing leave written, onHost, outIdx, alloc and ds
\* alone, and none of them reaches "done".
LEMMA QuietCInv ==
    CInv /\ (StartDataset \/ SkipField \/ EndLoop \/ UNCHANGED vars) => DoneInv' /\ RecordInv'
<1> SUFFICES ASSUME CInv, StartDataset \/ SkipField \/ EndLoop \/ UNCHANGED vars
             PROVE  DoneInv' /\ RecordInv'
  OBVIOUS
<1>1. UNCHANGED <<written, onHost, outIdx, alloc, ds>>
  BY DEF StartDataset, SkipField, EndLoop, vars
<1>2. pc' = "done" => pc = "done"
  BY DEF StartDataset, SkipField, EndLoop, vars
<1>3. \A d : WrittenSet(d)' = WrittenSet(d)
  BY <1>1 DEF WrittenSet, WritesFor
<1>. QED BY <1>1, <1>2, <1>3 DEF CInv, DoneInv, RecordInv, RecOK

\* Leaving a dataset adds it to the datasets left; WrittenInv says it is
\* complete.
LEMMA WarnCInv == CInv /\ Warn => DoneInv' /\ RecordInv'
<1> SUFFICES ASSUME CInv, Warn PROVE DoneInv' /\ RecordInv'
  OBVIOUS
<1>1. /\ UNCHANGED <<written, onHost, outIdx, alloc>>
      /\ \A d : WrittenSet(d)' = WrittenSet(d)
  BY DEF Warn, WrittenSet, WritesFor
<1>2. /\ WrittenSet(ds) = Range(outIdx[ds]) \cap alloc[ds]
      /\ ds \in Nat
  BY DEF CInv, RInv, WrittenInv, Warn, IInv, TypeOK, Datasets
<1>3. RecordInv'
  BY <1>1 DEF CInv, RecordInv, RecOK
<1>4. CASE ds < NumDatasets
  <2>1. ds' = ds + 1 /\ pc' = "start"
    BY <1>4 DEF Warn
  <2>2. ASSUME NEW d \in Datasets, d < ds + 1
        PROVE  WrittenSet(d) = Range(outIdx[d]) \cap alloc[d]
    <3>1. d < ds \/ d = ds
      BY <1>2, <2>2 DEF Datasets
    <3>. QED BY <1>2, <3>1 DEF CInv, DoneInv
  <2>. QED BY <1>1, <1>3, <2>1, <2>2 DEF DoneInv
<1>5. CASE ~(ds < NumDatasets)
  <2>1. ds' = ds /\ pc' = "done"
    BY <1>5 DEF Warn
  <2>. QED BY <1>1, <1>2, <1>3, <2>1 DEF CInv, DoneInv
<1>. QED BY <1>4, <1>5

LEMMA CInvStep == CInv /\ [Next]_vars => CInv'
<1> SUFFICES ASSUME CInv, [Next]_vars PROVE CInv'
  OBVIOUS
<1>1. RInv'
  BY RInvStep DEF CInv
<1>2. DoneInv' /\ RecordInv'
  BY WriteFieldCInv, QuietCInv, WarnCInv DEF Next
<1>. QED BY <1>1, <1>2 DEF CInv

LEMMA CInvOutputComplete == CInv => OutputComplete
<1> SUFFICES ASSUME CInv, NEW d \in Datasets, Finished(d)
             PROVE  /\ WrittenSet(d) = Range(outIdx[d]) \cap alloc[d]
                    /\ \A k1, k2 \in WritesFor(d) :
                          written[k1].field = written[k2].field => k1 = k2
                    /\ \A k \in WritesFor(d) :
                          /\ written[k].key = FieldName(d, written[k].field)
                          /\ outIdx[d][written[k].col + 1] = written[k].field
                          /\ <<d, written[k].field>> \in onHost
  BY DEF OutputComplete
<1>1. WrittenSet(d) = Range(outIdx[d]) \cap alloc[d]
  <2>1. CASE d < ds
    BY <2>1 DEF CInv, DoneInv
  <2>2. CASE d = ds /\ pc = "warn"
    BY <2>2 DEF CInv, RInv, WrittenInv
  <2>3. CASE d = ds /\ pc = "done"
    BY <2>3 DEF CInv, DoneInv
  <2>. QED BY <2>1, <2>2, <2>3 DEF Finished
<1>2. \A k \in WritesFor(d) : written[k].ds = d
  BY DEF WritesFor
<1>. QED BY <1>1, <1>2 DEF CInv, RecordInv, RecOK, WritesFor

(***************************************************************************)
(* OutputComplete, checked by the run field_output, holds in every         *)
(* reachable state of outputAllocatedFields for all numbers of fields,     *)
(* datasets and requested outputs: a dataset the lambda `output` has       *)
(* finished wrote each allocated requested field once, under its name,     *)
(* into its request column, after transferring it to host.                 *)
(***************************************************************************)
THEOREM OutputCompleteInvariant == Spec => []OutputComplete
<1>1. Spec => []CInv
  BY InitCInv, CInvStep, PTL DEF Spec
<1>. QED BY <1>1, CInvOutputComplete, PTL
=============================================================================
