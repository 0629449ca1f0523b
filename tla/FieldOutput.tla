---------------------------- MODULE FieldOutput ----------------------------
(***************************************************************************)
(* Propagator::outputAllocatedFields (src/main/src/propagator/            *)
(* ipropagator.hpp, lines 173-210).  For each particle dataset (hydro,     *)
(* then chem) the lambda `output` copies the dataset's list of requested   *)
(* output field indices and names, walks the copy backwards, writes every  *)
(* field that is allocated (after a device-to-host transfer) into the      *)
(* column the field has in the original request list, erases it from both *)
(* copies, and finally, on the writer's rank 0, prints a warning naming    *)
(* the requested fields that were not written.                             *)
(*                                                                         *)
(* Field indices are the 0-based positions into d.fieldNames; a field      *)
(* name is abstracted to the pair <<dataset, index>>.                      *)
(***************************************************************************)
EXTENDS Naturals, Sequences, SequencesExt

CONSTANTS
    NumFields,      \* size of d.fieldNames of each dataset
    MaxOut,         \* longest list of requested output fields
    NumDatasets,    \* datasets written in turn: 1 = hydro, 2 = chem
    WriterRank      \* writer->rank()

ASSUME ConstAssumption ==
    /\ NumFields \in Nat \ {0}
    /\ MaxOut \in Nat
    /\ NumDatasets \in Nat \ {0}
    /\ WriterRank \in Nat

Fields   == 0..(NumFields - 1)
Datasets == 1..NumDatasets

\* d.fieldNames[fidx] of dataset d.
FieldName(d, f) == <<d, f>>

\* The lists a dataset can hold in d.outputFieldIndices: distinct indices.
RequestLists == UNION { {s \in [1..n -> Fields] : IsInjective(s)} : n \in 0..MaxOut }

VARIABLES
    outIdx,       \* outIdx[d]: d.outputFieldIndices (input, read only)
    alloc,        \* alloc[d]: the fields d.isAllocated (input, read only)
    ds,           \* the dataset the lambda `output` is running on
    pc,           \* "start", "loop", "warn" or "done"
    indicesDone,  \* local copy `indicesDone`
    namesDone,    \* local copy `namesDone`
    i,            \* loop counter of the backward walk (0-based, as in C++)
    onHost,       \* fields transferred to host by transferToHost
    written,      \* calls writer->writeField(key, data, column), in order
    warning       \* warning lines printed on std::cout

vars == <<outIdx, alloc, ds, pc, indicesDone, namesDone, i, onHost, written, warning>>

\* d.outputFieldNames: the names parallel to d.outputFieldIndices.
OutputFieldNames(d) == [k \in DOMAIN outIdx[d] |-> FieldName(d, outIdx[d][k])]

\* std::find(outputFieldIndices.begin(), ..., fidx) - begin(): 0-based
\* position of the first occurrence of fidx.
Column(d, fidx) ==
    CHOOSE c \in 0..(Len(outIdx[d]) - 1) :
        /\ outIdx[d][c + 1] = fidx
        /\ \A c2 \in 0..(c - 1) : outIdx[d][c2 + 1] # fidx

Init ==
    /\ outIdx \in [Datasets -> RequestLists]
    /\ alloc \in [Datasets -> SUBSET Fields]
    /\ ds = 1
    /\ pc = "start"
    /\ indicesDone = <<>>
    /\ namesDone = <<>>
    /\ i = -1
    /\ onHost = {}
    /\ written = <<>>
    /\ warning = <<>>

\* Mutant of StartDataset: the walk starts at size() - 2.
StartDatasetSkipLast ==
    /\ pc = "start"
    /\ indicesDone' = outIdx[ds]
    /\ namesDone' = OutputFieldNames(ds)
    /\ i' = Len(outIdx[ds]) - 2
    /\ pc' = "loop"
    /\ UNCHANGED <<outIdx, alloc, ds, onHost, written, warning>>

\* Mutant of StartDataset: the walk starts at indicesDone.size() - 1
\* computed in size_t, without the int cast; on an empty list it wraps to
\* the largest value (size_t narrowed to 30 bits for TLC).
StartDatasetUnsigned ==
    /\ pc = "start"
    /\ indicesDone' = outIdx[ds]
    /\ namesDone' = OutputFieldNames(ds)
    /\ i' = (Len(outIdx[ds]) - 1) % 2^30
    /\ pc' = "loop"
    /\ UNCHANGED <<outIdx, alloc, ds, onHost, written, warning>>

\* auto indicesDone = d.outputFieldIndices; auto namesDone = ...;
\* for (int i = int(indicesDone.size()) - 1; ...
StartDataset ==
    /\ pc = "start"
    /\ indicesDone' = outIdx[ds]
    /\ namesDone' = OutputFieldNames(ds)
    /\ i' = Len(outIdx[ds]) - 1
    /\ pc' = "loop"
    /\ UNCHANGED <<outIdx, alloc, ds, onHost, written, warning>>

\* Mutant of WriteField: the field is written without transferToHost.
WriteFieldNoTransfer ==
    /\ pc = "loop"
    /\ i >= 0
    /\ indicesDone[i + 1] \in alloc[ds]
    /\ LET fidx == indicesDone[i + 1]
       IN written' = Append(written, [ds |-> ds, key |-> namesDone[i + 1],
                                      col |-> Column(ds, fidx), field |-> fidx])
    /\ indicesDone' = RemoveAt(indicesDone, i + 1)
    /\ namesDone' = RemoveAt(namesDone, i + 1)
    /\ i' = i - 1
    /\ UNCHANGED <<outIdx, alloc, ds, pc, warning, onHost>>

\* Mutant of WriteField: erase(begin() + i) taken as a 1-based position.
WriteFieldEraseOffByOne ==
    /\ pc = "loop"
    /\ i >= 0
    /\ indicesDone[i + 1] \in alloc[ds]
    /\ LET fidx == indicesDone[i + 1]
       IN /\ onHost' = onHost \cup {<<ds, fidx>>}
          /\ written' = Append(written, [ds |-> ds, key |-> namesDone[i + 1],
                                         col |-> Column(ds, fidx), field |-> fidx])
    /\ indicesDone' = RemoveAt(indicesDone, i)
    /\ namesDone' = RemoveAt(namesDone, i)
    /\ i' = i - 1
    /\ UNCHANGED <<outIdx, alloc, ds, pc, warning>>

\* Loop body for an allocated field: transferToHost, writeField into the
\* field's column of the original list, erase position i from both copies.
WriteField ==
    /\ pc = "loop"
    /\ i >= 0
    /\ indicesDone[i + 1] \in alloc[ds]
    /\ LET fidx == indicesDone[i + 1]
       IN /\ onHost' = onHost \cup {<<ds, fidx>>}
          /\ written' = Append(written, [ds |-> ds, key |-> namesDone[i + 1],
                                         col |-> Column(ds, fidx), field |-> fidx])
    /\ indicesDone' = RemoveAt(indicesDone, i + 1)
    /\ namesDone' = RemoveAt(namesDone, i + 1)
    /\ i' = i - 1
    /\ UNCHANGED <<outIdx, alloc, ds, pc, warning>>

\* Loop body for a field that is not allocated: nothing but --i.
SkipField ==
    /\ pc = "loop"
    /\ i >= 0
    /\ indicesDone[i + 1] \notin alloc[ds]
    /\ i' = i - 1
    /\ UNCHANGED <<outIdx, alloc, ds, pc, indicesDone, namesDone, onHost, written, warning>>

EndLoop ==
    /\ pc = "loop"
    /\ i < 0
    /\ pc' = "warn"
    /\ UNCHANGED <<outIdx, alloc, ds, indicesDone, namesDone, i, onHost, written, warning>>

\* The names the warning loop prints: d.fieldNames[fidx] for
\* fidx = 0 .. indicesDone.size() - 2, then d.fieldNames[indicesDone.back()].
WarningNames(d, idx) ==
    [k \in 1..(Len(idx) - 1) |-> FieldName(d, k - 1)] \o <<FieldName(d, idx[Len(idx)])>>

\* if (!indicesDone.empty() && writer->rank() == 0) { ... }, then the
\* lambda returns and `output` is called on the next dataset.
Warn ==
    /\ pc = "warn"
    /\ warning' = IF indicesDone # <<>> /\ WriterRank = 0
                  THEN Append(warning, [ds |-> ds, names |-> WarningNames(ds, indicesDone)])
                  ELSE warning
    /\ IF ds < NumDatasets
       THEN ds' = ds + 1 /\ pc' = "start"
       ELSE ds' = ds /\ pc' = "done"
    /\ UNCHANGED <<outIdx, alloc, indicesDone, namesDone, i, onHost, written>>

Next == StartDataset \/ WriteField \/ SkipField \/ EndLoop \/ Warn

Spec == Init /\ [][Next]_vars

-----------------------------------------------------------------------------
TypeOK ==
    /\ outIdx \in [Datasets -> RequestLists]
    /\ alloc \in [Datasets -> SUBSET Fields]
    /\ ds \in Datasets
    /\ pc \in {"start", "loop", "warn", "done"}
    /\ indicesDone \in Seq(Fields)
    /\ namesDone \in Seq(Datasets \X Fields)
    /\ i \in -1..MaxOut
    /\ onHost \subseteq Datasets \X Fields
    /\ written \in Seq([ds : Datasets, key : Datasets \X Fields,
                        col : 0..MaxOut, field : Fields])
    /\ warning \in Seq([ds : Datasets, names : Seq(Datasets \X Nat)])

\* The requested fields of d that are not allocated, in request order.
Unused(d) == SelectSeq(outIdx[d], LAMBDA f : f \notin alloc[d])

\* The lambda `output` has finished with dataset d.
Finished(d) == d < ds \/ (d = ds /\ pc \in {"warn", "done"})

\* The positions in `written` of the writeField calls for dataset d, and
\* the fields they wrote.
WritesFor(d) == {k \in DOMAIN written : written[k].ds = d}
WrittenSet(d) == {written[k].field : k \in WritesFor(d)}

(***************************************************************************)
(* Once the backward erase loop of outputAllocatedFields has finished with *)
(* a dataset, every requested allocated field was written exactly once,    *)
(* under its own name and into the column it has in                        *)
(* d.outputFieldIndices, after being transferred to host.  Erasing from    *)
(* two parallel vectors inside a loop is what can break it.                *)
(***************************************************************************)
OutputComplete ==
    \A d \in Datasets : Finished(d) =>
        /\ WrittenSet(d) = Range(outIdx[d]) \cap alloc[d]
        /\ \A k1, k2 \in WritesFor(d) : written[k1].field = written[k2].field => k1 = k2
        /\ \A k \in WritesFor(d) :
              /\ written[k].key = FieldName(d, written[k].field)
              /\ outIdx[d][written[k].col + 1] = written[k].field
              /\ <<d, written[k].field>> \in onHost

(***************************************************************************)
(* When the erase loop of outputAllocatedFields has ended, indicesDone,    *)
(* which the warning is printed from, lists exactly the requested fields   *)
(* that are not allocated, in request order.                               *)
(***************************************************************************)
LeftoverUnused == pc \in {"warn", "done"} => indicesDone = Unused(ds)

(***************************************************************************)
(* The warning "the following fields are not in use and therefore not     *)
(* output" names exactly the requested fields of the dataset that were not *)
(* written (the ones left in indicesDone), in request order.               *)
(***************************************************************************)
WarningNamesUnused ==
    \A k \in DOMAIN warning :
        warning[k].names = [j \in DOMAIN Unused(warning[k].ds) |->
                              FieldName(warning[k].ds, Unused(warning[k].ds)[j])]

(***************************************************************************)
(* Inductive core of OutputComplete, stated without SelectSeq: during the  *)
(* backward walk the part of indicesDone not yet visited (positions        *)
(* 1..i+1) is still the original request list, the visited part holds     *)
(* only unallocated fields, and namesDone stays parallel to indicesDone.   *)
(* This is what makes erasing while iterating safe.                        *)
(***************************************************************************)
WalkInv ==
    pc = "loop" =>
        /\ i + 1 \in 0..Len(indicesDone)
        /\ i + 1 <= Len(outIdx[ds])
        /\ \A k \in 1..(i + 1) : indicesDone[k] = outIdx[ds][k]
        /\ \A k \in (i + 2)..Len(indicesDone) : indicesDone[k] \notin alloc[ds]
        /\ Len(namesDone) = Len(indicesDone)
        /\ \A k \in 1..Len(indicesDone) : namesDone[k] = FieldName(ds, indicesDone[k])

(***************************************************************************)
(* The writes issued for the current dataset are exactly the allocated     *)
(* fields of the part of the request list the backward walk has visited    *)
(* (positions i+2 .. end of d.outputFieldIndices), none before the walk    *)
(* starts and all allocated requested ones once it has ended; no write     *)
(* belongs to a dataset not yet started.  It ties the erase walk to the    *)
(* writes it has made, and is what makes the walk implement                *)
(* AbstractFieldOutput.                                                    *)
(***************************************************************************)
WrittenInv ==
    /\ \A k \in DOMAIN written : written[k].ds <= ds
    /\ pc = "start" => WrittenSet(ds) = {}
    /\ pc = "loop" =>
          WrittenSet(ds) = {outIdx[ds][k] : k \in (i + 2)..Len(outIdx[ds])} \cap alloc[ds]
    /\ pc = "warn" => WrittenSet(ds) = Range(outIdx[ds]) \cap alloc[ds]

\* The refinement mapping: the abstract writes are the writeField calls,
\* and the output is finished when the lambda has run on the last dataset.
Abstract == INSTANCE AbstractFieldOutput WITH finished <- (pc = "done"), out <- written

(***************************************************************************)
(* outputAllocatedFields implements its abstract specification: each step *)
(* of the erase walk either writes one allocated requested field not yet  *)
(* written, into a column that holds it, or changes nothing the abstract  *)
(* specification sees, and a dataset is left only once all of its         *)
(* allocated requested fields are written.                                 *)
(***************************************************************************)
AbstractSpec == Abstract!Spec
=============================================================================
