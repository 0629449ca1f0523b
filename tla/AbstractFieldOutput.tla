------------------------ MODULE AbstractFieldOutput ------------------------
(***************************************************************************)
(* What Propagator::outputAllocatedFields (src/main/src/propagator/        *)
(* ipropagator.hpp, lines 173-210) promises, without its backward erase    *)
(* walk: the datasets are output in turn, and for each one every requested *)
(* field that is allocated is written once, in some order, under its name  *)
(* and into the column it has in the dataset's request list; the next      *)
(* dataset is started only when all of them are written.                   *)
(***************************************************************************)
EXTENDS Naturals, Sequences, SequencesExt

CONSTANTS NumFields, MaxOut, NumDatasets

Fields   == 0..(NumFields - 1)
Datasets == 1..NumDatasets

FieldName(d, f) == <<d, f>>

RequestLists == UNION { {s \in [1..n -> Fields] : IsInjective(s)} : n \in 0..MaxOut }

VARIABLES
    outIdx,     \* outIdx[d]: the requested field indices of dataset d
    alloc,      \* alloc[d]: the allocated fields of dataset d
    ds,         \* the dataset being output
    finished,   \* all datasets are output
    out         \* the writeField calls made: [ds, key, col, field]

avars == <<outIdx, alloc, ds, finished, out>>

\* The fields written so far for dataset d.
Done(d) == {out[k].field : k \in {k \in DOMAIN out : out[k].ds = d}}

\* The fields dataset d must write.
Due(d) == Range(outIdx[d]) \cap alloc[d]

Init ==
    /\ outIdx \in [Datasets -> RequestLists]
    /\ alloc \in [Datasets -> SUBSET Fields]
    /\ ds = 1
    /\ finished = FALSE
    /\ out = <<>>

\* Write one due field not yet written, into a column that holds it.
Write ==
    /\ ~finished
    /\ \E f \in Due(ds) \ Done(ds), c \in 0..(Len(outIdx[ds]) - 1) :
          /\ outIdx[ds][c + 1] = f
          /\ out' = Append(out, [ds |-> ds, key |-> FieldName(ds, f), col |-> c, field |-> f])
    /\ UNCHANGED <<outIdx, alloc, ds, finished>>

\* Every due field is written: go on with the next dataset, or stop.
Finish ==
    /\ ~finished
    /\ Due(ds) \subseteq Done(ds)
    /\ IF ds < NumDatasets
       THEN ds' = ds + 1 /\ finished' = FALSE
       ELSE ds' = ds /\ finished' = TRUE
    /\ UNCHANGED <<outIdx, alloc, out>>

Next == Write \/ Finish

Spec == Init /\ [][Next]_avars
=============================================================================
