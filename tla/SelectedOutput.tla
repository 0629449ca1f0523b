-------------------------- MODULE SelectedOutput --------------------------
(***************************************************************************)
(* Output of selected particles (src/main/src/propagator/ipropagator.hpp): *)
(* getSelectedParticleIndexes (lines 149-169) looks every selected id up   *)
(* in the rank's `id` field with std::find and keeps the positions found;  *)
(* saveSelParticlesFields / outputSelParticlesAllocatedFields (lines       *)
(* 83-88, 213-263) then write, for every allocated output field, the       *)
(* values at those positions.  Every rank does this on its own particles.  *)
(*                                                                         *)
(* The domain synchronisation that precedes it is not in this              *)
(* repository's sources and is modelled from the spec (sections 3, 4.5,   *)
(* 6): after sync() a rank's field vectors hold its owned particles at     *)
(* [0, localCount) and halo slots at [localCount, localCount + haloCount). *)
(* Halo exchange refreshes only the fields the consumer asks for; the `id` *)
(* field is a conserved field that is reordered for the owned range only,  *)
(* so a halo slot of `id` holds either the id of the remote particle it    *)
(* mirrors or a stale id left there: in both cases the id of a particle    *)
(* this rank does not own.                                                 *)
(*                                                                         *)
(* The per-field loop of outputSelParticlesAllocatedFields has the         *)
(* structure of outputAllocatedFields (module FieldOutput); here the       *)
(* written values are abstracted to the ids found at the positions used.  *)
(***************************************************************************)
EXTENDS Naturals, Sequences, SequencesExt

CONSTANTS
    Ranks,      \* the MPI ranks
    Ids,        \* particle ids
    SelIds,     \* selParticlesIds: the selected ids, in the order given
    MaxHalo     \* most halo slots a rank holds

ASSUME SelectedAssumption ==
    /\ Ranks # {}
    /\ SelIds \in Seq(Ids)
    /\ MaxHalo \in Nat

VARIABLES
    owner,      \* owner[p]: the rank whose assignment holds particle p
    idField,    \* idField[r]: rank r's `id` field vector, owned then halo slots
    nLocal,     \* nLocal[r]: domain.nParticles() on rank r (last - first)
    phase,      \* phase[r]: "select", "output" or "done" in this output step
    positions,  \* positions[r]: localSelectedParticlePositions (0-based)
    written     \* <<r, id>>: rank r wrote the particle with this id

vars == <<owner, idField, nLocal, phase, positions, written>>

\* Mutant of FindIndex: the search stops one element before v.end().
FindIndexShort(v, x) ==
    IF \E k \in 1..(Len(v) - 1) : v[k] = x
    THEN SelectInSeq(v, LAMBDA y : y = x) - 1
    ELSE Len(v)

\* std::find(v.begin(), v.end(), x) - v.begin(): 0-based index of the first
\* occurrence of x, or v.size() when x does not occur.
FindIndex(v, x) ==
    IF \E k \in 1..Len(v) : v[k] = x
    THEN SelectInSeq(v, LAMBDA y : y = x) - 1
    ELSE Len(v)

\* The id vectors sync() can leave on rank r for ownership o: the owned
\* particles first (in SFC order, abstracted to one fixed order), then halo
\* slots holding ids of particles other ranks own.
Layouts(o, r) ==
    LET own == {p \in Ids : o[p] = r}
    IN { SetToSeq(own) \o h :
           h \in UNION { SetToSeqs(H) : H \in { H \in SUBSET (Ids \ own) :
                                                Cardinality(H) <= MaxHalo } } }

\* The id fields of all ranks after sync() with ownership o.
SyncedFields(o) ==
    { f \in [Ranks -> UNION { Layouts(o, r) : r \in Ranks }] :
        \A r \in Ranks : f[r] \in Layouts(o, r) }

\* The state after domain.sync() with ownership o (spec section 4.5):
\* particles are reassigned, every rank reorders its fields and attaches
\* its halo region.  All ranks return from the collective together.
SyncTo(o) ==
    /\ owner' = o
    /\ idField' \in SyncedFields(o)
    /\ nLocal' = [r \in Ranks |-> Cardinality({p \in Ids : o[p] = r})]
    /\ phase' = [r \in Ranks |-> "select"]
    /\ positions' = [r \in Ranks |-> <<>>]
    /\ written' = {}

Init ==
    \E o \in [Ids -> Ranks] :
        /\ owner = o
        /\ idField \in SyncedFields(o)
        /\ nLocal = [r \in Ranks |-> Cardinality({p \in Ids : o[p] = r})]
        /\ phase = [r \in Ranks |-> "select"]
        /\ positions = [r \in Ranks |-> <<>>]
        /\ written = {}

\* The next output step: every rank has written its selection, the
\* propagator runs another domain.sync() and particles may change owner.
Sync ==
    /\ \A r \in Ranks : phase[r] = "done"
    /\ \E o \in [Ids -> Ranks] : SyncTo(o)

\* Mutant of SelectedPositions: the index is pushed without the
\* `selParticleIndex < size()` test.
SelectedPositionsUnchecked(v) ==
    [k \in 1..Len(SelIds) |-> FindIndex(v, SelIds[k])]

\* getSelectedParticleIndexes: for each selected id, std::find over the
\* whole `id` vector; push the index if it is < size().
SelectedPositions(v) ==
    LET found == SelectSeq(SelIds, LAMBDA x : FindIndex(v, x) < Len(v))
    IN [k \in 1..Len(found) |-> FindIndex(v, found[k])]

GetSelectedParticleIndexes(r) ==
    /\ phase[r] = "select"
    /\ positions' = [positions EXCEPT ![r] = SelectedPositions(idField[r])]
    /\ phase' = [phase EXCEPT ![r] = "output"]
    /\ UNCHANGED <<owner, idField, nLocal, written>>

\* saveSelParticlesFields(writer, first, last, positions, hydro): for every
\* allocated field, transferToHost(first, last) and write field->at(p) for
\* each p in positions.  The particle written is the one at slot p.
SaveSelParticlesFields(r) ==
    /\ phase[r] = "output"
    /\ written' = written \cup { <<r, idField[r][p + 1]>> : p \in Range(positions[r]) }
    /\ phase' = [phase EXCEPT ![r] = "done"]
    /\ UNCHANGED <<owner, idField, nLocal, positions>>

Next ==
    \/ Sync
    \/ \E r \in Ranks : GetSelectedParticleIndexes(r) \/ SaveSelParticlesFields(r)

Spec == Init /\ [][Next]_vars

-----------------------------------------------------------------------------
TypeOK ==
    /\ owner \in [Ids -> Ranks]
    /\ idField \in [Ranks -> Seq(Ids)]
    /\ nLocal \in [Ranks -> 0..Cardinality(Ids)]
    /\ phase \in [Ranks -> {"select", "output", "done"}]
    /\ positions \in [Ranks -> Seq(Nat)]
    /\ \A r \in Ranks : positions[r] \in Seq(0..(Len(idField[r]) - 1))
    /\ written \subseteq Ranks \X Ids

(***************************************************************************)
(* Every selected particle is written, in each output step, by the rank    *)
(* that owns it: once that rank has written its selection, the particle's  *)
(* id was found in its owned range [first, last) and the value at that     *)
(* slot was written.                                                       *)
(***************************************************************************)
OwnerWritesSelected ==
    \A r \in Ranks : phase[r] = "done" =>
        \A x \in Range(SelIds) : owner[x] = r =>
            \E p \in Range(positions[r]) :
                /\ p < nLocal[r]
                /\ idField[r][p + 1] = x
                /\ <<r, x>> \in written

(***************************************************************************)
(* Each selected particle is written by one rank only, its owner, so the   *)
(* selected-particle output holds every selected particle once and with    *)
(* the owner's current values (rank r's slots outside [first, last) are    *)
(* halo copies, not transferred to host by transferToHost(first, last)).   *)
(***************************************************************************)
WrittenOnlyByOwner ==
    \A w \in written : owner[w[2]] = w[1]
=============================================================================
