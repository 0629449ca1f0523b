--------------------------- MODULE MPIAsciiDump ---------------------------
(***************************************************************************)
(* SqPatchMPIFileWriter::dumpParticleDataToAsciiFile (src/unnamed/        *)
(* part_002, lines 53-87).  All ranks run the same loop over turns         *)
(* 0..nrank-1; in its own turn a rank opens the shared ASCII file (rank 0  *)
(* truncating it, the others appending), writes its particles, closes it   *)
(* and enters MPI_Barrier; in the other turns it only enters MPI_Barrier.  *)
(*                                                                         *)
(* A rank's particle block is abstracted to its rank id; the file is the   *)
(* sequence of blocks it holds.  fileutils::writeParticleDataToAsciiFile   *)
(* is not in this repository's sources: it appends to `path` and, when    *)
(* the file cannot be opened, throws FileNotOpenedException, the exception *)
(* the non-MPI writer of the same file catches around the same call        *)
(* (part_002 lines 28-38).  The MPI writer catches only                    *)
(* MPIFileNotOpenedException, so that failure ends the rank with an        *)
(* uncaught exception, without MPI_Abort.                                  *)
(***************************************************************************)
EXTENDS Naturals, Sequences

CONSTANT NRanks     \* d.nrank

ASSUME NRanksAssumption == NRanks \in Nat \ {0}

Ranks == 0..(NRanks - 1)

VARIABLES
    pc,       \* pc[r]: "loop", "open", "write", "close", "wait", "done", "crashed"
    turn,     \* turn[r]: loop variable `turn` of rank r
    arrived,  \* arrived[r]: number of MPI_Barrier calls rank r has entered
    file      \* the blocks the file at `path` holds, in file order

vars == <<pc, turn, arrived, file>>

Init ==
    /\ pc = [r \in Ranks |-> "loop"]
    /\ turn = [r \in Ranks |-> 0]
    /\ arrived = [r \in Ranks |-> 0]
    /\ file = <<>>

\* Mutant of OtherTurn: the loop condition turn < d.nrank is not tested.
OtherTurnNoBound(r) ==
    /\ pc[r] = "loop"
    /\ turn[r] # r
    /\ arrived' = [arrived EXCEPT ![r] = @ + 1]
    /\ pc' = [pc EXCEPT ![r] = "wait"]
    /\ UNCHANGED <<turn, file>>

\* Mutant of OtherTurn: the else branch omits its MPI_Barrier.
OtherTurnNoBarrier(r) ==
    /\ pc[r] = "loop"
    /\ turn[r] < NRanks
    /\ turn[r] # r
    /\ turn' = [turn EXCEPT ![r] = @ + 1]
    /\ UNCHANGED <<pc, arrived, file>>

\* Mutant of Open: every rank opens with truncation (no std::ios_base::app).
OpenTruncating(r) ==
    /\ pc[r] = "open"
    /\ file' = <<>>
    /\ pc' = [pc EXCEPT ![r] = "write"]
    /\ UNCHANGED <<turn, arrived>>

\* for (turn...; turn < d.nrank; ...) { if (turn == d.rank) { ... } }
MyTurn(r) ==
    /\ pc[r] = "loop"
    /\ turn[r] < NRanks
    /\ turn[r] = r
    /\ pc' = [pc EXCEPT ![r] = "open"]
    /\ UNCHANGED <<turn, arrived, file>>

\* else { MPI_Barrier(MPI_COMM_WORLD); }: enter the barrier.
OtherTurn(r) ==
    /\ pc[r] = "loop"
    /\ turn[r] < NRanks
    /\ turn[r] # r
    /\ arrived' = [arrived EXCEPT ![r] = @ + 1]
    /\ pc' = [pc EXCEPT ![r] = "wait"]
    /\ UNCHANGED <<turn, file>>

\* The loop condition fails: the function returns.
LoopEnd(r) ==
    /\ pc[r] = "loop"
    /\ turn[r] >= NRanks
    /\ pc' = [pc EXCEPT ![r] = "done"]
    /\ UNCHANGED <<turn, arrived, file>>

\* if (d.rank == 0) dump.open(path); else dump.open(path, std::ios_base::app);
Open(r) ==
    /\ pc[r] = "open"
    /\ file' = IF r = 0 THEN <<>> ELSE file
    /\ pc' = [pc EXCEPT ![r] = "write"]
    /\ UNCHANGED <<turn, arrived>>

\* writeParticleDataToAsciiFile appends the rank's particles.
Write(r) ==
    /\ pc[r] = "write"
    /\ file' = Append(file, r)
    /\ pc' = [pc EXCEPT ![r] = "close"]
    /\ UNCHANGED <<turn, arrived>>

\* writeParticleDataToAsciiFile cannot open the file and throws
\* FileNotOpenedException; catch (MPIFileNotOpenedException&) does not
\* match, the rank terminates and MPI_Abort is never called.
WriteThrows(r) ==
    /\ pc[r] = "write"
    /\ pc' = [pc EXCEPT ![r] = "crashed"]
    /\ UNCHANGED <<turn, arrived, file>>

\* dump.close(); MPI_Barrier(MPI_COMM_WORLD);  (enter the barrier)
Close(r) ==
    /\ pc[r] = "close"
    /\ arrived' = [arrived EXCEPT ![r] = @ + 1]
    /\ pc' = [pc EXCEPT ![r] = "wait"]
    /\ UNCHANGED <<turn, file>>

\* MPI_Barrier returns once every rank has entered its arrived[r]-th
\* barrier; then ++turn.
LeaveBarrier(r) ==
    /\ pc[r] = "wait"
    /\ \A q \in Ranks : arrived[q] >= arrived[r]
    /\ turn' = [turn EXCEPT ![r] = @ + 1]
    /\ pc' = [pc EXCEPT ![r] = "loop"]
    /\ UNCHANGED <<arrived, file>>

Rank(r) ==
    \/ MyTurn(r) \/ OtherTurn(r) \/ LoopEnd(r)
    \/ Open(r) \/ Write(r) \/ WriteThrows(r) \/ Close(r) \/ LeaveBarrier(r)

Next == \E r \in Ranks : Rank(r)

\* MPI processes all make progress: weak fairness per rank.
Spec == Init /\ [][Next]_vars /\ \A r \in Ranks : WF_vars(Rank(r))

-----------------------------------------------------------------------------
TypeOK ==
    /\ pc \in [Ranks -> {"loop", "open", "write", "close", "wait", "done", "crashed"}]
    /\ turn \in [Ranks -> 0..NRanks]
    /\ arrived \in [Ranks -> 0..NRanks]
    /\ file \in Seq(Ranks)

\* The file holds the blocks of ranks 0..n-1, in rank order.
RankOrder(n) == [k \in 1..n |-> k - 1]

(***************************************************************************)
(* The shared ASCII file always holds the particle blocks of a prefix of   *)
(* the ranks, in rank order, each once: the turn loop and its barriers     *)
(* serialise the ranks' open/write/close, so no rank writes before its     *)
(* predecessors and rank 0's truncating open never follows an append.      *)
(***************************************************************************)
FileInRankOrder ==
    \E n \in 0..NRanks : file = RankOrder(n)

(***************************************************************************)
(* No block, once written, is lost or changed: every step leaves the       *)
(* file's contents as a prefix of what follows (the truncating open of     *)
(* rank 0 must only ever act on an empty file).                            *)
(***************************************************************************)
NoBlockLost ==
    [][ /\ Len(file) <= Len(file')
        /\ \A k \in 1..Len(file) : file'[k] = file[k] ]_vars

AllDone == \A r \in Ranks : pc[r] = "done"

Crashed == \E r \in Ranks : pc[r] = "crashed"

(***************************************************************************)
(* If no rank fails to write, every rank eventually returns from the dump, *)
(* the file then holding all blocks: the barriers of the turn loop never   *)
(* leave ranks waiting on each other.                                      *)
(***************************************************************************)
DumpTerminates ==
    []~Crashed => <>(AllDone /\ file = RankOrder(NRanks))

(***************************************************************************)
(* No rank hangs: every rank that has not itself failed eventually returns *)
(* from the dump.  The catch clause with MPI_Abort exists so that a rank   *)
(* failing to write ends the whole job instead of leaving its peers        *)
(* blocked in MPI_Barrier.                                                 *)
(***************************************************************************)
NoRankHangs ==
    <>(\A r \in Ranks : pc[r] \in {"done", "crashed"})
=============================================================================
