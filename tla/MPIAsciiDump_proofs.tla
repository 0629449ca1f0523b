------------------------ MODULE MPIAsciiDump_proofs ------------------------
(***************************************************************************)
(* Proofs, for every number of ranks, of the safety properties of the turn *)
(* loop of SqPatchMPIFileWriter::dumpParticleDataToAsciiFile: the type     *)
(* invariant, FileInRankOrder and NoBlockLost.                             *)
(*                                                                         *)
(* The argument rests on the barrier counts.  A rank that leaves its k-th  *)
(* MPI_Barrier does so when every rank has entered its k-th one, so no     *)
(* rank's turn counter passes another rank's barrier count (BarrierInv).   *)
(* From that, a rank in its own turn knows that every lower rank has       *)
(* closed its block and no higher rank has opened the file, which is what  *)
(* FileInv states: the file holds the blocks of exactly the ranks that     *)
(* have written, in rank order.                                            *)
(***************************************************************************)
EXTENDS MPIAsciiDump, SequenceTheorems, TLAPS

\* Rank r has appended its block: it is past its turn, or in its turn
\* after the write.
Written(r) == turn[r] > r \/ (turn[r] = r /\ pc[r] \in {"close", "wait"})

\* A rank's barrier count is its turn counter, plus one while it waits.
ArrivedInv ==
    \A r \in Ranks : arrived[r] = turn[r] + (IF pc[r] = "wait" THEN 1 ELSE 0)

\* Only a rank in its own turn opens, writes, closes or fails to write.
OwnTurnInv ==
    \A r \in Ranks : pc[r] \in {"open", "write", "close", "crashed"} => turn[r] = r

\* No rank's turn counter is ahead of any rank's barrier count.
BarrierInv ==
    \A q, r \in Ranks : turn[q] <= arrived[r]

\* The file holds the blocks of the ranks that have written, in rank order.
FileInv ==
    /\ Len(file) <= NRanks
    /\ file = RankOrder(Len(file))
    /\ \A r \in Ranks : r < Len(file) <=> Written(r)

IInv == TypeOK /\ ArrivedInv /\ OwnTurnInv /\ BarrierInv /\ FileInv

USE NRanksAssumption

\* What rank r's own step leaves of another rank's Written.
LEMMA WrittenOther ==
    ASSUME NEW q, turn'[q] = turn[q], pc'[q] = pc[q]
    PROVE  Written(q)' <=> Written(q)
BY DEF Written

\* A rank in its own turn comes after ranks that have all written.
LEMMA WrittenBelow ==
    ASSUME IInv, NEW r \in Ranks, turn[r] = r, NEW q \in Ranks, q < r
    PROVE  Written(q)
<1>1. turn[r] <= arrived[q] /\ arrived[q] = turn[q] + (IF pc[q] = "wait" THEN 1 ELSE 0)
  BY DEF IInv, BarrierInv, ArrivedInv
<1>2. turn[q] \in Nat
  BY DEF IInv, TypeOK
<1>. QED BY <1>1, <1>2 DEF Written, Ranks

\* Before it enters its barrier, a rank in its own turn comes before ranks
\* that have all not written.
LEMMA NotWrittenAbove ==
    ASSUME IInv, NEW r \in Ranks, turn[r] = r, pc[r] # "wait", NEW q \in Ranks, q > r
    PROVE  ~Written(q)
<1>1. turn[q] <= arrived[r] /\ arrived[r] = turn[r] /\ turn[q] \in Nat
  BY DEF IInv, BarrierInv, ArrivedInv, TypeOK
<1>. QED BY <1>1 DEF Written, Ranks

\* When a rank opens or writes, the file holds the blocks of the ranks
\* below it.
LEMMA LenAtTurn ==
    ASSUME IInv, NEW r \in Ranks, pc[r] \in {"open", "write"}
    PROVE  Len(file) = r
<1>1. turn[r] = r
  BY DEF IInv, OwnTurnInv
<1>2. ~Written(r)
  BY <1>1 DEF Written, Ranks
<1>3. Len(file) \in 0..NRanks
  <2>1. file \in Seq(Ranks) /\ Len(file) <= NRanks
    BY DEF IInv, TypeOK, FileInv
  <2>. QED BY <2>1, LenProperties
<1>4. \A q \in Ranks : q < Len(file) <=> q < r
  <2>1. SUFFICES ASSUME NEW q \in Ranks PROVE q < Len(file) <=> q < r
    OBVIOUS
  <2>2. q < Len(file) <=> Written(q)
    BY DEF IInv, FileInv
  <2>3. CASE q < r
    BY <1>1, <2>2, <2>3, WrittenBelow
  <2>4. CASE q = r
    BY <1>2, <2>2, <2>4 DEF Ranks
  <2>5. CASE q > r
    BY <1>1, <2>2, <2>5, NotWrittenAbove DEF Ranks
  <2>. QED BY <2>3, <2>4, <2>5 DEF Ranks
<1>. QED BY <1>3, <1>4 DEF Ranks

LEMMA InitIInv == Init => IInv
<1> SUFFICES ASSUME Init PROVE IInv
  OBVIOUS
<1>1. file = <<>> /\ Len(file) = 0 /\ RankOrder(0) = <<>>
  BY DEF Init, RankOrder
<1>2. TypeOK /\ ArrivedInv /\ OwnTurnInv /\ BarrierInv
  BY DEF Init, TypeOK, ArrivedInv, OwnTurnInv, BarrierInv, Ranks
<1>3. \A r \in Ranks : ~Written(r)
  BY DEF Init, Written, Ranks
<1>. QED BY <1>1, <1>2, <1>3 DEF IInv, FileInv, Ranks

LEMMA MyTurnIInv ==
    ASSUME IInv, NEW r \in Ranks, MyTurn(r)
    PROVE  IInv'
<1>1. TypeOK' /\ ArrivedInv' /\ OwnTurnInv' /\ BarrierInv'
  BY DEF IInv, TypeOK, ArrivedInv, OwnTurnInv, BarrierInv, MyTurn
<1>2. \A q \in Ranks : Written(q)' <=> Written(q)
  BY WrittenOther DEF IInv, TypeOK, MyTurn, Written
<1>. QED BY <1>1, <1>2 DEF IInv, FileInv, MyTurn

LEMMA OtherTurnIInv ==
    ASSUME IInv, NEW r \in Ranks, OtherTurn(r)
    PROVE  IInv'
<1>0. arrived[r] = turn[r] /\ turn[r] \in 0..(NRanks - 1)
  BY DEF IInv, TypeOK, ArrivedInv, OtherTurn
<1>1. TypeOK'
  <2>1. arrived' \in [Ranks -> 0..NRanks]
    BY <1>0 DEF IInv, TypeOK, OtherTurn
  <2>2. pc' \in [Ranks -> {"loop", "open", "write", "close", "wait", "done", "crashed"}]
    BY DEF IInv, TypeOK, OtherTurn
  <2>. QED BY <2>1, <2>2 DEF IInv, TypeOK, OtherTurn
<1>2. ArrivedInv' /\ OwnTurnInv' /\ BarrierInv'
  BY DEF IInv, TypeOK, ArrivedInv, OwnTurnInv, BarrierInv, OtherTurn
<1>3. \A q \in Ranks : Written(q)' <=> Written(q)
  BY WrittenOther DEF IInv, TypeOK, OtherTurn, Written
<1>. QED BY <1>1, <1>2, <1>3 DEF IInv, FileInv, OtherTurn

LEMMA LoopEndIInv ==
    ASSUME IInv, NEW r \in Ranks, LoopEnd(r)
    PROVE  IInv'
<1>1. TypeOK' /\ ArrivedInv' /\ OwnTurnInv' /\ BarrierInv'
  BY DEF IInv, TypeOK, ArrivedInv, OwnTurnInv, BarrierInv, LoopEnd
<1>2. \A q \in Ranks : Written(q)' <=> Written(q)
  BY WrittenOther DEF IInv, TypeOK, LoopEnd, Written, Ranks
<1>. QED BY <1>1, <1>2 DEF IInv, FileInv, LoopEnd

\* Rank 0's truncating open finds the file empty; another rank's append
\* open leaves it as it is.
LEMMA OpenIInv ==
    ASSUME IInv, NEW r \in Ranks, Open(r)
    PROVE  IInv' /\ file' = file
<1>1. file' = file
  <2>1. CASE r = 0
    <3>1. Len(file) = 0 /\ file \in Seq(Ranks)
      BY <2>1, LenAtTurn DEF Open, IInv, TypeOK
    <3>2. file = <<>>
      BY <3>1, EmptySeq
    <3>. QED BY <2>1, <3>2 DEF Open
  <2>2. CASE r # 0
    BY <2>2 DEF Open
  <2>. QED BY <2>1, <2>2
<1>2. TypeOK' /\ ArrivedInv' /\ OwnTurnInv' /\ BarrierInv'
  BY <1>1 DEF IInv, TypeOK, ArrivedInv, OwnTurnInv, BarrierInv, Open
<1>3. \A q \in Ranks : Written(q)' <=> Written(q)
  BY WrittenOther DEF IInv, TypeOK, Open, Written
<1>. QED BY <1>1, <1>2, <1>3 DEF IInv, FileInv

\* A write appends the block of the rank whose turn it is, right after
\* the blocks of the ranks below it.
LEMMA WriteIInv ==
    ASSUME IInv, NEW r \in Ranks, Write(r)
    PROVE  IInv'
<1>1. Len(file) = r /\ file = RankOrder(r) /\ turn[r] = r
  BY LenAtTurn DEF Write, IInv, FileInv, OwnTurnInv
<1>2. file' = RankOrder(r + 1) /\ Len(file') = r + 1
  <2>1. file \in Seq(Ranks)
    BY DEF IInv, TypeOK
  <2>2. Len(Append(file, r)) = r + 1
    BY <1>1, <2>1, AppendProperties
  <2>3. Append(file, r) = RankOrder(r + 1)
    BY <1>1, <2>1, <2>2, AppendProperties DEF RankOrder, Ranks
  <2>. QED BY <2>2, <2>3 DEF Write
<1>3. TypeOK' /\ ArrivedInv' /\ OwnTurnInv' /\ BarrierInv'
  <2>1. file' \in Seq(Ranks)
    BY AppendProperties DEF Write, IInv, TypeOK
  <2>. QED BY <2>1 DEF IInv, TypeOK, ArrivedInv, OwnTurnInv, BarrierInv, Write
<1>4. \A q \in Ranks : q < Len(file') <=> Written(q)'
  <2>1. SUFFICES ASSUME NEW q \in Ranks PROVE q < r + 1 <=> Written(q)'
    BY <1>2
  <2>2. CASE q = r
    BY <1>1, <2>2 DEF Write, Written, IInv, TypeOK
  <2>3. CASE q # r
    <3>1. Written(q)' <=> Written(q)
      BY <2>3, WrittenOther DEF Write, IInv, TypeOK
    <3>2. q < r <=> Written(q)
      BY <1>1 DEF IInv, FileInv
    <3>. QED BY <2>3, <3>1, <3>2 DEF Ranks
  <2>. QED BY <2>2, <2>3
<1>. QED BY <1>2, <1>3, <1>4 DEF IInv, FileInv, Ranks

LEMMA WriteThrowsIInv ==
    ASSUME IInv, NEW r \in Ranks, WriteThrows(r)
    PROVE  IInv'
<1>1. TypeOK' /\ ArrivedInv' /\ OwnTurnInv' /\ BarrierInv'
  BY DEF IInv, TypeOK, ArrivedInv, OwnTurnInv, BarrierInv, WriteThrows
<1>2. \A q \in Ranks : Written(q)' <=> Written(q)
  BY WrittenOther DEF IInv, TypeOK, WriteThrows, Written
<1>. QED BY <1>1, <1>2 DEF IInv, FileInv, WriteThrows

LEMMA CloseIInv ==
    ASSUME IInv, NEW r \in Ranks, Close(r)
    PROVE  IInv'
<1>1. turn[r] = r /\ arrived[r] = r
  <2>1. turn[r] = r /\ turn[r] \in Nat /\ pc[r] # "wait"
    BY DEF IInv, OwnTurnInv, TypeOK, Close
  <2>2. arrived[r] = turn[r] + (IF pc[r] = "wait" THEN 1 ELSE 0)
    BY DEF IInv, ArrivedInv
  <2>. QED BY <2>1, <2>2
<1>2. TypeOK'
  BY <1>1 DEF IInv, TypeOK, Close, Ranks
<1>3. ArrivedInv' /\ OwnTurnInv' /\ BarrierInv'
  BY <1>1 DEF IInv, TypeOK, ArrivedInv, OwnTurnInv, BarrierInv, Close
<1>4. \A q \in Ranks : Written(q)' <=> Written(q)
  BY WrittenOther DEF IInv, TypeOK, Close, Written
<1>. QED BY <1>2, <1>3, <1>4 DEF IInv, FileInv, Close

\* Leaving the barrier moves a rank's turn up to its barrier count, which
\* every rank has reached.
LEMMA LeaveBarrierIInv ==
    ASSUME IInv, NEW r \in Ranks, LeaveBarrier(r)
    PROVE  IInv'
<1>1. arrived[r] = turn[r] + 1 /\ turn[r] \in Nat
  BY DEF IInv, ArrivedInv, TypeOK, LeaveBarrier
<1>2. TypeOK'
  BY <1>1 DEF IInv, TypeOK, LeaveBarrier
<1>3. ArrivedInv' /\ OwnTurnInv'
  BY <1>1 DEF IInv, TypeOK, ArrivedInv, OwnTurnInv, LeaveBarrier
<1>4. BarrierInv'
  BY <1>1 DEF IInv, TypeOK, BarrierInv, LeaveBarrier
<1>5. \A q \in Ranks : Written(q)' <=> Written(q)
  <2>1. SUFFICES ASSUME NEW q \in Ranks PROVE Written(q)' <=> Written(q)
    OBVIOUS
  <2>2. CASE q = r
    BY <1>1, <2>2 DEF LeaveBarrier, Written, IInv, TypeOK, Ranks
  <2>3. CASE q # r
    BY <2>3, WrittenOther DEF LeaveBarrier, IInv, TypeOK
  <2>. QED BY <2>2, <2>3
<1>. QED BY <1>2, <1>3, <1>4, <1>5 DEF IInv, FileInv, LeaveBarrier

LEMMA StutterIInv == IInv /\ UNCHANGED vars => IInv'
BY DEF IInv, TypeOK, ArrivedInv, OwnTurnInv, BarrierInv, FileInv, Written, vars

LEMMA NextIInv == IInv /\ [Next]_vars => IInv'
<1> SUFFICES ASSUME IInv, [Next]_vars PROVE IInv'
  OBVIOUS
<1>1. CASE Next
  <2>1. PICK r \in Ranks : Rank(r)
    BY <1>1 DEF Next
  <2>. QED BY <2>1, MyTurnIInv, OtherTurnIInv, LoopEndIInv, OpenIInv, WriteIInv,
              WriteThrowsIInv, CloseIInv, LeaveBarrierIInv DEF Rank
<1>. QED BY <1>1, StutterIInv

THEOREM IInvInvariant == Spec => []IInv
BY InitIInv, NextIInv, PTL DEF Spec

(***************************************************************************)
(* The type invariant of the dump, checked by the run mpi_ascii_dump, for  *)
(* every number of ranks.                                                  *)
(***************************************************************************)
THEOREM TypeCorrect == Spec => []TypeOK
BY IInvInvariant, PTL DEF IInv

LEMMA FileLemma == IInv => FileInRankOrder
<1> SUFFICES ASSUME IInv PROVE FileInRankOrder
  OBVIOUS
<1>1. file \in Seq(Ranks) /\ Len(file) <= NRanks /\ file = RankOrder(Len(file))
  BY DEF IInv, TypeOK, FileInv
<1>2. Len(file) \in 0..NRanks
  BY <1>1, LenProperties
<1>. QED BY <1>1, <1>2 DEF FileInRankOrder

(***************************************************************************)
(* For every number of ranks, the shared ASCII file only ever holds the    *)
(* blocks of ranks 0..n-1 in rank order (FileInRankOrder, checked by the   *)
(* run mpi_ascii_dump for three ranks).                                    *)
(***************************************************************************)
THEOREM FileOrdered == Spec => []FileInRankOrder
<1>1. IInv => FileInRankOrder
  BY FileLemma
<1>. QED BY <1>1, IInvInvariant, PTL

\* The step relation of NoBlockLost.
KeepsBlocks ==
    /\ Len(file) <= Len(file')
    /\ \A k \in 1..Len(file) : file'[k] = file[k]

LEMMA NextKeepsBlocks == IInv /\ [Next]_vars => [KeepsBlocks]_vars
<1> SUFFICES ASSUME IInv, [Next]_vars PROVE [KeepsBlocks]_vars
  OBVIOUS
<1>1. file \in Seq(Ranks)
  BY DEF IInv, TypeOK
<1>2. ASSUME file' = file PROVE KeepsBlocks
  BY <1>2 DEF KeepsBlocks
<1>3. CASE Next
  <2>1. PICK r \in Ranks : Rank(r)
    BY <1>3 DEF Next
  <2>2. CASE Write(r)
    <3>1. file' = Append(file, r)
      BY <2>2 DEF Write
    <3>. QED BY <1>1, <3>1, AppendProperties DEF KeepsBlocks, Ranks
  <2>3. CASE Open(r)
    BY <2>3, <1>2, OpenIInv
  <2>4. CASE MyTurn(r) \/ OtherTurn(r) \/ LoopEnd(r) \/ WriteThrows(r) \/ Close(r) \/ LeaveBarrier(r)
    BY <2>4, <1>2 DEF MyTurn, OtherTurn, LoopEnd, WriteThrows, Close, LeaveBarrier
  <2>. QED BY <2>1, <2>2, <2>3, <2>4 DEF Rank
<1>4. CASE UNCHANGED vars
  BY <1>4 DEF vars
<1>. QED BY <1>3, <1>4

(***************************************************************************)
(* For every number of ranks, no step of the dump removes or changes a     *)
(* block already in the file (NoBlockLost, checked by the run              *)
(* mpi_ascii_dump): rank 0's truncating open only ever meets an empty      *)
(* file, because the barriers keep every other rank out of its turn until  *)
(* rank 0 has closed.                                                      *)
(***************************************************************************)
THEOREM BlocksKept == Spec => NoBlockLost
<1>1. Spec => [][KeepsBlocks]_vars
  BY IInvInvariant, NextKeepsBlocks, PTL DEF Spec
<1>. QED BY <1>1 DEF NoBlockLost, KeepsBlocks
====
