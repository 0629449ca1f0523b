----------------------------- MODULE MC_KHInit -----------------------------
(* KHInit on three ranks, a one-point template block, multi1D 1 or 2 and  *)
(* both template offsets.                                                  *)
EXTENDS KHInit

MC_NRanks == 3
MC_Multis == {1, 2}
MC_BlockSide == 1
MC_Offsets == {0, 1}
=============================================================================
