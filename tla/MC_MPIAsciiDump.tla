------------------------- MODULE MC_MPIAsciiDump -------------------------
(* Three ranks: rank 0 truncates, ranks 1 and 2 append, and every rank     *)
(* both writes in its own turn and waits in the others'.                   *)
EXTENDS MPIAsciiDump

MC_NRanks == 3
=============================================================================
