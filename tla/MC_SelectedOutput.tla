------------------------ MODULE MC_SelectedOutput ------------------------
(* Two ranks, three particles of which two are selected, up to two halo   *)
(* slots per rank: enough for a selected particle to be owned by either    *)
(* rank, to sit in the other rank's halo region, and to be the last slot   *)
(* of a vector.                                                            *)
EXTENDS SelectedOutput

CONSTANTS r1, r2, p1, p2, p3

MC_Ranks   == {r1, r2}
MC_Ids     == {p1, p2, p3}
MC_SelIds  == <<p2, p1>>
MC_MaxHalo == 2
=============================================================================
