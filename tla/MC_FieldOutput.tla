-------------------------- MODULE MC_FieldOutput --------------------------
(* Model-checking instance of FieldOutput: three fields per dataset, up to *)
(* three requested, both datasets (hydro, chem), writer on rank 0 so that  *)
(* the warning branch is taken.                                            *)
EXTENDS FieldOutput

MC_NumFields   == 3
MC_MaxOut      == 3
MC_NumDatasets == 2
MC_WriterRank  == 0
=============================================================================
