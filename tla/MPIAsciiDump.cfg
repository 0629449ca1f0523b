CONSTANT NRanks <- MC_NRanks
SPECIFICATION Spec
\* A run stops when every rank has returned, or when a rank failed to write
\* and the others wait in MPI_Barrier (NoRankHangs's run shows the latter).
CHECK_DEADLOCK FALSE
INVARIANTS
    TypeOK
    FileInRankOrder
PROPERTIES
    NoBlockLost
    DumpTerminates
