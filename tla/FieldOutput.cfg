CONSTANTS
    NumFields   <- MC_NumFields
    MaxOut      <- MC_MaxOut
    NumDatasets <- MC_NumDatasets
    WriterRank  <- MC_WriterRank
SPECIFICATION Spec
\* outputAllocatedFields returns after the last dataset: the final state has no successor.
CHECK_DEADLOCK FALSE
INVARIANTS
    TypeOK
    OutputComplete
    LeftoverUnused
    WalkInv
    WrittenInv
PROPERTY
    AbstractSpec
