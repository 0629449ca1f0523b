CONSTANTS
    NRanks <- MC_NRanks
    Multis <- MC_Multis
    BlockSide <- MC_BlockSide
    Offsets <- MC_Offsets
SPECIFICATION Spec
\* KelvinHelmholtzGlass::init returns once the fields are set.
CHECK_DEADLOCK FALSE
INVARIANT InnerMassMatchesDensity
