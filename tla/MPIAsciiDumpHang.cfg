CONSTANT NRanks <- MC_NRanks
SPECIFICATION Spec
CHECK_DEADLOCK FALSE
PROPERTIES
    NoRankHangs
