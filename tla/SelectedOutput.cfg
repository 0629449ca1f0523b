CONSTANTS
    r1 = r1
    r2 = r2
    p1 = p1
    p2 = p2
    p3 = p3
    Ranks   <- MC_Ranks
    Ids     <- MC_Ids
    SelIds  <- MC_SelIds
    MaxHalo <- MC_MaxHalo
SPECIFICATION Spec
INVARIANTS
    TypeOK
    OwnerWritesSelected
