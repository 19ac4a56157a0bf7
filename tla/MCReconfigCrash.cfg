SPECIFICATION FairSpec
CONSTANTS
    NumServers = 4
    NumFounders = 4
    Puts = {p1, p2}
    MayCrash = {1, 2, 4}
    MayExpire = {2}
    MayLackMemory = {1, 2}
    MayMiss = {}
    MaxFaults = 1
    MaxEpoch = 2
CHECK_DEADLOCK FALSE
INVARIANTS
    TypeOK
    UpdatePropagation
    AckedAtHead
    AppliedOnce
PROPERTIES
    PutsReturnUnlessCut
