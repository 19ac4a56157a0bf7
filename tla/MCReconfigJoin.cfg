\* Two servers join, one after the other or together, and one fault.
SPECIFICATION Spec
CONSTANTS
    NumServers = 3
    NumFounders = 1
    Puts = {p1}
    MayCrash = {1, 2, 3}
    MayExpire = {1, 2, 3}
    MayLackMemory = {1, 2, 3}
    MayMiss = {1, 2, 3}
    MaxFaults = 1
    MaxEpoch = 4
CHECK_DEADLOCK FALSE
INVARIANTS
    UpdatePropagation
    NextIsSuccessor
