SPECIFICATION FairSpec
CONSTANTS
    NumServers = 2
    NumFounders = 1
    Puts = {p1}
    MayCrash = {}
    MayExpire = {}
    MayLackMemory = {}
    MayMiss = {}
    MaxFaults = 0
    MaxEpoch = 3
CHECK_DEADLOCK FALSE
PROPERTIES
    EveryPutReturns
