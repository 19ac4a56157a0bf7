SPECIFICATION BoundedSpec
CONSTANTS
    N = 3
    Clients = {c1, c2}
    Keys = {k1, k2}
    Vals = {v1}
    NoVal = NoVal
    None = None
    MaxCalls = 4
CHECK_DEADLOCK FALSE
INVARIANTS
    TypeOK
    OneWriteInFlight
    ReplicasAgree
    AnsweredIsReplicated
PROPERTIES
    Linearizable
    EveryCallReturns
