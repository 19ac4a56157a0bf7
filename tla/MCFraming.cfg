\* Bytes of two values, so that a message of four or more is too long.
SPECIFICATION FairSpec
CONSTANTS
    Base = 2
    Cap = 3
    RequestLens = {1, 3, 4}
    ReplyLens = {1, 2, 5}
    MaxRequests = 3
CHECK_DEADLOCK FALSE
INVARIANTS TypeOK WholeFrames
PROPERTIES ImplementsRpc EveryCallReturns
