\* A server joins, no server crashes.
SPECIFICATION Spec
CONSTANTS
    NumServers = 3
    NumFounders = 2
    MaxCrashes = 0
    QuietStart = TRUE
CHECK_DEADLOCK FALSE
INVARIANTS HeadTailCurrent
