\* Three servers at the start, one joins and two crash while the client sends commands.
SPECIFICATION Spec
CONSTANTS
    NumServers = 4
    NumFounders = 3
    MaxCrashes = 2
    QuietStart = TRUE
CHECK_DEADLOCK FALSE
INVARIANTS TypeOK TailCurrent HeadCurrent
