\* No client dies; the next server crashes.
SPECIFICATION Spec
CONSTANTS
    Clients = {c1, c2}
    NumFds = 3
    Successor = Successor
    Former = Former
    Free = Free
    MayReset = FALSE
    MayLoseSuccessor = TRUE
INVARIANTS ForwardsReachSuccessor
