\* Two clients that may die, a next server that may crash and be replaced.
SPECIFICATION FairSpec
CONSTANTS
    Clients = {c1, c2}
    NumFds = 3
    Successor = Successor
    Former = Former
    Free = Free
    MayReset = TRUE
    MayLoseSuccessor = TRUE
INVARIANTS TypeOK NoDescriptorLeak ClientsCounted
PROPERTIES EndedIsReleased
