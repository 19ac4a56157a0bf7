\* Two worker threads, four keys in two lists, allocations that may fail.
SPECIFICATION Spec
CONSTANTS
    Keys = {1, 2, 3, 4}
    Vals = {v1, v2}
    NoVal = NoVal
    None = None
    Threads = {t1, t2}
    NumLists = 2
    CharSum <- AsciiSum
SYMMETRY Perms
CHECK_DEADLOCK FALSE
INVARIANTS TypeOK ListsSorted InOwnList AtRest CopyFits LockHeldInUse
PROPERTIES ImplementsStore
