SPECIFICATION BoundedSpec
CONSTANTS
    Threads = {t1, t2, t3}
    NoThread = NoThread
    MaxCalls = 4
CHECK_DEADLOCK FALSE
INVARIANTS
    StatsTypeOK
    Exclusion
    CountersExact
    NoLostWakeup
    EveryOperationCounted
    ReportCoversAnswered
    ReportLacksOne
PROPERTIES
    Implements
    EveryRequestAnswered
