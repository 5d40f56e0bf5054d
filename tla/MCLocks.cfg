SPECIFICATION Spec
CONSTANTS
    t1 = t1
    t2 = t2
    Threads = {t1, t2}
    MaxCalls = 4
INVARIANTS
    LocksInOrder
    NoDeadlock
PROPERTIES
    EveryCallReturns
CHECK_DEADLOCK FALSE
