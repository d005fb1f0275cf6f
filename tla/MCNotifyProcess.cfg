CONSTANTS
    t1 = t1
    b1 = b1
    r1 = r1
    r2 = r2
    NULL = NULL
    Callers = {t1}
    Blocks = {b1}
    Routines = {r1, r2}
    Slots = 1
    MAX_FAST_REFS = 1
    List = "process"
    MaxCount = 3
CHECK_DEADLOCK FALSE
SPECIFICATION NotifyFairSpec
PROPERTIES
    RemovalReturns
