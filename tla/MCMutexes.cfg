CONSTANTS
    t1 = t1
    t2 = t2
    t3 = t3
    NULL = NULL
    Threads = {t1, t2, t3}
SPECIFICATION MCSpec
INVARIANTS
    OwnershipHandedOver
    IrqlRestored
    WakeupsCounted
PROPERTIES
    WaitersServed
    Refinement
    WaitersServedOnceQuiet
    ImplementsLock
