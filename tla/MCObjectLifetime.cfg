CONSTANTS
    t1 = t1
    t2 = t2
    o1 = o1
    o2 = o2
    n1 = n1
    Threads = {t1, t2}
    Objects = {o1, o2}
    Names = {n1}
    MaxHandles = 2
    NULL = NULL
SPECIFICATION Spec
SYMMETRY Symmetry
INVARIANTS CountsAddUp NoUseAfterFree NoOrphanName DeadAreReaped
