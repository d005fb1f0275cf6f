CONSTANTS
    t1 = t1
    t2 = t2
    t3 = t3
    m = m
    p1 = p1
    NULL = NULL
    One = One
    Threads = {t1, t2, t3, m}
    Manager = m
    Pointers = {p1}
    FirstSize = 2
    Growth = 1
    MaxCount = 2
SPECIFICATION FairSpec
INVARIANTS
    OwnersAddUp
    QueriesAnswer
PROPERTIES
    WaitersServed
    Refinement
