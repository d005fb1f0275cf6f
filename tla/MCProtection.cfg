CONSTANTS
    u1 = u1
    u2 = u2
    t1 = t1
    t2 = t2
    t3 = t3
    x1 = x1
    x2 = x2
    Users = {u1, u2}
    MaxRefs = 2
    Threads = {t1, t2, t3}
    Tags = {x1, x2}
    b1 = b1
    b2 = b2
    b3 = b3
    r1 = r1
    r2 = r2
    NULL = NULL
    Callers = {t1, t2}
    Blocks = {b1, b2, b3}
    Routines = {r1, r2}
    Slots = 2
    MAX_FAST_REFS = 1
    List = "image"
    MaxCount = 6
SPECIFICATION MCSpec
INVARIANTS
    ReferencesSafe
    RemovalSafe
    NoUseAfterFree
    TableCorrect
PROPERTIES
    PublishedWaitCompletes
    Refinement
    RemovalEnds
    ImplementsProtection
    RemovalReturns
