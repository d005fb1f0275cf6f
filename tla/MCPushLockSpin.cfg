CONSTANTS
    t1 = t1
    t2 = t2
    t3 = t3
    NULL = NULL
    Threads = {t1, t2, t3}
    Calls = {"exclusive", "shared", "releaseShared", "releaseExclusive"}
SPECIFICATION FairSpec
PROPERTIES
    ReleaseUnlocks
