CONSTANTS
    t1 = t1
    t2 = t2
    t3 = t3
    waker = waker
    stranger = stranger
    o1 = o1
    NULL = NULL
    NoKey = NoKey
    Threads = {t1, t2, t3}
    Callers = {t1, t2, t3, waker, stranger}
    Calls = {"exclusive", "shared", "convert", "waitOn", "release", "releaseShared", "releaseExclusive", "releaseExclusiveSlow"}
    Keys <- AddressKeys
    Process <- TwoProcesses
    Buckets = {0, 1}
    Hash <- SharedBucket
    Objects = {o1}
    NHandles = 2
    FreeListSound = TRUE
SPECIFICATION MCSpec
SYMMETRY Symmetry
INVARIANTS
    WakeupsOwned
    WaitBlocksSound
    Asserts
    MeetingsSafe
    NothingLeft
    EntriesSafe
    WakesCorrect
    EntriesGuarded
    StackBlocksAlive
    NoLostWakeup
PROPERTIES
    Refinement
    ImplementsHandleTable
