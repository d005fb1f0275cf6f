CONSTANTS
    t1 = t1
    t2 = t2
    t3 = t3
    Callers = {t1, t2, t3}
    Keys = {t1, t2, t3}
    NoKey = NoKey
    Process <- SameProcess
    Buckets = {0}
    Hash <- OneBucket
SPECIFICATION CondSpec
SYMMETRY Symmetry
INVARIANTS
    AllAreWoken
