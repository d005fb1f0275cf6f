CONSTANTS
    t1 = t1
    t2 = t2
    x1 = x1
    Threads = {t1, t2}
    Tags = {x1}
SPECIFICATION Spec
INVARIANTS
    BlockRemains
