CONSTANTS
    s1 = s1
    d1 = d1
    d2 = d2
    c1 = c1
    i1 = i1
    i2 = i2
    Static = {s1}
    Dynamic = {d1, d2}
    Clients = {c1}
    Items = {i1, i2}
    Spawns <- MCSpawns
    MaximumCount = 1
    MaxDynamic = 1
    NULL = NULL
SPECIFICATION Spec
INVARIANTS ActiveCountExact NoLostItem DynamicBounded
PROPERTIES ItemsAreRun
