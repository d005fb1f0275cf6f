SPECIFICATION Spec
CONSTANTS
    Threads = {t1, t2}
    LOW_LEVEL_ENTRIES = 3
    MaxTables = 2
INVARIANTS
    EntryWasLocked
