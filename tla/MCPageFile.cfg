SPECIFICATION Spec
CONSTANTS
    Threads = {t1, t2}
    Pages = {1, 2}
    Data = {d1, d2}
    Absent = Absent
    Unreadable = Unreadable
    Located = {0, 2}
    MaxMerges = 2
    MaxReads = 1
    MaxFlushes = 1
    MaxCrashes = 1
CONSTRAINT BeforeDamage
SYMMETRY MCSymmetry
INVARIANTS StoreMatchesFile ReadsReturnLocated
PROPERTIES ImplementsPageMap CrashIsAllOrNothing AcknowledgedHolds
CHECK_DEADLOCK FALSE
