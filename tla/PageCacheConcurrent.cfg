SPECIFICATION Spec
CONSTANTS
    Workers = {w1, w2}
    Vacuum = vac
    AutoVacuum = TRUE
    MemoryLimits = {0, 2}
    PageSize = 1
    RowSize <- EqualRows
    Modulus = 8
    MaxTxns = 1
    MaxRows = 2
    MaxPages = 2
SYMMETRY WorkerSymmetry
CONSTRAINT NoneTorn
INVARIANTS
    TypeOK
    RowsIntact
    ScanMeetsRowsOnce
    SafeWithoutLimit
CHECK_DEADLOCK FALSE
