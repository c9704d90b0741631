SPECIFICATION Spec
CONSTANTS
    Workers = {w1}
    Vacuum = vac
    AutoVacuum = TRUE
    MemoryLimits = {2}
    PageSize = 1
    RowSize <- UnequalRows
    Modulus = 8
    MaxTxns = 2
    MaxRows = 2
    MaxPages = 3
CONSTRAINT NoneTorn
INVARIANTS
    RowsIntact
CHECK_DEADLOCK FALSE
