SPECIFICATION Spec
CONSTANTS
    Values = {a, b}
    MaxTxns = 4
    MaxRows = 1
    MaxVersions = 3
INVARIANTS
    MvccInv
    NoDirtyRead
    VisibilityExact
    SingleVisibleVersion
PROPERTIES
    ViewStable
    ImplementsReadCommitted
    VacuumInvisible
CHECK_DEADLOCK FALSE
