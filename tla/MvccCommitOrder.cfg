SPECIFICATION Spec
CONSTANTS
    Values = {a}
    MaxTxns = 3
    MaxRows = 1
    MaxVersions = 2
INVARIANTS
    CommittedIsVisible
CHECK_DEADLOCK FALSE
