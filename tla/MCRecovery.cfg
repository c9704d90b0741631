SPECIFICATION RSpec
CONSTRAINT NoDropWithThree
CONSTANTS
    Values = {a}
    MaxTxns = 3
    MaxRows = 1
    MaxVersions = 2
    MaxDrops = 1
INVARIANTS
    RestartCommitsOpen
    SnapshotNotAhead
    IdsNotReused
    NothingResurrected
CHECK_DEADLOCK FALSE
