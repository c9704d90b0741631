SPECIFICATION SSpec
CONSTANTS
    Values <- ColumnData
    MaxTxns = 2
    MaxRows = 0
    MaxVersions = 2
    Names = {a, b}
    MaxTables = 3
    MaxIndexNames = 1
SYMMETRY NameSymmetry
INVARIANTS
    SchemaAsDeclared
    IndexesFollowConstraints
    ReferencesHold
CHECK_DEADLOCK FALSE
