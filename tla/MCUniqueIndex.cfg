SPECIFICATION ISpec
CONSTANTS
    Values <- NumbersAndNull
    Key <- KeyOf
    MaxTxns = 3
    MaxRows = 2
    MaxVersions = 2
INVARIANTS
    IndexInv
    LiveVersionsIndexed
    SerialUnique
    SearchAgrees
    ForeignKeyExact
CONSTRAINT SimplerWithThree
CHECK_DEADLOCK FALSE
