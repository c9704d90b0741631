SPECIFICATION Spec
CONSTANTS
    MaxI32 = 1
    MaxI64 = 2
    Numeral <- OneDigit
    IntegerTypes = {"i32", "i64"}
    Inserts <- SomeInserts
    Wheres <- SomeWheres
    Assignments <- SomeAssignments
    CopyTargets <- SomeTargets
    Filters <- SomeFilters
    Joins <- SomeJoins
    MaxStatements = 4
INVARIANTS
    AccessPathsAgree
    JoinsAgree
    CopyRestores
CHECK_DEADLOCK FALSE
