SPECIFICATION Spec
CONSTANTS
    MaxI32 = 1
    MaxI64 = 2
    Numeral <- OneDigit
    IntegerTypes = {"i32", "i64"}
    Inserts <- SomeInserts
    Wheres <- SomeWheres
    Assignments <- SomeAssignments
    CopyTargets <- SomeTargets
    Filters <- SomeFilters
    Joins <- SomeJoins
    MaxStatements = 2
INVARIANTS
    LiteralFindsRow
CHECK_DEADLOCK FALSE
