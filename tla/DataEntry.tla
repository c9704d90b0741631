------------------------------ MODULE DataEntry ------------------------------
(***************************************************************************)
(* Values of columns (DataBaseDataEntry, core/row.rs) with their order,    *)
(* their index key and the conversions of core/plan/dml.rs.  Of the        *)
(* seventeen variants the model keeps NULL, the two integer types a        *)
(* literal normally takes, and text; integers are not negative.            *)
(***************************************************************************)
EXTENDS Integers, Sequences

CONSTANTS
    MaxI32,     \* i32::MAX, scaled down
    MaxI64      \* i64::MAX, scaled down

ASSUME WidthAssumption ==
    MaxI32 \in Nat /\ MaxI64 \in Nat /\ 0 < MaxI32 /\ MaxI32 < MaxI64

\* The variants, in the order of their declaration, which the derived Ord uses.
Null == [type |-> "null"]
Integer(type, n) == [type |-> type, n |-> n]
Text(chars) == [type |-> "text", chars |-> chars]

Variant(value) == CHOOSE i \in 1..4 : <<"null", "i32", "i64", "text">>[i] = value.type

MaxOf(type) == IF type = "i32" THEN MaxI32 ELSE MaxI64

\* Outcomes of operations that may fail.
Ok(value) == [ok |-> TRUE, value |-> value]
Err == [ok |-> FALSE]

\* DataBaseDataEntry::key: NULL shares the key of 0.  Only integer columns are
\* indexed here, so the hash of a text is not needed.
key(value) == IF value = Null THEN 0 ELSE value.n

\* The derived comparison: the variant decides first, so an i32 is below every
\* i64.  Texts are only compared for equality.
Less(a, b) ==
    \/ Variant(a) < Variant(b)
    \/ a.type = b.type /\ a.type \in {"i32", "i64"} /\ a.n < b.n

\* SearchRequest::parse_sql_value and dml::parse_sql_value: a number becomes the
\* first integer type that holds it.
parse_sql_value(n) == Integer(IF n <= MaxI32 THEN "i32" ELSE "i64", n)

\* entry_as_i64: NULL counts as 0.
entry_as_i64(value) ==
    IF value = Null THEN Ok(0)
    ELSE IF value.type = "text" THEN Err ELSE Ok(value.n)

\* add_numeric_entries: the sum saturates.
add_numeric_entries(a, b) ==
    LET left == entry_as_i64(a)
        right == entry_as_i64(b)
        sum == left.value + right.value
    IN  IF left.ok /\ right.ok
        THEN Ok(Integer("i64", IF sum > MaxI64 THEN MaxI64 ELSE sum))
        ELSE Err

coerce_to_type(value, expected) ==
    IF value.type \in {expected, "null"} THEN Ok(value)
    ELSE IF "text" \notin {value.type, expected} /\ value.n <= MaxOf(expected)
         THEN Ok(Integer(expected, value.n))
         ELSE Err

\* apply_update_assignment: SET column = value, or SET column = column + value.
apply_update_assignment(assignment, current, expected) ==
    LET value == IF assignment.add
                 THEN add_numeric_entries(current, assignment.value)
                 ELSE Ok(assignment.value)
    IN  IF value.ok THEN coerce_to_type(value.value, expected) ELSE Err
=============================================================================
