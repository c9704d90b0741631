-------------------------------- MODULE Query --------------------------------
(***************************************************************************)
(* Statements of one transaction on one table: planning (core/plan/),      *)
(* search (core/search.rs, Table::search), joins of the table with itself  *)
(* (core/query.rs), INSERT, UPDATE, DELETE, and COPY in both directions.   *)
(* The table has the columns k, an integer that is UNIQUE and therefore    *)
(* indexed, and v, a text; both may be NULL, and a row need not hold them. *)
(*                                                                         *)
(* All statements run in the client's open transaction, so a row is simply *)
(* what that transaction sees of it; Mvcc and UniqueIndex are about        *)
(* several transactions.  A planned statement that fails rolls the         *)
(* transaction back (execute_transactional_at), and the next one begins a  *)
(* new transaction; a COPY FROM that fails rolls nothing back              *)
(* (finish_copy_transaction).                                              *)
(***************************************************************************)
EXTENDS CopyFormat, FiniteSets

CONSTANTS
    IntegerTypes,   \* possible types of k
    Inserts,        \* data of INSERT: functions from the listed columns to literals
    Wheres,         \* filters of UPDATE and DELETE
    Assignments,    \* lists of assignments of UPDATE
    CopyTargets,    \* [columns, options] of COPY: names of columns, CopyOptions
    Filters,        \* filters of the SELECTs that the properties ask about
    Joins,          \* joins of table a with itself that the properties ask about
    MaxStatements   \* bound: statements that change something or write a file

VARIABLES
    key_type,       \* type of k
    table,          \* rows by id, index entries, next_row_id
    file,           \* what the last COPY TO sent, or NoFile
    statements      \* number of statements so far

vars == <<key_type, table, file, statements>>

Columns == <<"k", "v">>
NoFile == [text |-> <<>>]
EmptyRow == <<>>     \* data of a right side that a LEFT JOIN did not find

column_data_type(c) == IF c = "k" THEN key_type ELSE "text"

\* What a statement reads of column c: a column the row does not hold is NULL.
Shown(data, c) == IF c \in DOMAIN data THEN data[c] ELSE Null

\* The members of a set of row ids in ascending order, the order of a scan.
Ascending(ids) ==
    SelectSeq([i \in 1..table.next_row_id |-> i], LAMBDA r : r \in ids)

AllRows == Ascending(DOMAIN table.rows)

-----------------------------------------------------------------------------
(* Expressions                                                             *)

Literal(value) == [node |-> "literal", value |-> value]
Column(alias, c) == [node |-> "column", alias |-> alias, column |-> c]
Comparison(op, l, r) == [node |-> "comparison", operator |-> op, left |-> l, right |-> r]
And(l, r) == [node |-> "and", left |-> l, right |-> r]
Or(l, r) == [node |-> "or", left |-> l, right |-> r]
Not(e) == [node |-> "not", inner |-> e]
NoFilter == [node |-> "none"]
Unqualified == ""
IsNull(c) == Comparison("=", Column(Unqualified, c), Literal(Null))
IsNotNull(c) == Comparison("<>", Column(Unqualified, c), Literal(Null))

compare(op, l, r) ==
    CASE op = "=" -> l = r
      [] op = "<>" -> l # r
      [] op = ">" -> Less(r, l)
      [] op = "<" -> Less(l, r)
      [] op = ">=" -> ~Less(l, r)
      [] op = "<=" -> ~Less(r, l)

\* RowEvaluationContext: values by <<alias, column>>.
resolve_value(e, ctx) ==
    IF e.node = "literal" THEN Ok(e.value)
    ELSE IF e.node = "column" /\ <<e.alias, e.column>> \in DOMAIN ctx
         THEN Ok(ctx[<<e.alias, e.column>>])
         ELSE Err

\* SearchExpression::evaluate; AND and OR skip their right side when they can.
\* Without Boolean values, to_boolean refuses every literal and column.
RECURSIVE evaluate(_, _)
evaluate(e, ctx) ==
    CASE e.node = "none" -> "true"
      [] e.node = "comparison" ->
            LET l == resolve_value(e.left, ctx)
                r == resolve_value(e.right, ctx)
            IN  IF ~(l.ok /\ r.ok) THEN "error"
                ELSE IF compare(e.operator, l.value, r.value) THEN "true" ELSE "false"
      [] e.node = "and" ->
            LET l == evaluate(e.left, ctx)
            IN  IF l = "true" THEN evaluate(e.right, ctx) ELSE l
      [] e.node = "or" ->
            LET l == evaluate(e.left, ctx)
            IN  IF l = "false" THEN evaluate(e.right, ctx) ELSE l
      [] e.node = "not" ->
            LET i == evaluate(e.inner, ctx)
            IN  CASE i = "true" -> "false" [] i = "false" -> "true" [] OTHER -> "error"
      [] OTHER -> "error"

\* Outcome of taking the rows of `ids` for which Verdict is "true".
Filtered(ids, Verdict(_)) ==
    IF \E i \in DOMAIN ids : Verdict(ids[i]) = "error" THEN Err
    ELSE Ok(SelectSeq(ids, LAMBDA r : Verdict(r) = "true"))

-----------------------------------------------------------------------------
(* Access paths and single-table search                                    *)

\* Column::index_lookup: the rows under the value's key.  A key without rows is
\* not in the map, so the empty set stands for None.
index_lookup(value) == {e.row : e \in {f \in table.index : f.key = key(value)}}

\* equality_lookup: `column = literal` in either order, unqualified.
EqualityLookup(filter) ==
    LET sides == {<<filter.left, filter.right>>, <<filter.right, filter.left>>}
        fits(s) == s[1].node = "column" /\ s[1].alias = Unqualified /\ s[2].node = "literal"
    IN  IF /\ filter.node = "comparison"
           /\ filter.operator = "="
           /\ \E s \in sides : fits(s)
        THEN LET s == CHOOSE s \in sides : fits(s)
             IN  Ok([column |-> s[1].column, value |-> s[2].value])
        ELSE Err

SeqScan == [path |-> "scan"]
IndexEquality(value) == [path |-> "index", value |-> value]

\* Mutant: any comparison with a literal goes through the index.
IndexAnyComparison(filter) ==
    IF filter.node = "comparison" /\ filter.left.node = "column"
       /\ filter.left.column = "k" /\ filter.right.node = "literal"
    THEN Ok(IndexEquality(filter.right.value))
    ELSE Ok(SeqScan)

\* choose_filter_access_path: only k is indexed, and an unknown column is an
\* error before any row is read.
choose_filter_access_path(filter) ==
    LET lookup == EqualityLookup(filter)
    IN  IF ~lookup.ok THEN Ok(SeqScan)
        ELSE IF lookup.value.column \notin ToSet(Columns) THEN Err
        ELSE IF lookup.value.column = "k" THEN Ok(IndexEquality(lookup.value.value))
        ELSE Ok(SeqScan)

\* index_lookup_candidates: rows under the key that are visible, or None, which
\* means a scan, when the key is not there.
candidate_row_ids(path) ==
    IF path.path = "index" /\ index_lookup(path.value) # {}
    THEN Ascending(index_lookup(path.value) \cap DOMAIN table.rows)
    ELSE AllRows

RowContext(data) ==
    [name \in {Unqualified} \X ToSet(Columns) |-> Shown(data, name[2])]

Matches(filter, r) == evaluate(filter, RowContext(table.rows[r]))

\* slice::sort_by is stable; `order` is "none", "asc" or "desc", by column k.
Sorted(ids, order, KeyOf(_)) ==
    LET before(i, j) ==
            LET a == KeyOf(ids[i])
                b == KeyOf(ids[j])
            IN  \/ order = "asc" /\ Less(a, b)
                \/ order = "desc" /\ Less(b, a)
                \/ (order = "none" \/ (~Less(a, b) /\ ~Less(b, a))) /\ i < j
        rank == SortSeq([i \in DOMAIN ids |-> i], before)
    IN  [i \in DOMAIN ids |-> ids[rank[i]]]

\* skip(offset) and take(limit).
Page(ids, offset, limit) ==
    SubSeq(ids, offset + 1, IF offset + limit > Len(ids) THEN Len(ids) ELSE offset + limit)

\* Table::search: the filter is evaluated on every candidate, whatever the path.
search(filter, path, order, offset, limit) ==
    LET found == Filtered(candidate_row_ids(path), LAMBDA r : Matches(filter, r))
    IN  IF found.ok
        THEN Ok(Page(Sorted(found.value, order, LAMBDA r : Shown(table.rows[r], "k")),
                     offset, limit))
        ELSE Err

\* SELECT of one table: optimize_select and execute_physical_select.
execute_select(filter, order, offset, limit) ==
    LET path == choose_filter_access_path(filter)
    IN  IF path.ok THEN search(filter, path.value, order, offset, limit) ELSE Err

\* SELECT COUNT(*): the candidates come from equality_lookup, not from the path.
count_star(filter) ==
    LET lookup == EqualityLookup(filter)
        path == IF lookup.ok /\ lookup.value.column = "k"
                THEN IndexEquality(lookup.value.value) ELSE SeqScan
        found == Filtered(candidate_row_ids(path), LAMBDA r : Matches(filter, r))
    IN  IF choose_filter_access_path(filter).ok /\ found.ok
        THEN Ok(Len(found.value)) ELSE Err

-----------------------------------------------------------------------------
(* Joins                                                                   *)

Binding(alias, row, data) == [alias |-> alias, row |-> row, data |-> data]

\* build_row_context: every column under its alias, and under its bare name when
\* only one table has it.
build_row_context(joined) ==
    LET qualified == {joined[i].alias : i \in DOMAIN joined} \X ToSet(Columns)
        bare == IF Len(joined) = 1 THEN {Unqualified} \X ToSet(Columns) ELSE {}
        of(name) == CHOOSE i \in DOMAIN joined : name[1] \in {joined[i].alias, Unqualified}
    IN  [name \in qualified \cup bare |-> Shown(joined[of(name)].data, name[2])]

\* join_equality_lookup: only `left.column = right.column` with the joined table
\* on the right is answered by a probe, and only if its left side resolves.
JoinProbe(join, partial) ==
    LET value == resolve_value(join.on.left, build_row_context(partial))
    IN  IF /\ join.on.node = "comparison"
           /\ join.on.operator = "="
           /\ join.on.left.node = "column" /\ join.on.left.alias # Unqualified
           /\ join.on.right.node = "column" /\ join.on.right.alias = join.alias
           /\ value.ok
        THEN Ok([column |-> join.on.right.column, value |-> value.value])
        ELSE Err

\* Table::lookup_rows_by_column_value: rows under the key, or, if there is no such
\* key, a scan that passes over rows without the column.
lookup_rows_by_column_value(c, value) ==
    IF c = "k" /\ index_lookup(value) # {}
    THEN Ascending(index_lookup(value) \cap DOMAIN table.rows)
    ELSE SelectSeq(AllRows, LAMBDA r : c \in DOMAIN table.rows[r] /\ table.rows[r][c] = value)

\* Mutant: the rows that a probe found are not compared again.
MatchProbedRows(joined, join) ==
    LET left == joined[Len(joined) - 1].data
        right == Last(joined).data
    IN  IF join.type = "cross" \/ JoinProbe(join, Front(joined)).ok THEN "true"
        ELSE IF join.on # NoFilter THEN evaluate(join.on, build_row_context(joined))
        ELSE IF \A c \in join.using : Shown(left, c) = Shown(right, c)
             THEN "true" ELSE "false"

\* join_matches: CROSS, ON, or USING, which compares with the table before.
join_matches(joined, join) ==
    LET left == joined[Len(joined) - 1].data
        right == Last(joined).data
    IN  IF join.type = "cross" THEN "true"
        ELSE IF join.on # NoFilter THEN evaluate(join.on, build_row_context(joined))
        ELSE IF join.using = {} THEN "error"
        ELSE IF \A c \in join.using : Shown(left, c) = Shown(right, c)
             THEN "true" ELSE "false"

\* The candidates that apply_join tries for one partial row.
JoinCandidates(partial, join) ==
    LET probe == JoinProbe(join, partial)
    IN  IF join.type # "cross" /\ probe.ok
        THEN lookup_rows_by_column_value(probe.value.column, probe.value.value)
        ELSE AllRows

append_binding(partial, join, r) ==
    Append(partial, Binding(join.alias, r, table.rows[r]))

\* apply_join, for one partial row: the matches, or for a LEFT JOIN without any a
\* row 0 that holds nothing.
apply_join(partial, join) ==
    LET found == Filtered(JoinCandidates(partial, join),
                          LAMBDA r : join_matches(append_binding(partial, join, r), join))
    IN  IF ~found.ok THEN Err
        ELSE IF join.type = "left" /\ found.value = <<>>
        THEN Ok(<<Append(partial, Binding(join.alias, 0, EmptyRow))>>)
        ELSE Ok([i \in DOMAIN found.value |-> append_binding(partial, join, found.value[i])])

\* execute_join_search for one join: ORDER BY reads the projected values only, and
\* without a projection those of both tables are there.
execute_join_search(base, join, filter, projected, order, offset, limit) ==
    LET ids == AllRows
        left == [i \in DOMAIN ids |-> <<Binding(base, ids[i], table.rows[ids[i]])>>]
        outcomes == [i \in DOMAIN left |-> apply_join(left[i], join)]
        joined == FlattenSeq([i \in DOMAIN left |-> outcomes[i].value])
        kept == Filtered(joined, LAMBDA row : evaluate(filter, build_row_context(row)))
        keyOf(row) == IF projected THEN Shown(row[1].data, "k") ELSE Null
    IN  IF base = join.alias \/ \E i \in DOMAIN left : ~outcomes[i].ok THEN Err
        ELSE IF ~kept.ok THEN Err
        ELSE Ok(Page(Sorted(kept.value, order, keyOf), offset, limit))

-----------------------------------------------------------------------------
(* Rows and constraints                                                    *)

\* The Unique arm of schema_validation: a row under the same key that holds the
\* same value; a row that does not hold the column never conflicts.
UniqueConflict(t, value, exclude) ==
    \E e \in t.index :
        /\ e.key = key(value) /\ e.row # exclude /\ e.row \in DOMAIN t.rows
        /\ "k" \in DOMAIN t.rows[e.row] /\ t.rows[e.row]["k"] = value

\* Table::validate_row_data: types, then UNIQUE; a missing column counts as NULL.
validate_row_data(t, data, exclude) ==
    /\ \A c \in ToSet(Columns) : Shown(data, c).type \in {column_data_type(c), "null"}
    /\ ~UniqueConflict(t, Shown(data, "k"), exclude)

\* update_indexes_for_row: a column the row does not hold is not indexed, and the
\* entry of a former value stays.
update_indexes_for_row(t, r, data) ==
    t.index \cup (IF "k" \in DOMAIN data THEN {[key |-> key(data["k"]), row |-> r]} ELSE {})

\* Table::insert_row.
insert_row(t, data) ==
    LET r == t.next_row_id + 1
    IN  IF validate_row_data(t, data, 0)
        THEN Ok([rows |-> [x \in DOMAIN t.rows \cup {r} |->
                              IF x = r THEN data ELSE t.rows[x]],
                 index |-> update_indexes_for_row(t, r, data),
                 next_row_id |-> r])
        ELSE Err

\* Table::update_row.
update_row(t, r, data) ==
    IF validate_row_data(t, data, r)
    THEN Ok([t EXCEPT !.rows[r] = data, !.index = update_indexes_for_row(t, r, data)])
    ELSE Err

\* The rows of a COPY, one by one until one of them is refused; what was inserted
\* before it stays.
RECURSIVE InsertAll(_, _)
InsertAll(t, data) ==
    IF data = <<>> THEN t
    ELSE LET first == insert_row(t, Head(data))
         IN  IF first.ok THEN InsertAll(first.value, Tail(data)) ELSE t

\* The data that UPDATE gives update_row: every visible column of the result, so
\* that a missing one becomes an explicit NULL, with the assignments in order.
RECURSIVE Assigned(_, _)
Assigned(data, assignments) ==
    IF assignments = <<>> THEN Ok(data)
    ELSE LET a == Head(assignments)
             value == apply_update_assignment(a, data[a.column], column_data_type(a.column))
         IN  IF value.ok
             THEN Assigned([data EXCEPT ![a.column] = value.value], Tail(assignments))
             ELSE Err

RECURSIVE UpdateAll(_, _, _)
UpdateAll(t, ids, assignments) ==
    IF ids = <<>> THEN Ok(t)
    ELSE LET r == Head(ids)
             data == Assigned([c \in ToSet(Columns) |-> Shown(t.rows[r], c)], assignments)
             next == update_row(t, r, data.value)
         IN  IF data.ok /\ next.ok THEN UpdateAll(next.value, Tail(ids), assignments) ELSE Err

-----------------------------------------------------------------------------
(* Statements                                                              *)

Init ==
    /\ key_type \in IntegerTypes
    /\ table = [rows |-> EmptyRow, index |-> {}, next_row_id |-> 0]
    /\ file = NoFile
    /\ statements = 0

\* execute_transactional_at: an error rolls the transaction back, with the index
\* entries it added; row ids are not given out again.
RolledBack == [rows |-> EmptyRow, index |-> {}, next_row_id |-> table.next_row_id]

Finish(outcome) ==
    /\ statements < MaxStatements
    /\ statements' = statements + 1
    /\ table' = IF outcome.ok THEN outcome.value ELSE RolledBack
    /\ UNCHANGED <<key_type, file>>

\* INSERT of one row: build_insert_data and execute_insert.
execute_insert(data) ==
    LET coerced == [c \in DOMAIN data |-> coerce_to_type(data[c], column_data_type(c))]
    IN  Finish(IF \A c \in DOMAIN data : coerced[c].ok
               THEN insert_row(table, [c \in DOMAIN data |-> coerced[c].value])
               ELSE Err)

\* DELETE: search along the chosen path, then delete_row for every result.
execute_delete(filter) ==
    LET found == execute_select(filter, "none", 0, table.next_row_id)
        kept == DOMAIN table.rows \ ToSet(found.value)
    IN  Finish(IF found.ok
               THEN Ok([table EXCEPT !.rows = [r \in kept |-> table.rows[r]]])
               ELSE Err)

\* UPDATE: search along the chosen path, then update_row for every result.
execute_update(filter, assignments) ==
    LET found == execute_select(filter, "none", 0, table.next_row_id)
    IN  Finish(IF found.ok THEN UpdateAll(table, found.value, assignments) ELSE Err)

\* resolve_copy_columns.
CopyColumns(target) ==
    [i \in DOMAIN target.columns |->
        [name |-> target.columns[i], type |-> column_data_type(target.columns[i])]]

\* COPY TO STDOUT; `data` keeps what was encoded, for the properties.
copy_to(target) ==
    LET ids == AllRows
        data == [i \in DOMAIN ids |-> table.rows[ids[i]]]
    IN  /\ statements < MaxStatements
        /\ statements' = statements + 1
        /\ file' = [text |-> encode_copy_payload(data, CopyColumns(target), target.options),
                    target |-> target, data |-> data]
        /\ UNCHANGED <<key_type, table>>

\* COPY FROM STDIN of that file, with the same options (on_copy_done): all rows are
\* parsed before the first is inserted.
copy_from ==
    LET parsed == parse_copy_rows(file.text, CopyColumns(file.target), file.target.options)
    IN  /\ file # NoFile
        /\ statements < MaxStatements
        /\ statements' = statements + 1
        /\ table' = IF parsed.ok THEN InsertAll(table, parsed.value) ELSE table
        /\ UNCHANGED <<key_type, file>>

Next ==
    \/ \E data \in Inserts : execute_insert(data)
    \/ \E filter \in Wheres : execute_delete(filter)
    \/ \E filter \in Wheres, assignments \in Assignments :
          execute_update(filter, assignments)
    \/ \E target \in CopyTargets : copy_to(target)
    \/ copy_from

Spec == Init /\ [][Next]_vars

-----------------------------------------------------------------------------
(* Properties                                                              *)

\* Rows without column k are in no index entry.
Unindexed == {r \in DOMAIN table.rows : "k" \notin DOMAIN table.rows[r]}

\* The rows that satisfy the filter, but for those that `k IS NULL` cannot find
\* through the index: rows without the column, once some row is under key 0.
Wanted(filter) ==
    {r \in DOMAIN table.rows : Matches(filter, r) = "true"}
    \ (IF filter = IsNull("k") /\ index_lookup(Null) # {} THEN Unindexed ELSE {})

\* `ids` are the members of S from position offset + 1 on, at most `limit` of them,
\* in the given order of k and, among equals, of the row ids.
IsPageOf(ids, S, order, offset, limit) ==
    LET k(r) == Shown(table.rows[r], "k")
        before(q, r) ==
            \/ order = "asc" /\ Less(k(q), k(r))
            \/ order = "desc" /\ Less(k(r), k(q))
            \/ (order = "none" \/ k(q) = k(r)) /\ q < r
        size == Cardinality(S)
    IN  /\ Len(ids) = (IF size < offset THEN 0
                       ELSE IF size - offset < limit THEN size - offset ELSE limit)
        /\ \A i \in DOMAIN ids :
              ids[i] \in S /\ Cardinality({q \in S : before(q, ids[i])}) = offset + i - 1

\* A SELECT answers what its filter says, whatever access path the optimizer took
\* and whatever stale entries updates and deletions left in the index: the page of
\* the sorted matches that OFFSET and LIMIT ask for, and their number for COUNT(*).
\* The one exception is `k IS NULL`, which misses rows without the column
\* (optimize.rs choose_filter_access_path, table.rs search).
AccessPathsAgree ==
    \A filter \in Filters :
        LET wanted == Wanted(filter)
        IN  /\ \A order \in {"none", "asc", "desc"}, offset \in 0..1 :
                  LET result == execute_select(filter, order, offset, 2)
                  IN  result.ok /\ IsPageOf(result.value, wanted, order, offset, 2)
            /\ count_star(filter) = Ok(Cardinality(wanted))

\* The pairs of rows that a join on equal k, or a cross join, is about.
JoinPairs(join) ==
    {p \in (DOMAIN table.rows) \X (DOMAIN table.rows) :
        join.type = "cross" \/ Shown(table.rows[p[1]], "k") = Shown(table.rows[p[2]], "k")}

\* A join returns each of its pairs once, and each left row of a LEFT JOIN without a
\* partner once.  `left.k = right.k` is answered by probing the index, which passes
\* over right rows without the column, although NULLs compare equal here; the same
\* condition written the other way round, or with USING, is scanned and returns
\* them (query.rs apply_join, search.rs join_equality_lookup).
JoinsAgree ==
    \A join \in Joins :
        LET result == execute_join_search("a", join, NoFilter, TRUE, "none", 0,
                                          table.next_row_id * table.next_row_id)
            got == [i \in DOMAIN result.value |->
                       <<result.value[i][1].row, result.value[i][2].row>>]
            probed == join.type # "cross" /\ join.on # NoFilter
                      /\ join.on.right = Column(join.alias, "k")
            pairs == {p \in JoinPairs(join) : ~(probed /\ p[2] \in Unindexed)}
            alone == {r \in DOMAIN table.rows : ~\E p \in pairs : p[1] = r}
        IN  /\ result.ok
            /\ ToSet(got) = pairs \cup (IF join.type = "left" THEN alone \X {0} ELSE {})
            /\ Len(got) = Cardinality(ToSet(got))

\* The text of a value survives the way out and back.
Survives(value, options) ==
    IF value = Null
    THEN {"\\", "lf", options.delimiter} \cap ToSet(options.null_string) = {}
    ELSE value.type = "text" /\ options.delimiter \in ToSet(value.chars)
         => options.delimiter \notin DOMAIN Escapes \cup OctalDigits

\* A file that COPY TO wrote is read back by COPY FROM as the same rows, if every
\* value survives its escapes: a text equal to the null string comes back as NULL,
\* and in a file of one column the rows of empty lines are lost.  A NULL number
\* under a null string with a backslash, which the default \N is, makes the whole
\* file unreadable: it is written raw and unescaped before it is compared
\* (copy.rs format_copy_value, split_copy_fields, parse_copy_value).
CopyRestores ==
    file # NoFile =>
        LET target == file.target
            options == target.options
            names == ToSet(target.columns)
            parsed == parse_copy_rows(file.text, CopyColumns(target), options)
            readback(value) == IF value = Text(options.null_string) THEN Null ELSE value
            restored == [i \in DOMAIN file.data |->
                            [c \in names |-> readback(Shown(file.data[i], c))]]
            empty(row) == /\ Len(target.columns) = 1
                          /\ \A c \in names :
                                \/ row[c] = Text(<<>>)
                                \/ row[c] = Null /\ options.null_string = <<>>
            values == {Shown(file.data[i], c) : i \in DOMAIN file.data, c \in names}
            numbers == {Shown(file.data[i], "k") : i \in DOMAIN file.data}
        IN  /\ (\A value \in values : Survives(value, options))
               => parsed = Ok(SelectSeq(restored, LAMBDA row : ~empty(row)))
            /\ "k" \in names /\ Null \in numbers /\ "\\" \in ToSet(options.null_string)
               => ~parsed.ok

\* The documentation's example: a row inserted with id n is found by WHERE id = n
\* (docs/POSTGRES_COMPATIBILITY.md, "Works today").
LiteralFindsRow ==
    \A r \in DOMAIN table.rows :
        Shown(table.rows[r], "k") # Null =>
            LET n == table.rows[r]["k"].n
                filter == Comparison("=", Column(Unqualified, "k"), Literal(parse_sql_value(n)))
            IN  r \in ToSet(execute_select(filter, "none", 0, table.next_row_id).value)
=============================================================================
