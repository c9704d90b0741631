------------------------------- MODULE Schema -------------------------------
(***************************************************************************)
(* Schema changes: CREATE TABLE, DROP TABLE, ALTER TABLE DROP COLUMN,      *)
(* CREATE INDEX and DROP INDEX (core/pg_wire.rs), the versioned columns of *)
(* a table (core/column.rs, core/table.rs) and the map of the tables       *)
(* (core/database.rs).                                                     *)
(*                                                                         *)
(* A Column is a chain of versions with the headers of Mvcc, and Column's  *)
(* remove, rollback_transaction, prune and get_versioned_column are those  *)
(* of Row: here `versions` of Mvcc holds column versions.  The map of the  *)
(* tables has no versions: CREATE and DROP TABLE change it at once and for *)
(* everybody, whatever becomes of the transaction.                         *)
(*                                                                         *)
(* A CREATE TABLE declares two columns, a key and a reference, and may     *)
(* fail after some of them.  Whether the statement's transaction is ended  *)
(* by the statement or by the client makes no difference to the model:     *)
(* statements and the ends of transactions are separate steps.             *)
(***************************************************************************)
EXTENDS Mvcc, FiniteSets, TLC

CONSTANTS
    Names,          \* names of tables
    MaxTables,      \* bound on table ids
    MaxIndexNames   \* bound on index names

VARIABLES
    tables,         \* Database.tables, as a function from names to table ids
    next_table_id,  \* Database.next_table_id
    index_names,    \* Table.index_names of every table, as the columns named
    pending,        \* for a transaction, the table its statement looked up
    born,           \* history: for a table, its creator and declared columns
    dropped         \* history: which transaction dropped which of its columns

schema == <<tables, next_table_id, index_names, pending>>
svars == <<vars, schema, born, dropped>>

Columns == 0..1
KeyColumn == 0
RefColumn == 1

\* A column of a table, as one number.
Chain(id, c) == 2 * id + c
TableOf(r) == r \div 2

Registered == {tables[n] : n \in DOMAIN tables}

\* HashMap::insert.
Put(f, k, v) == [x \in DOMAIN f \cup {k} |-> IF x = k THEN v ELSE f[x]]

-----------------------------------------------------------------------------
(* Columns                                                                 *)

\* What a column version holds of Column: its constraints.
ColumnData ==
    [unique : BOOLEAN, indexed : BOOLEAN,
     refers : SUBSET [table : 0..(MaxTables - 1), name : Names]]

\* The data of Mvcc's versions is that of columns.
ASSUME SchemaAssumption ==
    /\ MaxTables \in Nat /\ MaxIndexNames \in Nat
    /\ ColumnData \subseteq Values

\* InternalColumn::new: a unique column is born with its index.  `refers` is the
\* foreign key, with the name it was declared with as history.
InternalColumn(unique, refers) ==
    [unique |-> unique, indexed |-> unique, refers |-> refers]

\* Mutant: the index of the old version is taken over as it is.
UpdatedKeepingIndex(data, unique) == [data EXCEPT !.unique = @ \/ unique]

\* The data of Column::update with the constraints merged by
\* add_column_constraints.
Updated(data, unique) ==
    LET merged == data.unique \/ unique
    IN [data EXCEPT !.unique = merged, !.indexed = merged]

\* The versions of a column that CREATE TABLE declares, with a table constraint
\* applied to it in the end or not.
Declared(id, c, t, data, constrained) ==
    LET first == NewVersion(Chain(id, c), 1, t, data)
    IN IF constrained
       THEN {[first EXCEPT !.deleted_by = t],
             NewVersion(Chain(id, c), 2, t, Updated(data, TRUE))}
       ELSE {first}

\* Table::get_visible_column_map.
get_visible_column_map(id, t) ==
    {c \in Columns : VisibleVersions(Chain(id, c), t) # {}}

-----------------------------------------------------------------------------
(* Statements                                                              *)

Idle(t) == t \in active_transaction /\ pending[t] = {}

\* Mutant: the id of a dropped table is given out again.
LowestFreeId == CHOOSE id \in 0..MaxTables : id \notin Registered /\ 0..(id - 1) \subseteq Registered

\* The id of Database::create_table.
NewTableId == next_table_id

\* resolve_foreign_key_reference: the key of a table whose key t sees.
resolve_foreign_key_reference(t) ==
    {{[table |-> tables[m], name |-> m]} :
        m \in {m \in DOMAIN tables : KeyColumn \in get_visible_column_map(tables[m], t)}}

\* CREATE TABLE: `added` columns are created before the statement ends or fails.
\* UNIQUE comes as a column option, as a table constraint or not at all.  The
\* name stays taken when the statement fails.
create_table(t, n) ==
    /\ Idle(t)
    /\ n \notin DOMAIN tables
    /\ next_table_id < MaxTables
    /\ \E added \in 0..2, unique \in {"option", "constraint", "no"},
          refers \in {{}} \cup resolve_foreign_key_reference(t) :
          /\ added < 1 => unique = "no"
          /\ added < 2 => unique # "constraint" /\ refers = {}
          /\ tables' = Put(tables, n, NewTableId)
          /\ versions' = versions
                \cup (IF added > KeyColumn
                      THEN Declared(NewTableId, KeyColumn, t, InternalColumn(unique = "option", {}),
                                    unique = "constraint")
                      ELSE {})
                \cup (IF added > RefColumn
                      THEN Declared(NewTableId, RefColumn, t, InternalColumn(FALSE, refers), FALSE)
                      ELSE {})
          /\ born' = Put(born, NewTableId,
                         [creator |-> t, columns |-> {c \in Columns : c < added}])
    /\ next_table_id' = next_table_id + 1
    /\ UNCHANGED <<next_transaction_id, snapshot, next_row_id, committed, clobbered,
                   late, index_names, pending, dropped>>

\* DROP TABLE, in no transaction.  Statements that have looked the table up go on
\* with it, to no effect.
drop_table(n) ==
    /\ n \in DOMAIN tables
    /\ tables' = [m \in DOMAIN tables \ {n} |-> tables[m]]
    /\ versions' = {v \in versions : TableOf(v.row) # tables[n]}
    /\ index_names' = {r \in index_names : TableOf(r) # tables[n]}
    /\ born' = [id \in DOMAIN born \ {tables[n]} |-> born[id]]
    /\ dropped' = {d \in dropped : TableOf(d.column) # tables[n]}
    /\ clobbered' = {r \in clobbered : TableOf(r) # tables[n]}
    /\ UNCHANGED <<next_transaction_id, snapshot, next_row_id, committed, late,
                   next_table_id, pending>>

\* ALTER TABLE and CREATE INDEX look the table up under the database lock, which
\* they release before they lock the table.
get_table(t, n) ==
    /\ Idle(t)
    /\ n \in DOMAIN tables
    /\ pending' = [pending EXCEPT ![t] = {tables[n]}]
    /\ UNCHANGED <<vars, tables, next_table_id, index_names, born, dropped>>

\* Mutant: the column goes with all its versions.
EraseColumn(v, t) == {w \in versions : w.row # v.row}

\* Column::remove.
remove(v, t) == MarkDeleted(v, t)

\* ALTER TABLE DROP COLUMN on the table found.
drop_column(t, c) ==
    /\ t \in active_transaction
    /\ \E id \in pending[t] :
          IF \E v \in versions : get_versioned_row(v, Chain(id, c), t)
          THEN \E v \in versions :
                  /\ get_versioned_row(v, Chain(id, c), t)
                  /\ versions' = remove(v, t)
                  /\ NoteClobber(v)
                  /\ dropped' = dropped \cup {[column |-> Chain(id, c), by |-> t]}
          ELSE UNCHANGED <<versions, clobbered, dropped>>
    /\ pending' = [pending EXCEPT ![t] = {}]
    /\ UNCHANGED <<next_transaction_id, snapshot, next_row_id, committed, late,
                   tables, next_table_id, index_names, born>>

\* CREATE INDEX on the table found.  build_column_index_from_rows leaves a column
\* without index alone, and one that has an index is refused unless that index
\* is empty; the name is registered in both cases.
create_column_index(t, c) ==
    /\ t \in active_transaction
    /\ Cardinality(index_names) < MaxIndexNames
    /\ \E id \in pending[t] :
          /\ id \in Registered /\ c \in get_visible_column_map(id, t)
          /\ index_names' = index_names \cup {Chain(id, c)}
    /\ pending' = [pending EXCEPT ![t] = {}]
    /\ UNCHANGED <<vars, tables, next_table_id, born, dropped>>

\* The statement fails (no such column, an index that is not empty, an operation
\* that is not supported), or creates an index on a table dropped meanwhile.
FailStatement(t) ==
    /\ t \in active_transaction /\ pending[t] # {}
    /\ pending' = [pending EXCEPT ![t] = {}]
    /\ UNCHANGED <<vars, tables, next_table_id, index_names, born, dropped>>

\* Column::drop_index: not for a column that enforces a constraint.
Droppable(v) == v.data.indexed /\ ~v.data.unique

\* DROP INDEX, by the name of the index: all tables are searched.
drop_column_index(t, r) ==
    /\ Idle(t)
    /\ r \in index_names
    /\ \E v \in versions :
          /\ get_versioned_row(v, r, t)
          /\ versions' = IF Droppable(v)
                         THEN (versions \ {v}) \cup {[v EXCEPT !.data.indexed = FALSE]}
                         ELSE versions
          /\ index_names' = IF Droppable(v) THEN index_names \ {r} ELSE index_names
    /\ UNCHANGED <<next_transaction_id, snapshot, next_row_id, committed, clobbered,
                   late, tables, next_table_id, pending, born, dropped>>

Transactions ==
    /\ \/ create_transaction
       \/ auto_vacuum
       \/ \E t \in TxnIds : Idle(t) /\ (commit_transaction(t) \/ rollback_transaction(t))
    /\ UNCHANGED <<schema, born, dropped>>

SInit ==
    /\ Init
    /\ tables = <<>> /\ next_table_id = 0 /\ index_names = {}
    /\ pending = [t \in TxnIds |-> {}]
    /\ born = <<>> /\ dropped = {}

SNext ==
    \/ Transactions
    \/ \E n \in Names : drop_table(n)
    \/ \E t \in TxnIds, n \in Names : create_table(t, n) \/ get_table(t, n)
    \/ \E t \in TxnIds, c \in Columns : drop_column(t, c) \/ create_column_index(t, c)
    \/ \E t \in TxnIds : FailStatement(t)
    \/ \E t \in TxnIds, r \in index_names : drop_column_index(t, r)

SSpec == SInit /\ [][SNext]_svars

-----------------------------------------------------------------------------
(* Properties                                                              *)

NameSymmetry == Permutations(Names)

\* The column was dropped, for t: by t or by a committed transaction.
DroppedFor(r, t) == \E d \in dropped : d.column = r /\ d.by \in committed \cup {t}

\* What a transaction sees of a table is what was declared: all columns that
\* CREATE TABLE added, except those dropped by itself or by a committed
\* transaction, once the creator has committed, and none before, although the
\* name is taken from the start, and also stays taken after a failure or a
\* rollback; in every interleaving with vacuum and with statements that hold on
\* to a dropped table (pg_wire.rs:746-800, column.rs:363-470).  The watermark
\* has to be current, and no two transactions may have dropped one column.
SchemaAsDeclared ==
    WatermarkCurrent =>
        \A id \in Registered, t \in Readers, c \in Columns :
            Chain(id, c) \notin clobbered =>
                (c \in get_visible_column_map(id, t)
                    <=> /\ c \in born[id].columns
                        /\ born[id].creator \in committed \cup {t}
                        /\ ~DroppedFor(Chain(id, c), t))

\* A column version has an index exactly if it enforces UNIQUE or PRIMARY KEY:
\* the check of schema_validation never misses its index (column.rs:285-310),
\* and an index that a client created is never built and can never be dropped
\* (table.rs:879-915, column.rs:510-535).
IndexesFollowConstraints ==
    /\ \A v \in versions : v.data.indexed <=> v.data.unique
    /\ \A r \in index_names : \E c \in Columns, id \in Registered : r = Chain(id, c)

\* A foreign key never changes its target: as long as a table with the id stored
\* in the constraint is there, it is the one that was named in CREATE TABLE, and
\* whoever sees the foreign key sees the referenced column, unless that was
\* dropped (pg_wire.rs:181-208, database.rs:148-163, 177-200).
ReferencesHold ==
    WatermarkCurrent =>
        \A v \in versions, t \in Readers : is_visible(v, t) =>
            \A k \in v.data.refers : k.table \in Registered =>
                /\ k.name \in DOMAIN tables /\ tables[k.name] = k.table
                /\ \/ KeyColumn \in get_visible_column_map(k.table, t)
                   \/ \E d \in dropped : d.column = Chain(k.table, KeyColumn)

\* Every variable that the schema depends on has its type.
SchemaTypeOK ==
    /\ TypeOK
    /\ next_table_id \in Nat
    /\ pending \in [TxnIds -> SUBSET Nat]
    /\ \A id \in DOMAIN born : born[id].creator \in Begun /\ born[id].columns \subseteq Columns
    /\ \A d \in dropped : d.column \in Nat /\ d.by \in Begun

\* A table id belongs to one name and was handed out once, and nothing is left
\* of a table that is gone: columns, dropped columns, overwritten marks.  No
\* transaction that has ended declares a column.
TablesKnown ==
    /\ DOMAIN tables \subseteq Names
    /\ \A n \in DOMAIN tables : tables[n] \in Nat /\ tables[n] < next_table_id
    /\ \A m, n \in DOMAIN tables : tables[m] = tables[n] => m = n
    /\ DOMAIN born = Registered
    /\ \A v \in versions : TableOf(v.row) \in Registered
    /\ \A d \in dropped : TableOf(d.column) \in Registered
    /\ \A r \in clobbered : \E d \in dropped : d.column = r
    /\ late = {}

\* All versions of a column come from CREATE TABLE.
ColumnsDeclared ==
    \A v \in versions, id \in Registered, c \in Columns :
        v.row = Chain(id, c) =>
            c \in born[id].columns /\ v.created_by = born[id].creator

\* The versions of column r, and the transactions that have dropped it and were
\* not rolled back.
OfColumn(r) == {v \in versions : v.row = r}
Droppers(r) == {d.by : d \in {e \in dropped : e.column = r}} \ Aborted

\* What the marks of column r, created by k, say of it: but one version was
\* superseded by k itself; nobody has dropped the column and there is a version
\* without a mark, or one transaction has and all marks are that one's.
Followed(r, k) ==
    /\ \A v, w \in OfColumn(r) : v = w \/ v.deleted_by = k \/ w.deleted_by = k
    /\ Droppers(r) = {} => \E v \in OfColumn(r) : v.deleted_by = None
    /\ \A x \in Droppers(r) :
          /\ \A v \in OfColumn(r) : v.deleted_by \in {k, x}
          /\ x \in active_transaction => \E v \in OfColumn(r) : v.deleted_by = x

ColumnsFollowed ==
    \A id \in Registered : \A c \in born[id].columns :
        Chain(id, c) \notin clobbered /\ born[id].creator \notin Aborted =>
            Followed(Chain(id, c), born[id].creator)

\* A foreign key names a table by an id that was handed out, and while that
\* table is there it has the name and the key it was found with.
ReferencesFollowed ==
    \A v \in versions : \A k \in v.data.refers :
        /\ k.table \in 0..(next_table_id - 1)
        /\ k.table \in Registered =>
              /\ k.name \in DOMAIN tables /\ tables[k.name] = k.table
              /\ KeyColumn \in born[k.table].columns
              /\ born[k.table].creator \in committed \cup {v.created_by}

\* The inductive invariant that the properties above follow from.
SchemaInv ==
    /\ SchemaTypeOK
    /\ Bookkeeping
    /\ HeadersConsistent
    /\ TablesKnown
    /\ ColumnsDeclared
    /\ ColumnsFollowed
    /\ ReferencesFollowed
    /\ IndexesFollowConstraints
=============================================================================
