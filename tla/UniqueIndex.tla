----------------------------- MODULE UniqueIndex -----------------------------
(***************************************************************************)
(* A table with one UNIQUE (or PRIMARY KEY) column, on top of Mvcc: the    *)
(* hash index of InternalColumn (core/column.rs) and the calls of Table    *)
(* that consult and maintain it (core/table.rs).  A row's data is the      *)
(* value of that column; NULL is an ordinary member of Values, as in the   *)
(* code, where two NULLs compare equal.  The index is by DataEntry::key,   *)
(* which different values may share: NULL has the key of the integer 0.    *)
(*                                                                         *)
(* A statement validates, places the row and updates the index under       *)
(* separate locks.  Doing the three in one step loses nothing: what the    *)
(* validation reads are rows visible to its own transaction, and those no  *)
(* other transaction can change while the statement holds the database     *)
(* read lock; the vacuum is kept out by the table lock.  The candidate     *)
(* rows of a check are taken to live on other pages than the row that is   *)
(* updated: update_row holds its page's write lock while it validates.     *)
(* COPY data of a transaction that has ended is at once visible to others, *)
(* so its insert is two steps: the row is placed, then its entry follows.  *)
(* Validation stays with the placing.  Two such inserts might validate     *)
(* before either places its row; that only changes which duplicates        *)
(* appear, and nothing is claimed of duplicates once such data has come.   *)
(***************************************************************************)
EXTENDS Mvcc

CONSTANT Key        \* DataBaseDataEntry::key

ASSUME KeyAssumption == Key \in [Values -> Nat]

VARIABLES
    index,        \* InternalColumn.index merged with index_added_by
    unindexed,    \* rows placed for a transaction that had ended, whose insert
                  \* has not reached the index yet
    retagged,     \* history: rows whose entry a later transaction re-tagged
    overlapped    \* history: two transactions were once in progress together,
                  \* or data was inserted for a transaction that had ended

ivars == <<vars, index, unindexed, retagged, overlapped>>

\* A statement holds the database read lock, and a COPY the table's as well: no
\* transaction begins or ends, and the table is neither vacuumed nor altered,
\* while an insert is under way.
NoInsertUnderWay == unindexed = {}

\* An entry of the index for `key` -> `row`, with its index_added_by tag, which
\* is None for the entries CREATE INDEX builds.
Entry == [key : Nat, row : Nat, added_by : Nat]

-----------------------------------------------------------------------------
(* Index operations                                                        *)

\* t sees row r with value k.
Sees(t, r, k) == \E v \in versions : get_versioned_row(v, r, t) /\ v.data = k

\* Mutant: the column is not validated.
NeverConflict(t, k, exclude) == FALSE

\* The Unique arm of InternalColumn::schema_validation, with the lookup that
\* Table::validate_row_data gives it: an indexed row other than `exclude`
\* shows the same value to t.
UniqueConflict(t, k, exclude) ==
    \E e \in index : e.key = Key[k] /\ e.row # exclude /\ Sees(t, e.row, k)

\* Mutant: only the first entry of a row is kept, so an update to another key
\* is not indexed.
IndexFirstOnly(k, r, t) ==
    /\ index' = IF \E e \in index : e.row = r THEN index
                ELSE index \cup {[key |-> Key[k], row |-> r, added_by |-> t]}
    /\ UNCHANGED retagged

\* InternalColumn::update_index: the entry is added, and its tag overwritten.
update_index(k, r, t) ==
    /\ index' = {e \in index : ~(e.key = Key[k] /\ e.row = r)}
                \cup {[key |-> Key[k], row |-> r, added_by |-> t]}
    /\ retagged' = retagged \cup
          {e.row : e \in {f \in index : /\ f.key = Key[k] /\ f.row = r
                                        /\ f.added_by # t}}

\* InternalColumn::rollback_index_transaction.
rollback_index_transaction(t) == index' = {e \in index : e.added_by # t}

\* Mutant: the vacuum leaves the index alone.
PruneNothing == UNCHANGED index

\* Mutant: an entry goes as soon as its row has no version without a mark.
PruneMarked ==
    index' = {e \in index : \E v \in versions' :
                                v.row = e.row /\ v.deleted_by = None}

\* InternalColumn::prune: an entry goes when its row has no version left.
prune_index ==
    index' = {e \in index : \E v \in versions' : v.row = e.row}

\* Table::filter_visible_index_candidates: any visible version will do, whatever
\* value it holds.
filter_visible_index_candidates(rows, t) ==
    {r \in rows : VisibleVersions(r, t) # {}}

\* Table::lookup_rows_by_column_value, which resolves foreign keys and joins:
\* indexed rows of which t sees some version, or, when the key is absent, a scan
\* that compares values.
lookup_rows_by_column_value(k, t) ==
    LET candidates == {e.row : e \in {f \in index : f.key = Key[k]}}
    IN  IF candidates # {}
        THEN filter_visible_index_candidates(candidates, t)
        ELSE {r \in RowIds : Sees(t, r, k)}

\* Table::search with AccessPath::IndexEquality: the same candidates, each one
\* evaluated against the filter `column = k`.
index_search(k, t) ==
    {r \in lookup_rows_by_column_value(k, t) : Sees(t, r, k)}

-----------------------------------------------------------------------------
IInit ==
    /\ Init
    /\ index = {}
    /\ unindexed = {}
    /\ retagged = {}
    /\ overlapped = FALSE

Begin ==
    /\ NoInsertUnderWay
    /\ create_transaction
    /\ overlapped' = (overlapped \/ active_transaction # {})
    /\ UNCHANGED <<index, unindexed, retagged>>

Commit(t) ==
    /\ NoInsertUnderWay
    /\ commit_transaction(t)
    /\ UNCHANGED <<index, unindexed, retagged, overlapped>>

\* Table::rollback_transaction undoes the index first, then the rows.
Rollback(t) ==
    /\ NoInsertUnderWay
    /\ rollback_transaction(t)
    /\ rollback_index_transaction(t)
    /\ UNCHANGED <<unindexed, retagged, overlapped>>

\* Table::insert_row for a transaction in progress.
Insert(t, k) ==
    /\ t \in active_transaction
    /\ insert_row(t, k)
    /\ ~UniqueConflict(t, k, None)
    /\ update_index(k, next_row_id + 1, t)
    /\ UNCHANGED <<unindexed, overlapped>>

\* Table::insert_row for a transaction that has ended, up to the entry in
\* row_locations, after which everybody finds the row.
PlaceLate(t, k) ==
    /\ t \notin active_transaction
    /\ insert_row(t, k)
    /\ ~UniqueConflict(t, k, None)
    /\ unindexed' = unindexed \cup {next_row_id + 1}
    /\ overlapped' = TRUE
    /\ UNCHANGED <<index, retagged>>

\* The rest of that Table::insert_row, update_indexes_for_row.
IndexLate(r) ==
    /\ r \in unindexed
    /\ unindexed' = unindexed \ {r}
    /\ \E v \in versions : /\ v.row = r /\ v.pos = 1
                           /\ update_index(v.data, r, v.created_by)
    /\ UNCHANGED <<vars, overlapped>>

Delete(t, r) ==
    /\ delete_row(t, r)
    /\ UNCHANGED <<index, unindexed, retagged, overlapped>>

Update(t, r, k) ==
    /\ update_row(t, r, k)
    /\ ~UniqueConflict(t, k, r)
    /\ update_index(k, r, t)
    /\ UNCHANGED <<unindexed, overlapped>>

\* Table::prune_versions, rows and then column index.
Vacuum ==
    /\ NoInsertUnderWay
    /\ auto_vacuum
    /\ prune_index
    /\ UNCHANGED <<unindexed, retagged, overlapped>>

\* Table::build_column_index_from_rows: the rows t sees, without tags.
build_column_index_from_rows(t) ==
    {[key |-> Key[v.data], row |-> v.row, added_by |-> None] :
        v \in {w \in versions : get_versioned_row(w, w.row, t)}}

\* Table::create_column_index on the column: refused unless the index is
\* empty.
CreateIndex(t) ==
    /\ NoInsertUnderWay
    /\ t \in active_transaction
    /\ index = {}
    /\ index' = build_column_index_from_rows(t)
    /\ UNCHANGED <<vars, unindexed, retagged, overlapped>>

INext ==
    \/ Begin
    \/ Vacuum
    \/ \E t \in TxnIds :
          \/ Commit(t)
          \/ Rollback(t)
          \/ CreateIndex(t)
          \/ \E k \in Values : Insert(t, k) \/ PlaceLate(t, k)
          \/ \E r \in RowIds : Delete(t, r)
          \/ \E r \in RowIds, k \in Values : Update(t, r, k)
    \/ \E r \in RowIds : IndexLate(r)

ISpec == IInit /\ [][INext]_ivars

-----------------------------------------------------------------------------
(* Properties                                                              *)

\* The index is a map from (key, row) to tags: the type invariant.
IndexTypeOK ==
    /\ index \subseteq Entry
    /\ unindexed \subseteq late
    /\ retagged \subseteq Nat
    /\ overlapped \in BOOLEAN
    /\ \A e, f \in index : e.key = f.key /\ e.row = f.row => e = f

\* Version v is placed and its insert has not reached the index.
Pending(v) == v.row \in unindexed /\ v.pos = 1

\* Every version that no rollback has undone is found under its key, COPY data
\* that came after the end of its transaction included once its insert is
\* over, unless the tag of one of its row's entries was overwritten: neither
\* the rollback of another transaction nor the vacuum takes its entry away
\* (column.rs:168-265).
LiveVersionsIndexed ==
    \A v \in versions :
        ~Undone(v) /\ ~Pending(v) /\ v.row \notin retagged =>
            \E e \in index : e.key = Key[v.data] /\ e.row = v.row

\* No index entry leads to a row without versions, whose lookup would fail
\* with RowNotFound (table.rs:1295-1304, column.rs:232-265).
NoDanglingEntry ==
    \A e \in index : \E v \in versions : v.row = e.row

\* The index remembers a rolled back transaction only at the rows of COPY data
\* that came after the rollback: a rollback takes away every entry that the
\* transaction has added so far (column.rs:202-230, pg_wire.rs:1685).
TagsNotAborted ==
    \A e \in index : e.added_by \in Aborted => e.row \in late

\* The entry of a version that no rollback has undone carries the tag of its
\* creator, so that no other transaction's rollback takes it away, unless a tag
\* of the row was overwritten (column.rs:168-230).
EntriesTagged ==
    \A v \in versions :
        ~Undone(v) /\ ~Pending(v) /\ v.row \notin retagged =>
            \E e \in index : /\ e.key = Key[v.data] /\ e.row = v.row
                             /\ e.added_by = v.created_by

\* Transactions that run one after the other, and whose data arrives before
\* they end, keep the watermark current and never overwrite a deletion mark
\* (database.rs:213-289).
SerialState ==
    ~overlapped =>
        /\ \A a \in active_transaction : a = next_transaction_id - 1
        /\ WatermarkCurrent
        /\ clobbered = {} /\ late = {}

\* The inductive invariant of the index, on top of MvccInv.
IndexInv ==
    /\ IndexTypeOK
    /\ NoDanglingEntry
    /\ TagsNotAborted
    /\ EntriesTagged
    /\ SerialState

\* Table::referenced_value_exists, the lookup behind a foreign key.
referenced_value_exists(k, t) == lookup_rows_by_column_value(k, t) # {}

\* The rows of which a lookup may miss something: those with an overwritten tag,
\* and those whose late insert is under way.
Unsettled == retagged \cup unindexed

\* A foreign key lookup, which trusts the index and compares no value, decides
\* about keys: a row whose key has not changed is found if and only if the
\* transaction sees it with some value of the key looked up.  So a reference to
\* 0 is satisfied by a row that holds NULL, and no row that holds the value
\* itself is missed.  A row indexed under two keys is found under both,
\* whichever it holds now and whoever wrote it, until the change of key is
\* rolled back or the row is gone.  Unsettled rows are excepted
\* (table.rs:985-1004, 1470-1499, row.rs:90-107, database.rs:177-200).
ForeignKeyExact ==
    \A t \in active_transaction, k \in Values :
        /\ \A r \in RowIds \ Unsettled :
              (\A e, f \in index : e.row = r /\ f.row = r => e.key = f.key) =>
                  (r \in lookup_rows_by_column_value(k, t) <=>
                      \E d \in Values : Key[d] = Key[k] /\ Sees(t, r, d))
        /\ (\E r \in RowIds \ Unsettled : Sees(t, r, k)) =>
              referenced_value_exists(k, t)

\* As long as transactions run one after the other and their data arrives
\* before they end, no transaction sees two rows with the same value, unless an
\* entry was re-tagged (column.rs:286-309).
SerialUnique ==
    ~overlapped =>
        \A t \in Readers :
            \A v, w \in versions :
                /\ get_versioned_row(v, v.row, t)
                /\ get_versioned_row(w, w.row, t)
                /\ v.row # w.row /\ {v.row, w.row} \cap retagged = {}
                => v.data # w.data

\* Searching by index finds the rows that a scan finds, in every interleaving,
\* except for the rows with an overwritten tag and the rows that a COPY is just
\* inserting for a transaction that has ended (table.rs:1264-1293, 1551-1577,
\* 1733-1817).
SearchAgrees ==
    \A t \in active_transaction, k \in Values :
        index_search(k, t) \cup Unsettled
            = {r \in RowIds : Sees(t, r, k)} \cup Unsettled
==============================================================================
