-------------------------------- MODULE Mvcc --------------------------------
(***************************************************************************)
(* The multi-version core of ant-db: the transaction bookkeeping of        *)
(* Database (core/database.rs), the visibility rule of TransactionHeader   *)
(* (core/transaction.rs), and the version chains of Row (core/row.rs).     *)
(*                                                                         *)
(* Every Transaction holds an Arc to the ONE live TransactionSnapshot of   *)
(* the database, so a transaction does not read from a frozen snapshot:    *)
(* is_visible consults the bookkeeping as it is at the moment of the read. *)
(*                                                                         *)
(* Begin, commit and rollback run under the database write lock, and a     *)
(* statement or the vacuum holds the read lock from start to end.  So the  *)
(* bookkeeping never moves during a statement, no other transaction can    *)
(* change what the statement sees, and a statement over several rows is    *)
(* the sequence of its row operations, freely interleaved with the row     *)
(* operations of other transactions and with the vacuum.                   *)
(***************************************************************************)
EXTENDS Naturals

CONSTANTS
    Values,         \* what a row may hold
    MaxTxns,        \* bound: transactions begun
    MaxRows,        \* bound: row ids handed out
    MaxVersions     \* bound: length of one row's version chain

ASSUME BoundsAssumption ==
    MaxTxns \in Nat /\ MaxRows \in Nat /\ MaxVersions \in Nat

VARIABLES
    next_transaction_id,   \* Database.next_transaction_id
    active_transaction,    \* TransactionSnapshot.active_transaction
    last_possible,         \* TransactionSnapshot.last_possible_transaction_id
    smallest_active,       \* TransactionSnapshot.smallest_active_transaction_id
    next_row_id,           \* Table.next_row_id
    versions,              \* the InternalRows of every Row
    committed,             \* history: the transactions that committed
    clobbered,             \* history: the rows on which one transaction has
                           \* overwritten the deletion mark of another
    late                   \* history: the rows inserted for a transaction
                           \* that had already ended

snapshot == <<active_transaction, last_possible, smallest_active>>
vars == <<next_transaction_id, snapshot, next_row_id, versions,
          committed, clobbered, late>>

-----------------------------------------------------------------------------
(* Version headers and visibility                                          *)

\* Option::None of TransactionHeader.deleted_by; transaction ids start at 1.
None == 0

\* An InternalRow.  `pos` is its place in the row's versions vector, which
\* only grows at the end; pruning leaves holes that nothing observes.
Version == [row : Nat, pos : Nat \ {0}, created_by : Nat, deleted_by : Nat,
            data : Values]

\* Mutant: the versions of transactions in progress are not hidden.
DirtyVisible(v, t) ==
    IF v.created_by = t
    THEN v.deleted_by # t
    ELSE /\ v.created_by <= last_possible
         /\ \/ v.deleted_by = None
            \/ /\ v.deleted_by # t
               /\ v.deleted_by >= smallest_active
               /\ \/ v.deleted_by > last_possible
                  \/ v.deleted_by \in active_transaction

\* Mutant: a deleter still in progress already hides the version.
EagerDeleteVisible(v, t) ==
    IF v.created_by = t
    THEN v.deleted_by # t
    ELSE /\ v.created_by <= last_possible
         /\ v.created_by \notin active_transaction
         /\ \/ v.deleted_by = None
            \/ v.deleted_by # t /\ v.deleted_by > last_possible

\* TransactionHeader::is_visible, for a reader with transaction id t.
is_visible(v, t) ==
    IF v.created_by = t
    THEN v.deleted_by # t
    ELSE /\ v.created_by <= last_possible
         /\ v.created_by \notin active_transaction
         /\ \/ v.deleted_by = None
            \/ /\ v.deleted_by # t
               /\ v.deleted_by >= smallest_active
               /\ \/ v.deleted_by > last_possible
                  \/ v.deleted_by \in active_transaction

VisibleVersions(r, t) == {v \in versions : v.row = r /\ is_visible(v, t)}

\* Row::get_versioned_row: v is the youngest version of row r that t sees.
get_versioned_row(v, r, t) ==
    /\ v \in VisibleVersions(r, t)
    /\ \A w \in VisibleVersions(r, t) : w.pos <= v.pos

-----------------------------------------------------------------------------
(* Operations on version chains                                            *)

\* The version Row::new or Row::update pushes.
NewVersion(r, p, t, d) ==
    [row |-> r, pos |-> p, created_by |-> t, deleted_by |-> None, data |-> d]

\* p is the next free place at the end of row r's chain.
EndOfChain(r, p) ==
    /\ \A w \in versions : w.row = r => w.pos < p
    /\ p = 1 \/ \E w \in versions : w.row = r /\ w.pos = p - 1

\* Mutant: the superseded version is not marked.
MarkNothing(v, t) == versions

\* The loop shared by Row::remove and Row::update that marks a version.
MarkDeleted(v, t) ==
    (versions \ {v}) \cup {[v EXCEPT !.deleted_by = t]}

\* History: marking v replaces the mark another transaction left there.
NoteClobber(v) ==
    clobbered' = clobbered \cup (IF v.deleted_by = None THEN {} ELSE {v.row})

\* Mutant: a rollback does not withdraw its deletion marks.
RolledBackKeepingMarks(v, t) ==
    IF v.created_by = t /\ v.deleted_by = None
    THEN [v EXCEPT !.deleted_by = t]
    ELSE v

\* Row::rollback_transaction, on one version.
RolledBack(v, t) ==
    CASE v.created_by = t /\ v.deleted_by = None -> [v EXCEPT !.deleted_by = t]
      [] v.created_by # t /\ v.deleted_by = t    -> [v EXCEPT !.deleted_by = None]
      [] OTHER                                   -> v

\* Mutant: pruning also takes what the oldest transaction has deleted.
SurvivesTooLittle(v, oldest) ==
    v.deleted_by = None \/ v.deleted_by > oldest

\* Row::prune keeps a version unless it was deleted before `oldest`.
Survives(v, oldest) == v.deleted_by = None \/ v.deleted_by >= oldest

-----------------------------------------------------------------------------
Init ==
    /\ next_transaction_id = 1
    /\ active_transaction = {}
    /\ last_possible = 0
    /\ smallest_active = 0
    /\ next_row_id = 0
    /\ versions = {}
    /\ committed = {}
    /\ clobbered = {}
    /\ late = {}

\* Database::create_transaction.
create_transaction ==
    /\ next_transaction_id <= MaxTxns
    /\ next_transaction_id' = next_transaction_id + 1
    /\ active_transaction' = active_transaction \cup {next_transaction_id}
    /\ UNCHANGED <<last_possible, smallest_active, next_row_id, versions,
                   committed, clobbered, late>>

\* Mutant: the horizon jumps to the idle value although others are active.
HorizonIdle(still, idle, h) == h = idle

\* The horizon after a transaction has left `still`: its least member, or
\* `idle` when no transaction is left.
HorizonOf(still, idle, h) ==
    IF still = {} THEN h = idle
                  ELSE h \in still /\ \A a \in still : h <= a

\* Database::commit_transaction.  The watermark becomes t even when a younger
\* transaction has committed before.
commit_transaction(t) ==
    /\ t \in active_transaction
    /\ active_transaction' = active_transaction \ {t}
    /\ last_possible' = t
    /\ \E h \in (active_transaction \ {t}) \cup {t} :
          /\ HorizonOf(active_transaction \ {t}, t, h)
          /\ smallest_active' = h
    /\ committed' = committed \cup {t}
    /\ UNCHANGED <<next_transaction_id, next_row_id, versions, clobbered, late>>

\* Database::rollback_transaction, with Table and Row::rollback_transaction.
rollback_transaction(t) ==
    /\ t \in active_transaction
    /\ active_transaction' = active_transaction \ {t}
    /\ versions' = {RolledBack(v, t) : v \in versions}
    /\ \E h \in (active_transaction \ {t}) \cup {last_possible} :
          /\ HorizonOf(active_transaction \ {t}, last_possible, h)
          /\ smallest_active' = h
    /\ UNCHANGED <<next_transaction_id, last_possible, next_row_id,
                   committed, clobbered, late>>

\* Table::insert_row with Row::new.  Nothing checks that t is in progress: the
\* data of a COPY arrives with the Transaction its session took when the COPY
\* statement ran, and a COMMIT or ROLLBACK later in the same batch has ended
\* that transaction before (on_copy_done of core/pg_wire.rs).  Every
\* transaction may have opened a COPY, so t is any transaction begun.
insert_row(t, d) ==
    /\ t < next_transaction_id
    /\ next_row_id < MaxRows
    /\ MaxVersions > 0
    /\ next_row_id' = next_row_id + 1
    /\ versions' = versions \cup {NewVersion(next_row_id + 1, 1, t, d)}
    /\ late' = late \cup (IF t \in active_transaction THEN {} ELSE {next_row_id + 1})
    /\ UNCHANGED <<next_transaction_id, snapshot, committed, clobbered>>

\* Table::delete_row with Row::remove, on a row the statement's search found.
delete_row(t, r) ==
    /\ t \in active_transaction
    /\ \E v \in versions :
          /\ get_versioned_row(v, r, t)
          /\ versions' = MarkDeleted(v, t)
          /\ NoteClobber(v)
    /\ UNCHANGED <<next_transaction_id, snapshot, next_row_id, committed, late>>

\* Table::update_row with Row::update, on a row the statement's search found.
update_row(t, r, d) ==
    /\ t \in active_transaction
    /\ \E v \in versions, p \in 1..MaxVersions :
          /\ get_versioned_row(v, r, t)
          /\ EndOfChain(r, p)
          /\ versions' = MarkDeleted(v, t) \cup {NewVersion(r, p, t, d)}
          /\ NoteClobber(v)
    /\ UNCHANGED <<next_transaction_id, snapshot, next_row_id, committed, late>>

\* Database::auto_vacuum: remove_stray_tables reads the horizon once and
\* prunes every row with it; rows left without a version disappear.
auto_vacuum ==
    /\ versions' = {v \in versions : Survives(v, smallest_active)}
    /\ UNCHANGED <<next_transaction_id, snapshot, next_row_id, committed,
                   clobbered, late>>

RowIds == 1..MaxRows
TxnIds == 1..MaxTxns

Next ==
    \/ create_transaction
    \/ auto_vacuum
    \/ \E t \in TxnIds :
          \/ commit_transaction(t)
          \/ rollback_transaction(t)
          \/ \E d \in Values : insert_row(t, d)
          \/ \E r \in RowIds : delete_row(t, r)
          \/ \E r \in RowIds, d \in Values : update_row(t, r, d)

Spec == Init /\ [][Next]_vars

-----------------------------------------------------------------------------
(* Properties                                                              *)

\* Every variable has its type: the type invariant of this module.
TypeOK ==
    /\ next_transaction_id \in Nat \ {0}
    /\ active_transaction \subseteq Nat
    /\ last_possible \in Nat
    /\ smallest_active \in Nat
    /\ next_row_id \in Nat
    /\ versions \subseteq Version
    /\ committed \subseteq Nat
    /\ clobbered \subseteq Nat
    /\ late \subseteq Nat

\* The transactions whose view matters: those in progress and the next one.
Readers == active_transaction \cup {next_transaction_id}

Begun == 1..(next_transaction_id - 1)
Aborted == Begun \ (active_transaction \cup committed)

\* Version v was inserted for a transaction that had already ended.  Updates
\* of the row start from transactions in progress again.
Late(v) == v.row \in late /\ v.pos = 1

\* Version v was there when its creator rolled back.
Undone(v) == v.created_by \in Aborted /\ ~Late(v)

\* No committed transaction lies above the watermark.  It fails after two
\* transactions commit in the reverse order of their ids, until a younger
\* one commits.
WatermarkCurrent == \A c \in committed : c <= last_possible

\* No dirty reads, with one exception: whatever is_visible lets a transaction
\* see was written by that transaction, by a committed one, or by a COPY whose
\* data came after its transaction had ended, in every interleaving of commits,
\* rollbacks, overwritten deletion marks and vacuums (transaction.rs:36-71,
\* pg_wire.rs:1685).
NoDirtyRead ==
    \A v \in versions, t \in active_transaction :
        is_visible(v, t) => v.created_by \in committed \cup {t} \/ Late(v)

\* While the watermark is current, is_visible decides exactly this relation: a
\* version is seen if and only if its creator is the reader or committed and
\* its deleter is neither.  COPY data that came after its transaction had
\* rolled back is seen as if it were committed, once the watermark has reached
\* that transaction (transaction.rs:36-71, pg_wire.rs:1685).
VisibilityExact ==
    WatermarkCurrent =>
        \A v \in versions, t \in active_transaction :
            is_visible(v, t) <=>
                /\ \/ v.created_by \in committed \cup {t}
                   \/ Late(v) /\ v.created_by <= last_possible
                /\ v.deleted_by \notin committed \cup {t}

\* While the watermark is current, a row on which no transaction has
\* overwritten another's deletion mark shows at most one version to any
\* transaction, the next one to begin included: the update that pushed the
\* younger version hid the older one (row.rs:215-236, transaction.rs:36-71).
SingleVisibleVersion ==
    WatermarkCurrent =>
        \A v, w \in versions :
            v.row = w.row /\ v # w /\ v.row \notin clobbered =>
                \A t \in Readers :
                    ~(is_visible(v, t) /\ is_visible(w, t))

\* What transaction t sees, as places in version chains.
View(t) == {<<v.row, v.pos>> : v \in {w \in versions : is_visible(w, t)}}

\* Transaction t writes in this step: it leaves its mark on some version.
Writes(t) ==
    \E v \in versions' \ versions : v.created_by = t \/ v.deleted_by = t

\* Isolation of one step: what a transaction sees of the rows without
\* overwritten marks changes only by its own writes, by another's commit, or by
\* the arrival of COPY data for a transaction that has ended, and then in the
\* new row alone; beginning, uncommitted writing, rolling back and vacuuming
\* are invisible to the others (database.rs:213-314, row.rs:206-259,
\* pg_wire.rs:1685).  A rollback also moves the horizon, which matters only
\* while the watermark is stale.
ViewStable ==
    [][\A t \in active_transaction \cap active_transaction' :
         (WatermarkCurrent /\ committed' = committed /\ ~Writes(t)) =>
             \A x \in RowIds \X (1..MaxVersions) :
                 \/ x[1] \in clobbered' \cup (late' \ late)
                 \/ x \in View(t)' <=> x \in View(t)]_vars

\* The vacuum removes only versions that no transaction in progress and no
\* transaction begun next can see: "no longer visible to any active
\* transaction" (table.rs:1862, row.rs:238-243), stale watermark or not.
VacuumInvisible ==
    [][\A v \in versions \ versions' :
         (\A w \in versions' : <<w.row, w.pos>> # <<v.row, v.pos>>) =>
             \A t \in Readers :
                 ~is_visible(v, t)]_vars

\* The bookkeeping that the visibility rule rests on: ids of transactions and of
\* rows in use are below the next one, and the vacuum's horizon never passes a
\* transaction in progress (database.rs:213-289, table.rs:1275).
Bookkeeping ==
    /\ active_transaction \subseteq Begun
    /\ committed \subseteq Begun
    /\ active_transaction \cap committed = {}
    /\ last_possible \in committed \cup {0}
    /\ smallest_active < next_transaction_id
    /\ \A a \in active_transaction : smallest_active <= a
    /\ \A r \in late : r <= next_row_id

\* What a header may say, given the fate of the transactions it names: a
\* rolled back creator has marked the versions that its rollback met, a rolled
\* back deleter has withdrawn its mark, and nobody else marks the version of a
\* transaction in progress.  A version inserted for a transaction that had
\* ended never gets that transaction's mark, whichever way it ended
\* (row.rs:206-259, pg_wire.rs:1685).
HeadersConsistent ==
    \A v \in versions :
        /\ v.created_by \in Begun
        /\ v.deleted_by \in Begun \cup {None}
        /\ v.created_by \in active_transaction =>
              v.deleted_by \in {None, v.created_by}
        /\ Undone(v) => v.deleted_by = v.created_by
        /\ v.deleted_by \in Aborted => v.deleted_by = v.created_by
        /\ Late(v) => /\ v.created_by \notin active_transaction
                      /\ v.deleted_by # v.created_by

\* A place in a chain holds one version, of a row id already handed out
\* (table.rs:1275, row.rs:229-235).
PlacesUnique ==
    \A v \in versions :
        /\ v.row <= next_row_id
        /\ \A w \in versions : v.row = w.row /\ v.pos = w.pos => v = w

\* Row ids and places stay within the bounds of the instance.
WithinBounds ==
    /\ next_row_id <= MaxRows
    /\ \A v \in versions : v.row \in RowIds /\ v.pos \in 1..MaxVersions
    /\ \A r \in clobbered : r <= next_row_id

\* On a row without overwritten marks, a version that a live younger version
\* has superseded carries the mark of the younger one's creator or of a
\* committed transaction (row.rs:215-236).
SupersededIsMarked ==
    \A v, w \in versions :
        /\ v.row = w.row /\ v.pos < w.pos /\ v.row \notin clobbered
        /\ ~Undone(v) /\ ~Undone(w)
        => v.deleted_by \in committed \cup {w.created_by}

\* The inductive invariant that the other properties follow from.
MvccInv ==
    /\ TypeOK
    /\ Bookkeeping
    /\ HeadersConsistent
    /\ PlacesUnique
    /\ WithinBounds
    /\ SupersededIsMarked

\* A version that a transaction wrote before it committed, and that nobody
\* deleted, is visible to the next transaction that begins: it cannot have been "created after
\* snapshot", the reason is_visible gives for rejecting a creator above the
\* watermark (transaction.rs:43-45).
CommittedIsVisible ==
    \A v \in versions :
        v.created_by \in committed /\ ~Late(v) /\ v.deleted_by = None =>
            is_visible(v, next_transaction_id)

\* The rows of which nothing is claimed: those with an overwritten deletion
\* mark and those inserted for a transaction that had ended.
Untracked == clobbered \cup late

\* What is committed in row r, whatever the watermark says.
CommittedData(r) ==
    {v.data : v \in {w \in versions : /\ w.row = r /\ r \notin Untracked
                                     /\ w.created_by \in committed
                                     /\ w.deleted_by \notin committed}}

\* The rows transaction t has left its mark on, and what it made of row r.
WrittenBy(t) ==
    {v.row : v \in {w \in versions : w.created_by = t \/ w.deleted_by = t}}
        \ Untracked
DataBy(t, r) ==
    {v.data : v \in {w \in versions : /\ w.row = r /\ w.created_by = t
                                     /\ w.deleted_by # t}}

\* The abstract table that the version chains stand for: what is committed, and
\* what each transaction in progress has written.
dbBar == [r \in RowIds |-> CommittedData(r)]
localBar ==
    [t \in active_transaction |-> [r \in WrittenBy(t) |-> DataBy(t, r)]]

\* The version chains implement read committed transactions: every begin,
\* write, commit and rollback is one step of the abstract table, the vacuum and
\* the vagaries of watermark and horizon are none, and a commit publishes all
\* writes of its transaction at once, on every row whose deletion marks no two
\* transactions have overwritten.  A row inserted for a transaction that had
\* ended is given up as it appears (database.rs:213-314, row.rs:206-259,
\* pg_wire.rs:1685).
Abstract == INSTANCE ReadCommitted WITH
    Rows <- RowIds, Txns <- TxnIds, lost <- Untracked,
    db <- dbBar, local <- localBar
ImplementsReadCommitted == Abstract!Spec
=============================================================================
