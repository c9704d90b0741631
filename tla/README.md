# A TLA+ development of ant-db

ant-db is a small PostgreSQL-compatible database server in Rust: a pgwire front
end, a planner, tables of multi-version rows on pages that can be evicted to a
page file, hash indexes, and snapshots from which it restarts. This directory
holds TLA+ modules that model it, TLC configurations that check them, and TLAPS
proofs about all of them but the ones for queries and COPY texts.

`PROJECT.json` lists the components, the runs, the line each definition models,
the mutants that each property catches, the hazards and the findings.

## 1. The system

| Component | State | Operations | Interacts with |
|---|---|---|---|
| Transactions (`database.rs`, `transaction.rs`) | next transaction id; one live `TransactionSnapshot`: active set, watermark (`last_possible_transaction_id`), horizon (`smallest_active_transaction_id`) | begin, commit, rollback | every `Transaction` holds an `Arc` to the same snapshot |
| Row versions (`row.rs`) | per row a chain of versions with `created_by`, `deleted_by` | new, update, remove, rollback, prune, visible version | reads the snapshot |
| Columns and indexes (`column.rs`) | a chain of column versions; hash index key -> rows, `index_added_by` tags | validate, update index, rollback, prune, add constraint, drop | visibility through the table |
| Table and page cache (`table.rs`) | resident pages, row locations, LRU list, memory counter, ids | insert, update, delete, search, load, evict, rollback, prune, compact, flush | page store; statements share the table's read lock |
| Page store (`page_store.rs`) | one file per table: header, index, pages; index and offsets in memory | merge a page, read a page, rewrite all | called by eviction, loading and flush |
| Sessions (`pg_wire.rs`) | address -> open transaction, address -> COPY session, the `txn_lifecycle` mutex | BEGIN, COMMIT, ROLLBACK, statements, DDL, COPY | `RwLock<Database>`: begin/commit/rollback/DDL write, statements read |
| Background task and restart (`handler.rs`, `main.rs`, `database.rs`) | snapshot file | vacuum, flush, save, load | holds the database read lock |
| Planner and execution (`plan/`, `query.rs`, `search.rs`) | none | choose access path, filter, join, sort, assign, coerce | `Table::search`, `insert_row`, `update_row`, `delete_row` |
| COPY format (`copy.rs`), values (`row.rs`, `plan/dml.rs`) | none | encode, parse, compare, convert | COPY sessions |

What is hard in it: statements of several connections interleave row by row
under a shared lock; commits come in any order; deletion marks are overwritten;
the vacuum works beside statements; pages leave memory while threads still hold
them; a flush replaces the file beside evictions and loads; locks are taken
twice, in two orders; CREATE and DROP TABLE are not transactional although
columns are; COPY spreads one statement over several messages; the process stops
between two file writes, or in the middle of a file header; index entries
outlive the values they were made for.

## 2. Modules

| Module | Models | Extends |
|---|---|---|
| `Mvcc` | transaction bookkeeping, visibility, version chains, vacuum | - |
| `ReadCommitted` | abstract: what `Mvcc` promises | - |
| `MvccProofs` | TLAPS proofs about `Mvcc`, among them that it implements `ReadCommitted` | `Mvcc` |
| `UniqueIndex`, `MCUniqueIndex` | one UNIQUE column: hash index, validation, index search, foreign key lookup; MC: the values and keys of `DataEntry` | `Mvcc` |
| `UniqueIndexProofs`, `SchemaProofs`, `RecoveryProofs` | TLAPS proofs about `UniqueIndex`, `Schema`, `Recovery` | the module, `MvccProofs` |
| `Schema` | tables and versioned columns: CREATE, DROP, ALTER, CREATE INDEX, DROP INDEX | `Mvcc` |
| `Recovery`, `MCRecovery` | background task, shutdown, crash, reload of one table | `Mvcc` |
| `PageCache`, `MCPageCache` | pages, eviction, loading, rollback, vacuum and flush of one table | - |
| `PageCacheProofs` | TLAPS proofs about `PageCache` | `PageCache` |
| `PageFile`, `MCPageFile` | the bytes of the page file and the store in front of it | - |
| `PageMap` | abstract: what `PageFile` promises | - |
| `PageFileProofs` | TLAPS proofs about `PageFile`, among them that it implements `PageMap` | `PageFile` |
| `Locks` | lock requests of every operation: database, tables, columns, row_space, pages | - |
| `LocksProofs` | TLAPS proofs about `Locks` | `Locks` |
| `Session` | connections, transactions of sessions, COPY, the database lock | - |
| `SessionProofs` | TLAPS proofs about `Session` | `Session` |
| `DataEntry` | values, literals, arithmetic, coercion | - |
| `CopyFormat` | the text format of COPY | `DataEntry` |
| `Query`, `MCQuery` | planning and execution of statements on one table | `CopyFormat` |

### Mvcc and ReadCommitted

The variables are the fields of `Database` and `TransactionSnapshot`, and the
set of all row versions with their place in the row's chain. There is one action per
operation, under the source's name. Begin, commit and rollback run under the
database write lock; a statement and the vacuum hold the read lock from start to
end, so the bookkeeping does not move during a statement and a statement over
several rows is the sequence of its row operations. Three history variables:
`committed`; `clobbered`, the rows on which one transaction has
overwritten another's deletion mark, which the code does not prevent; and
`late`, the rows inserted for a transaction that had already ended.
`Table::insert_row` does not ask whether its transaction is in progress, and
`on_copy_done` calls it with the transaction of a COPY FROM that a COMMIT or
ROLLBACK later in the same batch has ended, so `insert_row(t, d)` is enabled for
every `t` begun. Updates and deletions only come from statements, which run in a
transaction in progress.

The visibility rule is intended to be "creator committed or me, deleter
neither". The code decides it from the watermark, the active set and the
horizon; `VisibilityExact` says that this is the same while no committed
transaction lies above the watermark (`WatermarkCurrent`), but for rows in `late`, which
count as committed once the watermark has reached their transaction, rolled back or
not. It is false after
commits in reverse order of ids (run `mvcc_commit_order`); `NoDirtyRead` and
`VacuumInvisible` hold even then.

`ReadCommitted` is a table without versions: a transaction collects its writes,
publishes them all when it commits and drops them when it rolls back.
`Mvcc!ImplementsReadCommitted` maps the headers of the versions to it
(`dbBar`: what is committed; `localBar`: what each transaction in progress has
written). The abstract table gives a row up when two transactions in progress
write it, or when it appears for a transaction that has ended (`Untracked`).

### UniqueIndex

Adds the index as a set of (key, row, tag) entries. The key of an entry is
`Key[value]`, where the constant `Key` is any map from values to naturals:
`DataEntry`'s keys are not injective, and `MCUniqueIndex` takes them from there.
Insert and update validate, write and index in one step; the header comment argues why the
separate locks lose no behaviour. An insert for an ended transaction is two steps,
`PlaceLate` and `IndexLate`, because its row is visible to others before it is in the index;
`unindexed` holds the rows in between. `retagged` records the rows with an entry whose tag
was overwritten: there the code loses entries on rollback, and the index
properties are stated for all other rows. `ForeignKeyExact` is about the lookup
that a referencing table makes. It compares no value, so it decides about keys: it is
exact for rows that are indexed under one key only, and misses no row that holds the
value. `index_search` compares values, and so agrees with a scan (`SearchAgrees`)
however values share keys.

### Schema

A column is a chain of versions with the headers of a row, so `versions` of
`Mvcc` holds column versions here, and begin, commit, rollback and vacuum are
those of `Mvcc`. The map of tables has no versions. A CREATE TABLE may fail
after any of its columns; ALTER TABLE and CREATE INDEX look the table up in one
step and work on it in another, with DROP TABLE possible in between. `Values`
of `Mvcc` has to hold the data of column versions (`SchemaAssumption`).

### PageCache

Each action is one critical section: of `row_space`, of a page, or of the store.
Pages live in a heap of frames, because a thread may keep an `Arc` to a page
that has left `row_space`. The content of a row is the set of transactions whose
writes it carries, and `truth` records what completed statements wrote. `torn`
collects rows that met one of the windows the code leaves open (a stale
copy loaded while the victim is being written, a write to a frame that is
no longer resident, a clean page evicted with a rollback in it, a flush that
undoes a merge); `RowsIntact` says there is no other way to lose a first write, and
`SafeWithoutLimit` that none of them exists without a memory limit. After the
first torn row the properties claim nothing: a page may then have two copies in
memory, and a write to either of them can be lost without a further race.

### PageFile and PageMap

The file is a header and cells at offsets; a page is one cell, an index one cell
per entry. A merge is eight steps under the store's mutex, one for each write,
the fields of the header included; a flush lists, copies, writes the temporary file,
renames it and publishes its index. `damaged` is set by what really breaks the
file: a merge that fails after its page is written, a merge that meets a
rewrite, a crash inside the header. The properties say there is nothing else,
and `ImplementsPageMap` that until then the file is a map which every merge and
every flush changes in one step.

### Locks

An operation is written as the sequence of its lock requests, `R` and `W`, each
with the number of locks that are held when it is made (what was taken after those has
been released), and `Maybe` for a part that some paths leave out. `RwLock` is not reentrant, and a queued writer keeps new readers out.
The locks are those of the database, a table, another one, two columns,
`row_space` and the pages.

### Session

A thread per connection, its program counter at each lock acquisition.
`RwLock` is modelled as in `Locks`. `lost` records the transactions left behind at the
three places that forget them: a COPY FROM that does not resolve, a second COPY FROM
in one batch, and a connection that closes before it has sent its COPY data.
`Held(c)` is what a connection refers to, `CanEnd(c)` what it can still end: a
session that nobody will send data to is in the first and not in the second.
`OpenTransactionsOwned` says that every other open transaction is in the second.

### Recovery

Composes `Mvcc` with a page file, a snapshot file and the steps of the
background task and of the shutdown; statements write rows between these steps,
and COPY inserts rows for transactions that have ended (`late`),
but no transaction begins or ends. The table may be dropped and created again over
the old page file. The server stops after any step and reloads.
`newer` marks a page file rewritten after the last save, `stale` a flush
that had no page to write, `replaced` a page file left by a dropped table; the
reload properties say which of these they exclude. Late rows are the one thing
that the snapshot may count as committed and the page file lack; those that the
save has seen (`fate.late`) come back after a reload even if their transaction was rolled back.

### DataEntry, CopyFormat and Query

Pure functions as operators: comparison by variant, index keys, coercion with
scaled-down integer widths, `COPY` escapes character by character, expressions,
the choice of the access path, search, joins. `Query` puts them in motion:
statements of one transaction insert, update, delete and copy rows, so that the
index collects stale entries and rows without the indexed column, and the
properties compare every answer with a definition by quantifiers over the rows.
Several transactions are the business of `Mvcc` and `UniqueIndex`.

## 3. Runs

| Run | Bounds | What it shows |
|---|---|---|
| `mvcc` | 4 transactions, 1 row, 3 versions | the inductive invariant, no dirty reads, exact visibility, one visible version, isolation of each step, the vacuum removes nothing visible; implements `ReadCommitted` |
| `mvcc_commit_order` | 3 transactions, 1 row, 2 versions | *violation*: a late commit lowers the watermark and hides committed rows |
| `unique_index` | 2 rows, 2 versions; 2 transactions with the values 0, 1 and NULL and any late rows; a third one without NULL, late and re-tagged rows | the index finds every live version; no entry leads nowhere; index search equals scan, and foreign key lookups decide about keys, though NULL and 0 share one; no duplicates between transactions that do not overlap |
| `pages_concurrent` | 2 workers and the task, 2 pages, 2 rows, limit 0 or 2 | no lost or doubled rows outside the recorded windows |
| `pages_sequential` | 1 worker, 3 pages, one overflowing row, 2 transactions | no lost writes with overflow chains and rollbacks |
| `page_file` | 2 threads, 2 pages, 2 merges, 1 read, 1 flush, 1 crash | the store agrees with its file, reads return what was located, a crash is all or nothing, a returned write holds; implements `PageMap` |
| `locks` | 3 threads with any 3 of 13 operations, 2 pages | only four nested operations can deadlock; without them everybody finishes |
| `session` | 2 addresses, 4 requests | transactions are ended once and by their owner, which every open one has but for three recorded leaks; COPY data finds its session; requests are answered |
| `recovery` | 3 transactions, 1 row, 2 versions, 1 DROP TABLE, the drop while two transactions have begun | what a reload recovers, wherever the server stopped; what never comes back |
| `schema` | 2 transactions, 2 names, 3 tables, 1 index name | the visible columns are the declared ones; indexes follow constraints; foreign keys keep their target |
| `query` | 4 statements, integers up to 2, four texts, four COPY targets, nine filters, six joins | index path and scan agree, with order, offset, limit and COUNT(*); joins return each pair once; COPY restores what it wrote |
| `query_literal` | the same, 2 statements | *violation*: `WHERE id = 1` misses row 1 of a BIGINT column |

Why the bounds are enough. In `Mvcc` the rows are independent of one another
and the rule compares at most a reader, a creator and a deleter with the
watermark and one more active transaction: four transactions on one row.
`UniqueIndex` needs two rows for a conflict and a third transaction to observe
it; `MCUniqueIndex!SimplerWithThree` takes NULL, late and re-tagged rows with two
transactions only, one that ends and one that observes, and `MCRecovery!NoDropWithThree`
the dropped table, which needs one transaction that wrote to it and one that writes to its successor.
The proofs know neither of these limits.
`PageCache` needs one page more than fits the limit and two workers to race
on one page; `MCPageCache!NoneTorn` stops a behaviour after its first torn
row, as nothing is claimed of it afterwards, and `MCPageFile!BeforeDamage` does
the same for a damaged file. `PageFile` needs two merges for one to write where
the other did, a read and a flush beside them, and a crash in any of it. A lock
cycle of readers and a queued writer needs three threads. `Session` needs two
connections for any lock cycle, and four requests for BEGIN, COPY FROM, COPY FROM, COMMIT in one
batch. `Schema` needs two names for a reference, and a third table id for
one that is dropped and created again. In `Query` one insert, one update that
changes a key, and one COPY out and in are four statements; the texts are those
that collide with the null string, the escapes and the delimiters. `Modulus` stands for 2^64 and is larger than the memory of all pages;
`MaxI32` and `MaxI64` are 1 and 2.
Every bound is a named constant in an action's guard.

Symmetry: names of tables (`Schema`), threads and data (`PageFile`); neither run
checks liveness.

Deadlock checking is off where the bounds on transactions, statements or requests end
every behaviour, and in `session` and `locks` also because the code really can block.

Fairness. `Session` states `WF_vars(Work(c))`, a thread that can
take a step takes it, which the operating system and the tokio runtime
provide. Clients are under no fairness, and no fairness of the locks is assumed: the number
of requests is finite, so nobody is overtaken for ever. `RequestsAnswered` has
as premise that no foreign key lookup blocks for ever. `Locks` states
`WF_vars(Next)`: as long as some thread can go on, some thread does.
`EveryoneFinishes` has as premise that none of the nested operations runs.

## 4. Proofs

Every theorem is about the full specification of its module, for every value of
the constants. The assumptions are that the bounds are naturals
(`BoundsAssumption`), for `UniqueIndex` that keys are naturals (`KeyAssumption`), for
`Schema` that Mvcc's `Values` hold the data of
columns (`SchemaAssumption`), for `PageFile` that page ids are naturals, that
a table has finitely many of them, and that the markers for an absent page, an
unreadable one and a free mutex are none of the values they stand beside
(`FileAssumption`), for `PageCache` that sizes and bounds are naturals, that a row and a
page have a size, and that there are finitely many workers, the background task
not among them (`PageAssumption`), and for `Locks` that threads and pages are
numbers and a table has pages, finitely many (`LocksAssumption`); `Session` has
none. TLC evaluates all of them. Each module has one inductive
invariant, a conjunction of named parts. TLC checked each of them before it was
proved; `mvcc` and `unique_index` keep theirs as invariants of the run, the
other runs keep the properties that follow from it.

| Module | Theorem | States |
|---|---|---|
| `MvccProofs` | `Invariance` | `[]MvccInv` |
| | `NoDirtyReads`, `ExactVisibility`, `OneVersionVisible` | `[]NoDirtyRead`, `[]VisibilityExact`, `[]SingleVisibleVersion` |
| | `VacuumIsInvisible`, `StableViews` | the action properties `VacuumInvisible`, `ViewStable` |
| | `ImplementsTable` | the refinement `ImplementsReadCommitted` |
| `UniqueIndexProofs` | `IndexInvariance` | `[]IndexInv` |
| | `LiveVersionsAreIndexed`, `IndexSearchIsScan`, `ForeignKeysExact`, `SerialKeysUnique` | `[]LiveVersionsIndexed`, `[]SearchAgrees`, `[]ForeignKeyExact`, `[]SerialUnique` |
| `SchemaProofs` | `SchemaInvariance` | `[]SchemaInv` |
| | `SchemaIsAsDeclared`, `ForeignKeysKeepTargets`, `IndexesGoWithConstraints` | `[]SchemaAsDeclared`, `[]ReferencesHold`, `[]IndexesFollowConstraints` |
| `RecoveryProofs` | `RecoveryInvariance` | `[]RecoveryInv` |
| | `PagesBeforeSnapshot`, `RestartIsExact`, `RestartIdsFresh`, `NothingComesBack` | `[]SnapshotNotAhead`, `[]RestartCommitsOpen`, `[]IdsNotReused`, `[]NothingResurrected` |
| `PageFileProofs` | `FileInvariance` | `[]FileInv` |
| | `StoreIsFile`, `ReadsAreExact` | `[]StoreMatchesFile`, `[]ReadsReturnLocated` |
| | `CrashAllOrNothing`, `AcknowledgedWritesHold` | the action properties `CrashIsAllOrNothing`, `AcknowledgedHolds` |
| | `ImplementsMap` | the refinement `ImplementsPageMap` |
| `SessionProofs` | `SessionInvariance` | `[]SessionInv` |
| | `TransactionsOwned`, `TransactionsEndOnce`, `StatementsInOwnTransaction`, `CopyDataExpected` | `[]OpenTransactionsOwned`, `[]EndedOnce`, `[]RunsInOwnOpenTransaction`, `[]CopySessionReady` |
| `PageCacheProofs` | `PageInvariance`, `PageTypes` | `[]PageInv`, `[]TypeOK` |
| | `RowsAreIntact`, `ScansMeetRowsOnce`, `SafeWithoutMemoryLimit` | `[]RowsIntact`, `[]ScanMeetsRowsOnce`, `[]SafeWithoutLimit` |
| | `UnlimitedKeepsEveryWrite` | without a limit every completed write is on the resident copy of its page |
| `LocksProofs` | `LockInvariance` | `[]LockInv` |
| | `DeadlocksAreNested` | `[]DeadlockNeedsNesting` |

**Mvcc.** None of the state properties after the first is inductive. Visibility
depends on what a header may
say given the fate of the transactions it names: a rolled back creator has marked
the versions that were there when it rolled back (`Undone`), a rolled back deleter has
withdrawn its mark, nobody else marks the version of a transaction in progress, and
a version that came after its creator had ended (`Late`) never gets the creator's mark
(`HeadersConsistent`); and on
the horizon never passing an active transaction (`Bookkeeping`). These two and
`TypeOK` are inductive together with `PlacesUnique` (`StepInv`, `StepPlaces`), which
keeps a late version from sharing its place. `SupersededIsMarked` is inductive on top
(`StepSuperseded`): the link
between two versions of a row from which `OneVersionVisible` follows. If both
were visible the younger one's creator or a committed transaction would be the
older one's deleter, and `ExactFor` rules that out. A late version starts a chain of
its own, so it needs no exception there.

The two action properties follow from the same invariant. Only the vacuum takes
a version from its place (`StepKeepsPlaces`), and what the horizon has passed
nobody sees, because a deleter below it is neither in progress nor to come
(`PrunedIsInvisible`). For `StableViews` the question what a transaction sees is
replaced, in both states, by what it should see (`ExactVisibility`), and
`StepKeepsShown` goes through the actions: a mark put by another transaction in
progress, or withdrawn by its rollback, is a deleter that does not count either way.

**Refinement.** One lemma for each action shows that under `MvccInv` it is a
step of the abstract table or leaves it alone. A commit publishes `DataBy(t, r)`
because what `t` wrote is, once `t` counts as committed, what is committed in
the row (`SupersededIsMarked` rules out a leftover); a rollback leaves the
committed data as it was, since it only withdraws marks that did not count; the
vacuum removes versions with committed deleters only. A write either meets a
mark of another transaction, and then the row is given up (`LostWriteRefines`,
`ClobberRefines`), or is the transaction's own (`OwnWriteRefines`). An insert for
an ended transaction gives up a row that nobody has used (`InsertRefines`), and what is
written to such a row later changes nothing of the abstract table (`Tracked`).

**UniqueIndex.** An index step is a step of `Mvcc` (`StepIsMvccStep`), so `MvccInv`
is at hand (`MvccHolds`). `IndexInv` adds that an entry leads to a row that has
versions (`NoDanglingEntry`), that a tag of a transaction rolled back is at a late row
(`TagsNotAborted`), that the entry for a version that no rollback has undone carries its
creator's tag unless the row was re-tagged or its late insert is under way
(`EntriesTagged`), and what is true while
transactions run one after the other and their data comes in time (`SerialState`): the
only one in progress
is the last begun, the watermark is current, no mark was overwritten and no row is late.
Nothing is assumed of `Key` but its type.
`SerialUnique` is not a consequence of these. It needs one more inductive
step (`StepDistinct`): no two rows that a reader should see (`Plain`) hold one value,
because the validation of a write looks at exactly the rows that its own
transaction sees (`CheckedKeyIsNew`), and without overlap these are the rows
everybody should see. That the youngest visible version exists (`YoungestExists`)
rests on the well-foundedness of the naturals applied to positions counted down
from the bound (`GreatestExists`), which needs no operator parameter.

**Schema.** Tables and histories agree (`TablesKnown`: ids are never handed out
twice, and nothing is left of a table that is gone), all versions of a column
come from its CREATE TABLE (`ColumnsDeclared`), and `ColumnsFollowed` ties the
marks on a column to the transactions that dropped it: either nobody has and one
version is unmarked, or one has, every mark is its own, and while it is in
progress its mark is there. A second dropper would have overwritten the mark, which is
`clobbered`. With `ExactFor` this decides what every reader sees (`ColumnSeen`),
and a foreign key's target follows from it (`ReferencesFollowed`). Because an
index goes with a constraint, DROP INDEX never changes a column (`DropIndexKeeps`).
COPY inserts rows, not columns, so nothing is late here (`NothingLate`).

**Recovery.** `WhileUp` is Mvcc's invariant while the server runs, with what the
page file may name; `WhileSaving` says what flush and save have in common, and
holds because between them no transaction begins or ends; the save turns it into
`FileMatchesSnapshot`, which survives the crash; the reload turns that into
`WhileRestarted`. Every reload property is a consequence. The exceptions (`newer`,
`stale`, `replaced`) are needed for exactly these implications.

**PageFile.** Everything rests on one notion, `Sound`: at an offset stands a whole
index, and it and the records of the pages that it locates lie below the append
cursor. A write at or behind the cursor keeps a sound index sound and its pages
as they were (`AppendKeeps`), and a sound index loads as itself (`SoundReads`,
`WholeLoads`). `FileInv` claims nothing of a damaged file. Of any other one it says:
merges exclude each other and never meet a rewrite (`MergesApart`);
between merges the file is whole and a loaded store is what it holds
(`BetweenMerges`); during a merge the old index is still sound, the new one
stands behind it from a certain step on, and the fields of the header
change over one by one (`MergeProgress`); a flush has copied what is held, the
new file holds it, or it is in place (`FlushProgress`); and the place that a
read has found keeps its record (`ReadProgress`). The lemma for each step gives
the invariant and what happened to the pages, so `StepUndamaged` already contains
the refinement: every step keeps `held`, completes one merge (`After`) or
completes one flush (`Flushed`). For `CrashAllOrNothing` the damaging crash counts
too: a header torn between its fields is not valid yet, or already has the offset
of the new index, and whatever length stands beside it, loading fails or finds
the pages of the new index (`TornCrash`).
That a flush puts each page in a place of its own (`CompactPlaces`) is proved
from cardinalities of finite sets, without induction.

**Session.** The places that hold a transaction are a thread, the entry of an
address and a COPY session; `HoldsProperly` and `HeldApart` say which may hold
the same one, `UsesEntry` when a thread works in the entry's transaction,
`CopyAwaited` when a session must be there and that one which nobody will answer has its
transaction in `lost`. The invariant says that an open transaction outside `lost` is
held somewhere (`NoneForgotten`), and `Endable` that whoever holds it can end it, from which
`TransactionsOwned` follows. All actions of a connection touch
its own places only, so one `Frame` lemma carries the others over and each action
is reduced to one of a few changes of `Held(c)`: it passes a transaction on, takes up a
new one or an entry, ends one, or only goes on.

**PageCache.** `HeapInv` and `StoreInv` say that what a thread or `row_space` refers
to is a page in memory; `ThreadInv` where a thread can be and what it then has in
its hands; `FrameInv` that no frame is resident, being installed and on its way
to disk at once. `DataInv` is the heart: while no row is torn, every page has one
newest copy, the resident one, the victim that a thread is about to write, or else
the one on disk; this copy holds exactly the page's rows with all completed
writes (`Good`); and a copy that an eviction would not write is on disk as it is (`Clean`).
While a flush has its image and has not yet published it, the image takes the
place of the disk for pages that were not changed since. The actions that could
break this are exactly those that record a torn row. `NoLimitInv` says
that without a limit there is no victim, nothing to install, and every page in
use is resident; `UnlimitedKeepsEveryWrite` follows.
The proof showed that `RowsIntact`, first stated for every row outside `torn`, is false after
the first tear, and TLC found the behaviour.
What `compact` needs, that every row is placed on a page in use
(`PackingIsSound`), and that memory counters are naturals (`SumIsNat`), are facts about
folds; they are proved through the smallest set of rows for which they would fail.

**Locks.** The locks have an order, `Rank`: database, another table, the table, its
columns, `row_space`, pages. An operation asks for locks of higher rank than all it holds,
with two exceptions: the nested requests, and CREATE INDEX, which asks for
a column while it holds a page. `Follows` gives the locks that are held at each
request of a part; composition lemmas (`Joined`, `InTurn`, `Inside`, `Optional`,
`AllPages`) put the parts together in the way the scripts do, so that
`EveryOperationRuns` holds for any set of pages. `LockInv` then says that what
a thread holds is the stack of its request (`OnTrack`), that a lock held for
writing has no other holder (`Exclusive`), and that who holds a column also holds
the table (`ColumnsUnderTables`). In a deadlock without nested requests take a thread
that waits for a lock of the highest rank: whoever holds that lock waits for
one of higher rank (`HolderWantsMore`), and whoever only queues for it waits for a
holder. CREATE INDEX never waits for its column, because it holds the
table's write lock and nobody else can be under the table (`GateIsOpen`).

Only model-checked:

- liveness (`EveryoneFinishes`, `RequestsAnswered`), which is out of the prover's reach;
- `CopyFormat` and `Query` (`AccessPathsAgree`, `JoinsAgree`, `CopyRestores`): expressions
  and texts are evaluated by recursive operators, which it cannot handle, and what these
  compute for every input would be an induction over data.

## 5. Known departures

What the modelling met, beyond the two violation runs. Each one is in the models,
as an exception that a property names or a history variable records.

- Memory limit (`table.rs:1135`, `1921`): a page may be evicted between its registration
  and the append of its row, and compact keeps only the rows that are resident
  when it starts; either loses rows. `memory_used` wraps below zero (`table.rs:401`).
- Unique index (`column.rs:180`): an update that keeps its key re-tags the entry; its
  rollback removes it, and the next insert of that key is accepted.
  NULL equals NULL in unique checks.
- Foreign keys (`table.rs:1484`): a changed key is still accepted under its old value, and
  a key that another transaction has written and not committed as soon as the row is visible.
  NULL has the index key of 0 (`row.rs:92`), and the lookup compares no value: a reference
  to 0 is satisfied by a row that holds NULL.
- COPY data that arrives after a COMMIT or ROLLBACK in its batch (`pg_wire.rs:1685`) is inserted into the
  ended transaction. After a ROLLBACK it is visible to everybody as soon as a younger
  transaction commits, in spite of "`ROLLBACK` | ✅ Supported"
  (`docs/POSTGRES_COMPATIBILITY.md:178`), and survives a restart; its rows
  are visible before they are in the index (`table.rs:1264-1293`); after a
  COMMIT it may be missing from a page file that the snapshot takes for complete.
- Locks (`pg_wire.rs:552`): a foreign key check behind a queued COMMIT deadlocks, in spite
  of "Serializes BEGIN/COMMIT/ROLLBACK bookkeeping to avoid lock-order
  deadlocks" (`pg_wire.rs:383`). UPDATE of a row that shares its page with a unique
  candidate (`table.rs:1366`), a self-referencing CREATE TABLE (`pg_wire.rs:763`) and ORDER BY beside writers (`table.rs:1808`)
  can block too.
- Restart: open transactions count as committed (`database.rs:115`); a table whose last flush
  found it empty gets its old rows back (`table.rs:355`, `640`), those of a dropped
  table of the same name included.
- Page file: a header torn by a crash, a merge that fails half-way and a merge that meets a rewrite
  leave a store that later merges mix up (`page_store.rs:464-510`).
- Indexes that a client creates are registered but never built, and cannot be
  dropped (`table.rs:879-915`, `column.rs:516-535`), although the docs list "Single-column hash index on a table
  column" and "Drops user-created indexes by name" as partly supported
  (`docs/POSTGRES_COMPATIBILITY.md:47-48`).
- CREATE TABLE keeps its name when it fails or is rolled back; DROP TABLE works at once.
- Queries: `k IS NULL` by index misses rows that do not hold the column, and so does a join that
  probes; UPDATE turns a missing column into an explicit NULL, which may then
  violate UNIQUE; a qualified column in the WHERE of a single-table SELECT is an error.
- COPY: a NULL number under the default null string makes the file unreadable
  to COPY FROM; a NULL text comes back as `N`; a failing COPY FROM in an explicit transaction keeps
  the rows it inserted (`pg_wire.rs:592`).
- COPY FROM whose columns do not resolve leaks its transaction (`pg_wire.rs:1399`), a second one in a batch
  drops the first one's (`pg_wire.rs:1403`), and a connection that closes before it has sent its
  data leaves a COPY session whose transaction no later client can end (`pg_wire.rs:1761-1782`).
- The docs say only the first statement of a query is executed
  (`docs/POSTGRES_COMPATIBILITY.md:25`), `do_query` executes them all (`pg_wire.rs:1581-1633`).

## 6. Not modelled

- Parsing of SQL, projections and names of result columns, SHOW TABLES, several joins in one
  query, Boolean columns in filters.
- Floats, decimals, bytes, Booleans, times, negative numbers, CHECK, NOT NULL and DEFAULT.
- Configuration, logging and the text of errors: no state that changes.
- Failures to send a response; `persist_dirty_pages`, which has no caller;
  `evicted_pages`, which is written and never read; `write_all` and `read_all`
  of the page store, which only tests call.
- An eviction whose write fails, in `PageCache` (the failing write is in `PageFile`).
- Several pages, and the column indexes in the snapshot, across a restart.

## 7. State of the plan

1. Done: the modules of section 2, two refinements, and the proofs of section 4:
   every safety and action property and every refinement that the runs of `Mvcc`,
   `UniqueIndex`, `Schema`, `Recovery`, `PageCache`, `PageFile`, `Session` and
   `Locks` check is proved.
2. Left: `AccessPathsAgree`, `JoinsAgree` and `CopyRestores` of `Query`. The
   evaluation of filters and the splitting of lines would have to be restated as
   recursive functions, over the depth of an expression and the position in a
   text. The argument for the access paths is the one of `UniqueIndexProofs` for a
   single transaction: the index holds every key that a live row has, and the
   filter removes what is stale.
