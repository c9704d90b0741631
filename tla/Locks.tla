-------------------------------- MODULE Locks --------------------------------
(***************************************************************************)
(* The reader-writer locks that statements, bookkeeping and the background *)
(* task take, in the order in which the code takes them: the database, a   *)
(* table, its columns, the table's row_space map and its pages             *)
(* (core/table.rs, core/database.rs, core/pg_wire.rs).                     *)
(*                                                                         *)
(* An operation is the sequence of its lock requests and releases.  A lock *)
(* is a std::sync::RwLock: not reentrant, and a waiting writer keeps new   *)
(* readers out.  Locks that are only held for an access to one field       *)
(* (row_locations, lru, on_disk_pages, the snapshot, the page store's      *)
(* mutex) are always the last ones taken and are left out.  Each thread    *)
(* runs one operation: no lock outlives an operation, so a thread that     *)
(* runs several in a row adds no deadlock.                                 *)
(***************************************************************************)
EXTENDS Naturals, FiniteSets, Sequences

CONSTANTS
    Threads,    \* threads, numbers, each of which runs one operation
    Pages       \* ids of the table's pages

ASSUME LocksAssumption ==
    Threads \subseteq Nat /\ Pages \subseteq Nat /\ Pages # {} /\ IsFiniteSet(Pages)

-----------------------------------------------------------------------------
(* Programs                                                                *)
(*                                                                         *)
(* The locks are the database, the table, another table, two columns of    *)
(* the table (its UNIQUE key and a foreign key), its row_space and its     *)
(* pages.  A request says how many locks are held when it is made, d;      *)
(* locks taken after those have been released.                             *)

Step(mode, lock, ids, d) == [mode |-> mode, lock |-> lock, ids |-> ids, keep |-> d, skip |-> 0]
R(lock, d) == <<Step("read", lock, {0}, d)>>
W(lock, d) == <<Step("write", lock, {0}, d)>>
ReadPage(d) == <<Step("read", "page", Pages, d)>>
WritePage(d) == <<Step("write", "page", Pages, d)>>

\* A part that the code leaves out on some path.
Maybe(part) == [part EXCEPT ![1].skip = Len(part)]

\* The pages in the order of row_space, each written in turn.
WriteAllPages(d) ==
    [i \in 1..Cardinality(Pages) |->
        Step("write", "page", {p \in Pages : Cardinality({q \in Pages : q <= p}) = i}, d)]

\* A page enters the map, and maybe_evict_pages may take some page out of it and
\* read that page.  The map is written twice in a row: one request stands for both.
EnterPage(d) == W("row_space", d) \o Maybe(ReadPage(d))

\* A hit reads the map; a miss enters the page.
ensure_page_resident(d) == R("row_space", d) \o Maybe(EnterPage(d))
ReadRow(d) == ensure_page_resident(d) \o ReadPage(d)

\* What every statement holds until its end.
Statement(body) == R("db", 0) \o (R("table", 1) \o body)

\* schema_validation of the UNIQUE key reads the candidates' rows under the
\* column's lock; the index lookups of a search do the same.
Lookup(d) == R("key", d) \o ReadRow(d + 1)

update_indexes_for_row(d) == W("key", d) \o W("parent", d)

\* try_append_to_tail_page, or register_page with its eviction.
insert_row_into_page(d) ==
    (R("row_space", d) \o WritePage(d)) \o Maybe(EnterPage(d) \o WritePage(d))

search == Statement(Maybe(Lookup(2)) \o ReadRow(2))

\* ORDER BY: the comparison reads row b while it holds the page of row a.
sort == Statement(ensure_page_resident(2) \o (ReadPage(2) \o ReadRow(3)))

\* Mutant of insert_row: the page is kept until the indexes are updated.
InsertKeepingPage ==
    Statement(Lookup(2) \o (R("row_space", 2) \o (WritePage(2) \o update_indexes_for_row(3))))

insert_row == Statement(Lookup(2) \o (insert_row_into_page(2) \o update_indexes_for_row(2)))

delete_row == Statement(ensure_page_resident(2) \o WritePage(2))

\* update_row validates while it holds the page of the row.
update_row ==
    Statement(ensure_page_resident(2) \o ((WritePage(2) \o Lookup(3)) \o update_indexes_for_row(2)))

\* An INSERT with a foreign key: under the lock of the foreign key column the
\* callback takes the database lock again, then the lock of each table up to the
\* referenced one, which is another table or the table itself.
foreign_key_other ==
    Statement(R("parent", 2) \o (R("db", 3) \o (Maybe(R("table", 4)) \o R("other", 4))))
foreign_key_self == Statement(R("parent", 2) \o (R("db", 3) \o (R("table", 4) \o Lookup(5))))

\* create_transaction, commit_transaction and drop_table.
bookkeeping == W("db", 0)

\* CREATE TABLE with a foreign key to an existing table, and to itself.
create_table_other == W("db", 0) \o (W("other", 1) \o R("table", 2))
create_table_self == W("db", 0) \o (W("other", 1) \o R("other", 2))

flush_all_pages(d) == R("row_space", d) \o WriteAllPages(d + 1)

\* Database::rollback_transaction with Table::rollback_transaction, which goes
\* through the resident pages as the flush does.
rollback_transaction ==
    W("db", 0) \o (W("table", 1) \o (update_indexes_for_row(2) \o flush_all_pages(2)))

\* create_column_index: the database lock is released after the lookup of the
\* table; each row is indexed under the lock of its page.
create_column_index ==
    R("db", 0) \o (W("table", 0)
        \o (W("key", 1) \o (ensure_page_resident(1) \o (ReadPage(1) \o W("key", 2)))))

\* Mutant of auto_vacuum: the flush asks for the table's read lock before the
\* write lock of prune is released.
VacuumKeepingTable == R("db", 0) \o (W("table", 1) \o (flush_all_pages(2) \o R("table", 2)))

\* Table::prune: materialize with a flush, prune_versions, compact and flush.
prune(d) ==
    (ensure_page_resident(d) \o flush_all_pages(d))
        \o ((W("key", d) \o ReadRow(d + 1))
        \o ((W("row_space", d) \o WriteAllPages(d + 1)) \o flush_all_pages(d)))

\* auto_vacuum: prune under the table's write lock, then a flush under its read
\* lock, which is also what save_snapshot does.
auto_vacuum ==
    R("db", 0) \o (Maybe(W("table", 1) \o prune(2)) \o (R("table", 1) \o flush_all_pages(2)))

\* The requests of each operation.
Script ==
    [search |-> search, sort |-> sort, insert |-> insert_row, delete |-> delete_row,
     update |-> update_row, foreign_key_other |-> foreign_key_other,
     foreign_key_self |-> foreign_key_self, bookkeeping |-> bookkeeping,
     create_table_other |-> create_table_other, create_table_self |-> create_table_self,
     rollback |-> rollback_transaction, create_index |-> create_column_index,
     vacuum |-> auto_vacuum]

Kinds == DOMAIN Script

-----------------------------------------------------------------------------
VARIABLES
    job,        \* the operation of each thread
    pc,         \* position of its next request
    held,       \* the locks it holds with their modes, latest last
    want,       \* the lock of its next request, Nothing when it is done
    queued      \* threads that wait for a write lock

vars == <<job, pc, held, want, queued>>

Nothing == <<"none", 0>>

Mode(t) == Script[job[t]][pc[t]].mode

\* The locks of the request at position n of an operation.
Wanted(kind, n) ==
    IF n > Len(Script[kind]) THEN {Nothing}
    ELSE {<<Script[kind][n].lock, i>> : i \in Script[kind][n].ids}

Kept(kind, n) == IF n > Len(Script[kind]) THEN 0 ELSE Script[kind][n].keep

\* The positions that may follow position n.
After(kind, n) ==
    {n + 1} \cup IF n < Len(Script[kind]) /\ Script[kind][n + 1].skip > 0
                 THEN {n + 1 + Script[kind][n + 1].skip} ELSE {}

Holds(t, lock, modes) ==
    \E i \in DOMAIN held[t] : held[t][i].lock = lock /\ held[t][i].mode \in modes

\* u keeps t waiting: it holds the lock in a conflicting mode, t itself included,
\* or it is a queued writer and t a reader.
Blocks(u, t) ==
    /\ want[t] # Nothing
    /\ \/ Holds(u, want[t], IF Mode(t) = "read" THEN {"write"} ELSE {"read", "write"})
       \/ Mode(t) = "read" /\ u # t /\ u \in queued /\ want[u] = want[t]

\* Which thread runs which operation is irrelevant: the operations are dealt out
\* in one order.
Init ==
    /\ LET order == <<"search", "sort", "insert", "delete", "update", "foreign_key_other",
                      "foreign_key_self", "bookkeeping", "create_table_other",
                      "create_table_self", "rollback", "create_index", "vacuum">>
           Rank(kind) == CHOOSE i \in DOMAIN order : order[i] = kind
       IN job \in {f \in [Threads -> Kinds] :
                     \A t, u \in Threads : t < u => Rank(f[t]) <= Rank(f[u])}
    /\ pc = [t \in Threads |-> 1]
    /\ held = [t \in Threads |-> <<>>]
    /\ want \in {w \in [Threads -> UNION {Wanted(k, 1) : k \in Kinds}] :
                    \A t \in Threads : w[t] \in Wanted(job[t], 1)}
    /\ queued = {}

\* t takes the lock and goes on to its next request, having released what it
\* does not need any more.
Acquire(t) ==
    /\ want[t] # Nothing
    /\ \A u \in Threads : ~Blocks(u, t)
    /\ \E n \in After(job[t], pc[t]) :
        /\ pc' = [pc EXCEPT ![t] = n]
        /\ held' = [held EXCEPT ![t] =
                       SubSeq(Append(@, [lock |-> want[t], mode |-> Mode(t)]), 1, Kept(job[t], n))]
        /\ \E w \in Wanted(job[t], n) : want' = [want EXCEPT ![t] = w]
    /\ queued' = queued \ {t}
    /\ UNCHANGED job

\* A writer that cannot have the lock queues for it.
Enqueue(t) ==
    /\ want[t] # Nothing
    /\ Mode(t) = "write" /\ t \notin queued
    /\ \E u \in Threads : Blocks(u, t)
    /\ queued' = queued \cup {t}
    /\ UNCHANGED <<job, pc, held, want>>

Next == \E t \in Threads : Acquire(t) \/ Enqueue(t)

\* As long as some thread can go on, some thread does.
Fairness == WF_vars(Next)

Spec == Init /\ [][Next]_vars /\ Fairness

-----------------------------------------------------------------------------
(* Properties                                                              *)

\* The nested requests: update_row and ORDER BY ask for more while they hold a
\* page, the foreign key callback while it holds its column, and CREATE TABLE
\* for the table it is creating.
Nested(t) ==
    \/ job[t] \in {"update", "sort"} /\ \E p \in Pages : Holds(t, <<"page", p>>, {"read", "write"})
    \/ job[t] \in {"foreign_key_other", "foreign_key_self"} /\ Holds(t, <<"parent", 0>>, {"read"})
    \/ job[t] = "create_table_self" /\ Holds(t, <<"other", 0>>, {"write"})

Deadlocked(S) == S # {} /\ \A t \in S : \E u \in S : Blocks(u, t)

\* Threads that wait for each other for ever, or a thread that waits for itself,
\* always include one inside a nested request: UPDATE validating under its page's
\* lock (table.rs:1366), ORDER BY comparing two rows (table.rs:1808), a foreign
\* key check (pg_wire.rs:552) or a self-referencing CREATE TABLE
\* (pg_wire.rs:763).  All other code, vacuum, rollback and CREATE INDEX included,
\* keeps to one lock order.
DeadlockNeedsNesting ==
    \A S \in SUBSET Threads : Deadlocked(S) => \E t \in S : Nested(t)

\* Without those four operations every operation comes to its end, whatever the
\* others do: no writer is starved and no reader is kept out for ever.
EveryoneFinishes ==
    (\A t \in Threads :
        job[t] \notin {"update", "sort", "foreign_key_other", "foreign_key_self",
                       "create_table_self"})
        => <>(\A t \in Threads : want[t] = Nothing)

==============================================================================
