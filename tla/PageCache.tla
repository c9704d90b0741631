----------------------------- MODULE PageCache -----------------------------
(***************************************************************************)
(* The page cache of one Table (core/table.rs): rows placed on size-bound  *)
(* pages, pages evicted to the page file in least-recently-used order when *)
(* the memory budget is exceeded and loaded back on demand, and the vacuum *)
(* that repacks them.                                                      *)
(*                                                                         *)
(* Statements share the table's read lock, so several workers run at once, *)
(* each step here being one critical section of row_space, of a page or of *)
(* the page store.  A rollback needs the database write lock, the vacuum   *)
(* the table's write lock: both exclude statements.                        *)
(*                                                                         *)
(* What a row holds is abstracted to the set of transactions whose writes  *)
(* it carries; what the versions look like is the subject of Mvcc.         *)
(* evicted_pages is left out: the code writes it and never reads it.       *)
(***************************************************************************)
EXTENDS Naturals, FiniteSets, Sequences, FiniteSetsExt

CONSTANTS
    Workers,        \* threads that execute statements
    Vacuum,         \* the background task of handler.rs
    AutoVacuum,     \* config.auto_vacuum_interval_secs > 0: that task exists
    MemoryLimits,   \* candidates for config.table_memory_limit_bytes
    PageSize,       \* config.page_size_bytes
    RowSize,        \* RowSize[r]: row_size_bytes of row r
    Modulus,        \* memory_used is a u64: 2^64, or less in a small model
    MaxTxns,        \* bound: transactions
    MaxRows,        \* bound: row ids handed out
    MaxPages        \* bound: page ids handed out

ASSUME PageAssumption ==
    /\ PageSize \in Nat \ {0} /\ Modulus \in Nat \ {0}
    /\ MaxTxns \in Nat /\ MaxRows \in Nat /\ MaxPages \in Nat
    /\ RowSize \in [1..MaxRows -> Nat \ {0}]
    /\ MemoryLimits \subseteq Nat
    /\ IsFiniteSet(Workers) /\ Vacuum \notin Workers /\ AutoVacuum \in BOOLEAN

TxnIds == 1..MaxTxns
RowIds == 1..MaxRows
PageIds == 0..(MaxPages - 1)
Threads == Workers \cup {Vacuum}
\* Addresses of Arc<RwLock<Page>>; a thread holds at most two at a time.
Frames == 1..(MaxPages + 2 * Cardinality(Threads))
None == 0

VARIABLES
    limit,            \* config.table_memory_limit_bytes; zero: no eviction
    heap,             \* frame -> the Page it points to
    row_space,        \* Table.row_space: resident page id -> frame
    row_locations,    \* Table.row_locations: row id -> page id
    next_page_id,
    next_row_id,
    memory_used,
    lru,              \* Table.lru as the page ids, least recently used first
    disk,             \* PageStore: page id -> Page
    on_disk_pages,
    thread,           \* where each thread is, and what it holds
    image,            \* flush_all_pages: the pages it is about to write
    active,           \* transactions neither committed nor rolled back
    truth,            \* history: row -> the writes that statements completed
    unsaved,          \* history: rows changed in memory behind a clean flag
    torn              \* history: rows that met one of the hazards below

pagevars == <<heap, row_space, row_locations, next_page_id, next_row_id,
              memory_used, lru, disk, on_disk_pages>>
vars == <<limit, pagevars, thread, image, active, truth, unsaved, torn>>

-----------------------------------------------------------------------------
(* Pages and maps                                                          *)

\* BTreeMap::insert and BTreeMap::remove.
Put(f, k, v) == [x \in DOMAIN f \cup {k} |-> IF x = k THEN v ELSE f[x]]
Without(f, k) == [x \in DOMAIN f \ {k} |-> f[x]]

Empty == [x \in {} |-> x]

\* Page, less its id and its next_page link.
Page == [used : Nat, overflow : BOOLEAN, dirty : BOOLEAN,
         rows : UNION {[S -> SUBSET TxnIds] : S \in SUBSET RowIds}]

\* Page::new.
EmptyPage == [used |-> 0, overflow |-> FALSE, dirty |-> FALSE, rows |-> Empty]

\* Page::has_room_for.
has_room_for(p, size) == ~p.overflow /\ p.used + size <= PageSize

\* Page::append.
append(p, r, t) ==
    [p EXCEPT !.used = @ + RowSize[r], !.rows = Put(@, r, {t}), !.dirty = TRUE]

\* page_memory_bytes: one unit for the header, then the rows.
page_memory_bytes(p) == 1 + SumFunctionOnSet(RowSize, DOMAIN p.rows)

\* The page-sized slots that an oversized row spans, its head included.
Slots(r) == (RowSize[r] + PageSize - 1) \div PageSize

\* touch_page.
touch(p) == lru' = Append(SelectSeq(lru, LAMBDA q : q # p), p)

\* Mutant: the counter is signed.
SignedUntracked(p) == memory_used - page_memory_bytes(p)

\* memory_used.fetch_sub: wraps below zero.
untracked(p) == (memory_used + Modulus - (page_memory_bytes(p) % Modulus)) % Modulus

-----------------------------------------------------------------------------
(* Threads                                                                 *)

Idle == [pc |-> "idle", op |-> "none", row |-> None, txn |-> None, page |-> 0,
         frame |-> None, victim_page |-> 0, victim |-> None, head |-> {},
         left |-> 0, todo |-> {}]

\* The frames that row_space or a thread still refers to.
Live(space, th) ==
    {space[p] : p \in DOMAIN space}
    \cup UNION {{th[t].frame, th[t].victim} : t \in Threads}

\* Frames nobody refers to any longer are freed.
SetHeap(h) == heap' = [f \in DOMAIN h \cap Live(row_space', thread') |-> h[f]]

NewFrame(f) ==
    /\ f \in Frames \ Live(row_space, thread)
    /\ \A g \in Frames \ Live(row_space, thread) : f <= g

\* The vacuum holds the table's write lock.
Exclusive == thread[Vacuum].op = "vacuum"

\* flush_all_pages holds the row_space read lock from its first step to its
\* last, which keeps every change of row_space out.
SpaceFree == thread[Vacuum].pc # "flush_write"

InFlight(p) == {t \in Threads : thread[t].victim # None /\ thread[t].victim_page = p}

\* The newest copy of page p: resident, on its way to disk, or on disk.
Current(p) ==
    IF p \in DOMAIN row_space THEN heap[row_space[p]]
    ELSE IF InFlight(p) # {}
         THEN heap[thread[CHOOSE t \in InFlight(p) : TRUE].victim]
         ELSE IF p \in DOMAIN disk THEN disk[p] ELSE EmptyPage

\* The rows located on page p, and those an insert is about to locate there.
RowsOf(p) ==
    {r \in DOMAIN row_locations : row_locations[r] = p}
    \cup {thread[t].row : t \in {u \in Workers : p \in thread[u].head}}

\* What a thread does once the page it asked for is in its hand.
Arrive(op) == IF op = "vacuum" THEN "vacuum" ELSE "write"

-----------------------------------------------------------------------------
(* Loading and evicting pages                                              *)

At(t, pc) == thread[t].pc = pc
Goto(t, pc) == thread' = [thread EXCEPT ![t].pc = pc]

\* ensure_page_resident on a resident page.
FetchHit(t) ==
    /\ At(t, "fetch") /\ thread[t].page \in DOMAIN row_space
    /\ thread' = [thread EXCEPT ![t].pc = Arrive(thread[t].op),
                                ![t].frame = row_space[thread[t].page]]
    /\ touch(thread[t].page)
    /\ UNCHANGED row_space
    /\ SetHeap(heap)
    /\ UNCHANGED <<limit, row_locations, next_page_id, next_row_id, memory_used,
                   disk, on_disk_pages, image, active, truth, unsaved, torn>>

\* ensure_page_resident on another page: read it, outside every lock.
FetchRead(t) ==
    /\ At(t, "fetch") /\ thread[t].page \in DOMAIN disk \ DOMAIN row_space
    /\ \E f \in Frames :
          /\ NewFrame(f)
          /\ thread' = [thread EXCEPT ![t].pc = "install", ![t].frame = f]
          /\ UNCHANGED row_space
          /\ SetHeap(Put(heap, f, disk[thread[t].page]))
    /\ UNCHANGED <<limit, row_locations, next_page_id, next_row_id, memory_used,
                   lru, disk, on_disk_pages, image, active, truth, unsaved, torn>>

\* "Page not found on disk": the statement or the vacuum gives up, except that
\* pruning an index takes it for a dead row.
FetchFail(t) ==
    /\ At(t, "fetch") /\ thread[t].page \notin DOMAIN disk \cup DOMAIN row_space
    /\ thread' = [thread EXCEPT ![t] =
          IF @.op = "vacuum" /\ @.left = 2 THEN [@ EXCEPT !.pc = "vacuum"] ELSE Idle]
    /\ UNCHANGED row_space
    /\ SetHeap(heap)
    /\ UNCHANGED <<limit, row_locations, next_page_id, next_row_id, memory_used,
                   lru, disk, on_disk_pages, image, active, truth, unsaved, torn>>

\* The rest of ensure_page_resident: another thread's copy wins, or the copy
\* just read becomes the resident one.  It is stale when the page is on its way
\* to disk or has been there since.
Install(t) ==
    LET p == thread[t].page
        f == thread[t].frame
        stale == InFlight(p) # {} \/ p \notin DOMAIN disk \/ disk[p] # heap[f]
    IN
    /\ At(t, "install") /\ SpaceFree
    /\ touch(p)
    /\ \/ /\ p \in DOMAIN row_space
          /\ thread' = [thread EXCEPT ![t].pc = Arrive(thread[t].op),
                                      ![t].frame = row_space[p]]
          /\ UNCHANGED <<row_space, memory_used, torn>>
       \/ /\ p \notin DOMAIN row_space
          /\ Goto(t, "evict")
          /\ row_space' = Put(row_space, p, f)
          /\ memory_used' = (memory_used + page_memory_bytes(heap[f])) % Modulus
          /\ torn' = torn \cup IF stale THEN RowsOf(p) ELSE {}
    /\ SetHeap(heap)
    /\ UNCHANGED <<limit, row_locations, next_page_id, next_row_id, disk,
                   on_disk_pages, image, active, truth, unsaved>>

\* register_page pins nothing, not even the page it has just made.
Evictable(t) ==
    DOMAIN row_space \ (IF thread[t].op = "insert" THEN {} ELSE {thread[t].page})

\* Mutant: a limit of zero is a limit like any other.
OverAnyLimit == memory_used > limit

\* The tests of maybe_evict_pages: zero disables eviction.
OverLimit == limit > 0 /\ memory_used > limit

\* pick_lru_victim.
pick_lru_victim(p, t) ==
    \E i \in DOMAIN lru :
        /\ lru[i] = p /\ p \in Evictable(t)
        /\ \A j \in 1..(i - 1) : lru[j] \notin Evictable(t)

\* maybe_evict_pages returns.
EvictDone(t) ==
    /\ At(t, "evict")
    /\ ~OverLimit \/ ~\E p \in PageIds : pick_lru_victim(p, t)
    /\ Goto(t, IF thread[t].op = "insert" THEN "place" ELSE Arrive(thread[t].op))
    /\ UNCHANGED <<limit, pagevars, image, active, truth, unsaved, torn>>

\* One turn of maybe_evict_pages takes the victim out of row_space ...
EvictTake(t) ==
    /\ At(t, "evict") /\ SpaceFree /\ OverLimit
    /\ \E p \in PageIds :
          /\ pick_lru_victim(p, t)
          /\ thread' = [thread EXCEPT ![t].pc = "flush", ![t].victim_page = p,
                                      ![t].victim = row_space[p]]
          /\ row_space' = Without(row_space, p)
    /\ UNCHANGED <<limit, heap, row_locations, next_page_id, next_row_id,
                   memory_used, lru, disk, on_disk_pages, image, active, truth,
                   unsaved, torn>>

\* Mutant: a page that is on disk is not written again.
WriteOnce(p, v) == p \notin on_disk_pages

\* The test of flush_and_evict_page: a clean page on disk is not written.
NeedsWrite(p, v) == v.dirty \/ p \notin on_disk_pages

\* PageStore::merge_pages appends the page's bytes and points the index of the
\* page file to them; the other pages stay as they are.
merge_pages(p, v) == disk' = Put(disk, p, v)

\* ... and flush_and_evict_page writes it.
flush_and_evict_page(t) ==
    LET p == thread[t].victim_page
        v == heap[thread[t].victim]
        twice == p \in DOMAIN row_space \/ InFlight(p) # {t}
    IN
    /\ At(t, "flush")
    /\ IF NeedsWrite(p, v)
       THEN /\ merge_pages(p, v)
            /\ on_disk_pages' = on_disk_pages \cup {p}
            /\ unsaved' = unsaved \ RowsOf(p)
            /\ torn' = torn \cup IF twice THEN RowsOf(p) ELSE {}
       ELSE /\ torn' = torn \cup (unsaved \cap RowsOf(p))
            /\ UNCHANGED <<disk, on_disk_pages, unsaved>>
    /\ memory_used' = untracked(v)
    /\ lru' = SelectSeq(lru, LAMBDA q : q # p)
    /\ thread' = [thread EXCEPT ![t].pc = "evict", ![t].victim = None,
                                ![t].victim_page = 0]
    /\ UNCHANGED row_space
    /\ SetHeap(heap)
    /\ UNCHANGED <<limit, row_locations, next_page_id, next_row_id, image,
                   active, truth>>

-----------------------------------------------------------------------------
(* Statements                                                              *)

\* A write lands in frame f of page p; only the resident frame lasts.
Tear(p, f, r) ==
    torn' = torn \cup IF p \in DOMAIN row_space /\ row_space[p] = f
                      THEN {} ELSE {r}

\* delete_row and update_row find the page of a row that their transaction x
\* sees: x or a committed transaction has written it.
BeginWrite(t, r, x) ==
    /\ At(t, "idle") /\ ~Exclusive
    /\ r \in DOMAIN row_locations /\ x \in active
    /\ r \in DOMAIN truth /\ \E y \in truth[r] : y = x \/ y \notin active
    /\ thread' = [thread EXCEPT ![t] =
          [Idle EXCEPT !.pc = "fetch", !.op = "write", !.row = r, !.txn = x,
                       !.page = row_locations[r]]]
    /\ UNCHANGED <<limit, pagevars, image, active, truth, unsaved, torn>>

\* The rest of delete_row and update_row, under the page's write lock; a row
\* that is not on the page is RowNotFound.
Write(t) ==
    LET f == thread[t].frame
        r == thread[t].row
        x == thread[t].txn
    IN
    /\ At(t, "write")
    /\ thread' = [thread EXCEPT ![t] = Idle]
    /\ UNCHANGED row_space
    /\ IF r \in DOMAIN heap[f].rows
       THEN /\ SetHeap([heap EXCEPT ![f].rows[r] = @ \cup {x}, ![f].dirty = TRUE])
            /\ truth' = [truth EXCEPT ![r] = @ \cup {x}]
            /\ Tear(thread[t].page, f, r)
       ELSE SetHeap(heap) /\ UNCHANGED <<truth, torn>>
    /\ UNCHANGED <<limit, row_locations, next_page_id, next_row_id, memory_used,
                   lru, disk, on_disk_pages, image, active, unsaved>>

\* insert_row hands out a row id.  An oversized row needs `left` new pages, any
\* other tries the tail page, `left` times.
BeginInsert(t, x) ==
    LET r == next_row_id + 1
    IN
    /\ At(t, "idle") /\ ~Exclusive
    /\ x \in active /\ r \in RowIds
    /\ next_row_id' = r
    /\ thread' = [thread EXCEPT ![t] =
          [Idle EXCEPT !.op = "insert", !.row = r, !.txn = x,
                       !.pc = IF RowSize[r] > PageSize THEN "register" ELSE "tail",
                       !.left = IF RowSize[r] > PageSize THEN Slots(r) ELSE 2]]
    /\ UNCHANGED <<limit, heap, row_space, row_locations, next_page_id,
                   memory_used, lru, disk, on_disk_pages, image, active, truth,
                   unsaved, torn>>

\* insert_row_into_page tries the tail twice before it registers a page.
TailFailed(w) ==
    IF w.left = 2 THEN [w EXCEPT !.pc = "tail", !.left = 1, !.frame = None]
                  ELSE [w EXCEPT !.pc = "register", !.left = 1, !.frame = None]

\* try_append_to_tail_page looks up the resident page with the greatest id ...
FindTail(t) ==
    /\ At(t, "tail")
    /\ \/ /\ DOMAIN row_space = {}
          /\ thread' = [thread EXCEPT ![t] = TailFailed(@)]
       \/ \E p \in DOMAIN row_space :
          /\ \A q \in DOMAIN row_space : q <= p
          /\ thread' = [thread EXCEPT ![t].pc = "append", ![t].page = p,
                                      ![t].frame = row_space[p]]
    /\ UNCHANGED <<limit, pagevars, image, active, truth, unsaved, torn>>

\* ... and appends to it under its write lock, if there is room.
AppendTail(t) ==
    LET f == thread[t].frame
        r == thread[t].row
        p == thread[t].page
    IN
    /\ At(t, "append")
    /\ UNCHANGED row_space
    /\ IF has_room_for(heap[f], RowSize[r])
       THEN /\ thread' = [thread EXCEPT ![t].pc = "locate", ![t].head = {p},
                                        ![t].frame = None]
            /\ SetHeap([heap EXCEPT ![f] = append(@, r, thread[t].txn)])
            /\ touch(p)
            /\ Tear(p, f, r)
       ELSE /\ thread' = [thread EXCEPT ![t] = TailFailed(@)]
            /\ SetHeap(heap)
            /\ UNCHANGED <<lru, torn>>
    /\ UNCHANGED <<limit, row_locations, next_page_id, next_row_id, memory_used,
                   disk, on_disk_pages, image, active, truth, unsaved>>

\* register_page, up to its call of maybe_evict_pages.
register_page(t) ==
    /\ At(t, "register") /\ SpaceFree
    /\ next_page_id \in PageIds
    /\ \E f \in Frames :
          /\ NewFrame(f)
          /\ row_space' = Put(row_space, next_page_id, f)
          /\ thread' = [thread EXCEPT ![t].pc = "evict", ![t].frame = f,
                                      ![t].page = next_page_id]
          /\ SetHeap(Put(heap, f, EmptyPage))
    /\ next_page_id' = next_page_id + 1
    /\ memory_used' = (memory_used + page_memory_bytes(EmptyPage)) % Modulus
    /\ touch(next_page_id)
    /\ UNCHANGED <<limit, row_locations, next_row_id, disk, on_disk_pages, image,
                   active, truth, unsaved, torn>>

\* force_append_to_page on the new page, or the marking of a continuation page
\* in insert_overflow_row.
Place(t) ==
    LET w == thread[t]
        p == w.page
        f == w.frame
    IN
    /\ At(t, "place")
    /\ UNCHANGED row_space
    /\ thread' = [thread EXCEPT
          ![t].pc = IF w.left = 1 THEN "locate" ELSE "register",
          ![t].left = w.left - 1, ![t].frame = None,
          ![t].head = IF w.head = {} THEN {p} ELSE w.head]
    /\ IF w.head = {}
       THEN /\ SetHeap([heap EXCEPT ![f] = append(@, w.row, w.txn)])
            /\ Tear(p, f, w.row)
       ELSE /\ SetHeap([heap EXCEPT ![f].overflow = TRUE, ![f].used = PageSize,
                                    ![f].dirty = TRUE])
            /\ UNCHANGED torn
    /\ UNCHANGED <<limit, row_locations, next_page_id, next_row_id, memory_used,
                   lru, disk, on_disk_pages, image, active, truth, unsaved>>

\* The end of insert_row: the row can be found from now on.
Locate(t) ==
    LET r == thread[t].row
    IN
    /\ At(t, "locate")
    /\ \E p \in thread[t].head : row_locations' = Put(row_locations, r, p)
    /\ truth' = Put(truth, r, {thread[t].txn})
    /\ thread' = [thread EXCEPT ![t] = Idle]
    /\ UNCHANGED <<limit, heap, row_space, next_page_id, next_row_id, memory_used,
                   lru, disk, on_disk_pages, image, active, unsaved, torn>>

\* Every statement is over: begin, commit and rollback hold the database write
\* lock, the background task its read lock.
Quiet == \A t \in Threads : At(t, "idle")

\* Commit leaves the pages alone.
Commit(x) ==
    /\ Quiet /\ x \in active
    /\ active' = active \ {x}
    /\ UNCHANGED <<limit, pagevars, thread, image, truth, unsaved, torn>>

\* Table::rollback_transaction: the resident pages only, without marking them
\* dirty.
rollback_transaction(x) ==
    LET Cancel(rows) == [r \in DOMAIN rows |-> rows[r] \ {x}]
        touched == {r \in DOMAIN truth : x \in truth[r]}
        resident(r) == /\ r \in DOMAIN row_locations
                       /\ row_locations[r] \in DOMAIN row_space
        clean(r) == resident(r) /\ ~heap[row_space[row_locations[r]]].dirty
    IN
    /\ Quiet /\ x \in active
    /\ active' = active \ {x}
    /\ heap' = [f \in DOMAIN heap |-> [heap[f] EXCEPT !.rows = Cancel(@)]]
    /\ truth' = Cancel(truth)
    /\ torn' = torn \cup {r \in touched : ~resident(r)}
    /\ unsaved' = unsaved \cup {r \in touched : clean(r)}
    /\ UNCHANGED <<limit, row_space, row_locations, next_page_id, next_row_id,
                   memory_used, lru, disk, on_disk_pages, thread, image>>

-----------------------------------------------------------------------------
(* Vacuum and flush                                                        *)

LocatedPages == {row_locations[r] : r \in DOMAIN row_locations}

\* Table::prune takes the table's write lock and brings in every page that
\* holds a row, one after the other (materialize_all_pages: `left` is 1).
BeginVacuum ==
    /\ AutoVacuum /\ Quiet
    /\ thread' = [thread EXCEPT ![Vacuum] =
          [Idle EXCEPT !.pc = "vacuum", !.op = "vacuum", !.left = 1,
                       !.todo = LocatedPages]]
    /\ UNCHANGED <<limit, pagevars, image, active, truth, unsaved, torn>>

\* The next page of materialize_all_pages, in page order, or the next one that
\* pruning an index asks for through row_is_alive_for_prune, in key order.
VacuumNext ==
    LET w == thread[Vacuum]
    IN
    /\ At(Vacuum, "vacuum")
    /\ \E p \in w.todo :
          /\ w.left = 1 => \A q \in w.todo : p <= q
          /\ thread' = [thread EXCEPT ![Vacuum].pc = "fetch", ![Vacuum].page = p,
                                      ![Vacuum].todo = @ \ {p}]
    /\ UNCHANGED <<limit, pagevars, image, active, truth, unsaved, torn>>

\* prune_versions, for the rows whose last version the horizon has passed: of
\* those, the ones whose insert was rolled back are told apart here.  Then the
\* indexes are pruned, if there are any.
prune_versions(dead) ==
    LET keep(rows) == {r \in DOMAIN rows : ~(r \in dead /\ rows[r] = {})}
    IN
    /\ At(Vacuum, "vacuum") /\ thread[Vacuum].left = 1 /\ thread[Vacuum].todo = {}
    /\ dead \subseteq {r \in DOMAIN truth : truth[r] = {}}
    /\ \E indexed \in BOOLEAN :
          thread' = [thread EXCEPT ![Vacuum].left = 2, ![Vacuum].frame = None,
                        ![Vacuum].todo = IF indexed THEN LocatedPages ELSE {}]
    /\ UNCHANGED row_space
    /\ SetHeap([f \in DOMAIN heap |->
                  [heap[f] EXCEPT !.rows = [r \in keep(@) |-> @[r]]]])
    /\ truth' = [r \in DOMAIN truth \ dead |-> truth[r]]
    /\ UNCHANGED <<limit, row_locations, next_page_id, next_row_id, memory_used,
                   lru, disk, on_disk_pages, image, active, unsaved, torn>>

\* compact: one row is packed after those before it.  `n` pages are in use and
\* the last one has `room`.
PackRow(acc, r) ==
    IF RowSize[r] > PageSize
    THEN [n |-> acc.n + Slots(r), room |-> 0, loc |-> Put(acc.loc, r, acc.n)]
    ELSE IF RowSize[r] <= acc.room
    THEN [n |-> acc.n, room |-> acc.room - RowSize[r],
          loc |-> Put(acc.loc, r, acc.n - 1)]
    ELSE [n |-> acc.n + 1, room |-> PageSize - RowSize[r],
          loc |-> Put(acc.loc, r, acc.n)]

\* The rows in the order of their ids: the greatest comes last.
Packed(rows) ==
    MapThenFoldSet(LAMBDA r, acc : PackRow(acc, r),
                   [n |-> 0, room |-> 0, loc |-> Empty], LAMBDA r : r, Max, rows)

\* Mutant: every fresh page is given all the rows.
CopiedPage(p, loc, content) ==
    LET here == {r \in DOMAIN loc : loc[r] = p}
    IN  [used |-> IF here = {} THEN PageSize
                  ELSE SumFunctionOnSet(RowSize, here),
         overflow |-> here = {}, dirty |-> here # {}, rows |-> content]

\* The fresh page p of a packing; a page without rows continues an oversized one.
PackedPage(p, loc, content) ==
    LET here == {r \in DOMAIN loc : loc[r] = p}
    IN  [used |-> IF here = {} THEN PageSize
                  ELSE SumFunctionOnSet(RowSize, here),
         overflow |-> here = {}, dirty |-> here # {},
         rows |-> [r \in here |-> content[r]]]

\* Table::compact: every row of a RESIDENT page moves to a fresh page.
compact ==
    LET at(r) == {p \in DOMAIN row_space : r \in DOMAIN heap[row_space[p]].rows}
        live == {r \in RowIds : at(r) # {}}
        content == [r \in live |-> heap[row_space[Max(at(r))]].rows[r]]
        packing == Packed(live)
        pages == 0..(packing.n - 1)
    IN
    /\ At(Vacuum, "vacuum") /\ thread[Vacuum].left = 2 /\ thread[Vacuum].todo = {}
    /\ packing.n <= MaxPages
    /\ row_space' = [p \in pages |-> p + 1]
    /\ heap' = [f \in {p + 1 : p \in pages} |->
                   PackedPage(f - 1, packing.loc, content)]
    /\ row_locations' = packing.loc
    /\ next_page_id' = packing.n
    /\ on_disk_pages' = {}
    /\ lru' = [i \in 1..packing.n |-> i - 1]
    /\ memory_used' =
          SumFunction([p \in pages |->
             page_memory_bytes(PackedPage(p, packing.loc, content))]) % Modulus
    /\ thread' = [thread EXCEPT ![Vacuum].pc = "flush_read", ![Vacuum].frame = None,
                                ![Vacuum].left = 0]
    /\ unsaved' = {}
    /\ torn' = torn \cup (DOMAIN truth \ live)
                    \cup UNION {DOMAIN truth \cap RowsOf(p) :
                                   p \in LocatedPages \ DOMAIN row_space}
    /\ UNCHANGED <<limit, next_row_id, disk, image, active, truth>>

\* flush_all_pages from auto_vacuum or save_snapshot, under the table's read
\* lock: statements go on.  (At shutdown it runs without the task.)
BeginFlush ==
    /\ AutoVacuum /\ At(Vacuum, "idle")
    /\ thread' = [thread EXCEPT ![Vacuum] =
          [Idle EXCEPT !.pc = "flush_read", !.op = "flush"]]
    /\ UNCHANGED <<limit, pagevars, image, active, truth, unsaved, torn>>

\* flush_all_pages reads the pages that are only on disk, marks the resident
\* ones clean and serializes them ...
FlushRead ==
    LET cleaned == [f \in DOMAIN heap |->
                      IF \E p \in DOMAIN row_space : row_space[p] = f
                      THEN [heap[f] EXCEPT !.dirty = FALSE] ELSE heap[f]]
    IN
    /\ At(Vacuum, "flush_read")
    /\ Goto(Vacuum, "flush_write")
    /\ heap' = cleaned
    /\ image' = [p \in DOMAIN disk \cup DOMAIN row_space |->
                   IF p \in DOMAIN row_space THEN cleaned[row_space[p]] ELSE disk[p]]
    /\ UNCHANGED <<limit, row_space, row_locations, next_page_id, next_row_id,
                   memory_used, lru, disk, on_disk_pages, active, truth, unsaved,
                   torn>>

\* ... and replaces the page file, undoing what was written to it meanwhile.
FlushWrite ==
    LET resident == UNION {RowsOf(p) : p \in DOMAIN row_space}
        undone == {p \in DOMAIN disk \ DOMAIN row_space :
                      p \notin DOMAIN image \/ image[p] # disk[p]}
    IN
    /\ At(Vacuum, "flush_write")
    /\ disk' = image
    /\ on_disk_pages' = DOMAIN image
    /\ image' = Empty
    /\ thread' = [thread EXCEPT ![Vacuum] = Idle]
    /\ unsaved' = unsaved \ resident
    /\ torn' = torn \cup UNION {RowsOf(p) : p \in undone}
    /\ UNCHANGED <<limit, heap, row_space, row_locations, next_page_id,
                   next_row_id, memory_used, lru, active, truth>>

\* flush_all_pages fails to write: the pages have been marked clean already.
FlushFail ==
    /\ At(Vacuum, "flush_write")
    /\ image' = Empty
    /\ thread' = [thread EXCEPT ![Vacuum] = Idle]
    /\ unsaved' = unsaved \cup UNION {RowsOf(p) : p \in DOMAIN row_space}
    /\ UNCHANGED <<limit, pagevars, active, truth, torn>>

-----------------------------------------------------------------------------
Init ==
    /\ limit \in MemoryLimits
    /\ heap = Empty /\ row_space = Empty /\ row_locations = Empty
    /\ next_page_id = 0 /\ next_row_id = 0 /\ memory_used = 0
    /\ lru = <<>> /\ disk = Empty /\ on_disk_pages = {}
    /\ thread = [t \in Threads |-> Idle]
    /\ image = Empty
    /\ active = TxnIds
    /\ truth = Empty /\ unsaved = {} /\ torn = {}

Next ==
    \/ \E t \in Threads :
          \/ FetchHit(t) \/ FetchRead(t) \/ FetchFail(t) \/ Install(t)
          \/ EvictDone(t) \/ EvictTake(t) \/ flush_and_evict_page(t)
    \/ \E t \in Workers :
          \/ \E r \in RowIds, x \in TxnIds : BeginWrite(t, r, x)
          \/ Write(t)
          \/ \E x \in TxnIds : BeginInsert(t, x)
          \/ FindTail(t) \/ AppendTail(t) \/ register_page(t)
          \/ Place(t) \/ Locate(t)
    \/ \E x \in TxnIds : Commit(x) \/ rollback_transaction(x)
    \/ BeginVacuum \/ VacuumNext \/ compact
    \/ \E dead \in SUBSET RowIds : prune_versions(dead)
    \/ BeginFlush \/ FlushRead \/ FlushWrite \/ FlushFail

Spec == Init /\ [][Next]_vars

-----------------------------------------------------------------------------
(* Properties                                                              *)

\* Every variable has its type, and frames are shared as Arcs are.
TypeOK ==
    /\ limit \in MemoryLimits
    /\ DOMAIN heap = Live(row_space, thread) \ {None}
    /\ DOMAIN heap \subseteq Frames /\ \A f \in DOMAIN heap : heap[f] \in Page
    /\ DOMAIN row_space \subseteq 0..(next_page_id - 1)
    /\ \A p, q \in DOMAIN row_space : row_space[p] = row_space[q] => p = q
    /\ DOMAIN row_locations \subseteq 1..next_row_id
    /\ LocatedPages \subseteq 0..(next_page_id - 1)
    /\ memory_used \in 0..(Modulus - 1)
    /\ \A p \in DOMAIN disk : disk[p] \in Page
    /\ on_disk_pages \subseteq DOMAIN disk
    /\ torn \subseteq RowIds /\ unsaved \subseteq RowIds

\* No write is lost: every row that an insert has located is found where
\* row_locations says, with every write that a statement completed on it and
\* none that was rolled back, through evictions, reloads, flushes and vacuums,
\* until a row meets one of the hazards that `torn` records (table.rs:498-595,
\* 622-671, 1117-1262, 1883-2006).  From then on a page may have two copies in
\* memory, and a write to either can be lost.
RowsIntact ==
    torn = {} =>
        \A r \in DOMAIN truth :
            /\ r \in DOMAIN row_locations
            /\ r \in DOMAIN Current(row_locations[r]).rows
            /\ Current(row_locations[r]).rows[r] = truth[r]

\* A scan, which reads the pages that hold a located row, meets no row twice:
\* until a row is torn, a page holds only the rows that are located there
\* (table.rs:815-833).
ScanMeetsRowsOnce ==
    torn = {} =>
        \A p \in LocatedPages : DOMAIN Current(p).rows \subseteq RowsOf(p)

\* Without a memory limit none of the hazards can happen (config.rs:31-36).
SafeWithoutLimit == limit = 0 => torn = {}
=============================================================================
