------------------------------ MODULE PageFile ------------------------------
(***************************************************************************)
(* The page file of one table and the PageStore in front of it             *)
(* (core/page_store.rs).  The file is a header, written field by field in  *)
(* place, and a section of records: pages, and indexes that locate them.   *)
(* The store keeps the index and the header's offsets in memory, behind a  *)
(* mutex, and loads them on first use.                                     *)
(*                                                                         *)
(* Threads that evict a page merge it, threads that need a page read it,   *)
(* and the background task rewrites the whole file beside the old one and  *)
(* renames it into place.  merge_pages opens the file before it takes the  *)
(* mutex, read_page after it has left it, and the rename happens outside.  *)
(* Every write may be the last one before the process dies; a short write  *)
(* only leaves fewer bytes behind the records in use.                      *)
(*                                                                         *)
(* Lengths count records: a page is one unit, an index one unit per entry, *)
(* page locations first, row locations behind them.                        *)
(***************************************************************************)
EXTENDS Naturals, FiniteSets, FiniteSetsExt

CONSTANTS
    Threads,        \* threads that evict and load pages
    Pages,          \* page ids
    Data,           \* what a page may hold
    Absent,         \* no such page
    Unreadable,     \* what a load error or a wrong record gives
    Located,        \* candidates for the number of row locations
    MaxMerges,      \* bound: merges begun
    MaxReads,       \* bound: reads begun
    MaxFlushes,     \* bound: flushes begun
    MaxCrashes      \* bound: times the process dies

ASSUME FileAssumption ==
    /\ Absent \notin Data /\ Unreadable \notin Data \cup {Absent}
    /\ Pages \subseteq Nat /\ IsFiniteSet(Pages) /\ Located \subseteq Nat
    /\ "none" \notin Threads
    /\ {MaxMerges, MaxReads, MaxFlushes, MaxCrashes} \subseteq Nat

VARIABLES
    file,       \* the file at PageStore.path; a missing file is an empty one
    tmp,        \* what an interrupted rewrite has left in the .tmp file
    state,      \* PageStoreState
    mutex,      \* the thread inside with_state for several steps, or None
    thread,     \* where each thread is, and what it holds
    flush,      \* where flush_all_pages is, and what it holds
    done,       \* operations begun so far, for the bounds
    held,       \* history: Contents
    damaged     \* history: one of the ways to damage the file has happened

vars == <<file, tmp, state, mutex, thread, flush, done, held, damaged>>

-----------------------------------------------------------------------------
(* The file                                                                *)

HEADER_SIZE == 1
Empty == [x \in {} |-> x]
None == "none"

\* PageFileHeader; `valid` stands for the magic and the version.
HoleHeader == [valid |-> FALSE, index_offset |-> 0, index_length |-> 0,
               append_offset |-> 0]

EmptyFile == [header |-> HoleHeader, cells |-> Empty]

PageRecord(p, d) == [kind |-> "page", page |-> p, data |-> d]

\* DiskIndex: the pages it locates, and how many rows.
IndexLength(ix) == Cardinality(DOMAIN ix.pages) + ix.rows

\* serialize_index, as the records it occupies from offset a on.
serialize_index(ix, a) ==
    [o \in a..(a + IndexLength(ix) - 1) |->
        [kind |-> "index", index |-> ix, part |-> o - a]]

\* Writing at an offset replaces what is there and leaves the rest.
Over(cells, written) ==
    [o \in DOMAIN cells \cup DOMAIN written |->
        IF o \in DOMAIN written THEN written[o] ELSE cells[o]]

\* Parts 0 .. n-1 of index ix stand at offset o.
Intact(cells, o, ix, n) ==
    \A k \in 0..(n - 1) :
        cells[o + k] = [kind |-> "index", index |-> ix, part |-> k]

\* read_index_bytes and deserialize_index, as the set of what they yield; an
\* error yields nothing.  An index cut inside its row locations still yields its
\* pages, as a legacy index, and surplus bytes behind it are ignored.
read_index(cells, offset, length) ==
    IF length = 0 THEN {[index |-> Empty, rows |-> 0]}
    ELSE IF ~(offset..(offset + length - 1) \subseteq DOMAIN cells) THEN {}
    ELSE {[index |-> c.index.pages,
           rows |-> IF /\ length >= IndexLength(c.index)
                       /\ Intact(cells, offset, c.index, IndexLength(c.index))
                    THEN c.index.rows ELSE 0] :
            c \in {d \in {cells[offset]} :
                     /\ d.kind = "index"
                     /\ length >= Cardinality(DOMAIN d.index.pages)
                     /\ Intact(cells, offset, d.index,
                               Cardinality(DOMAIN d.index.pages))}}

Unloaded == [loaded |-> FALSE, index |-> Empty, rows |-> 0, index_offset |-> 0,
             index_length |-> 0, append_offset |-> 0]

\* load_state on a store not loaded yet, as the set of the state it yields; an
\* error yields none and leaves the store unloaded.
Loaded(f) ==
    IF f = EmptyFile
    THEN {[loaded |-> TRUE, index |-> Empty, rows |-> 0,
           index_offset |-> HEADER_SIZE, index_length |-> 0,
           append_offset |-> HEADER_SIZE]}
    ELSE {[loaded |-> TRUE, index |-> ix.index, rows |-> ix.rows,
           index_offset |-> f.header.index_offset,
           index_length |-> f.header.index_length,
           append_offset |-> f.header.append_offset] :
            ix \in IF f.header.valid
                   THEN read_index(f.cells, f.header.index_offset,
                                   f.header.index_length)
                   ELSE {}}

load_state == IF state.loaded THEN {state} ELSE Loaded(file)

\* read_page_bytes and the decoding of what is found there.
read_record(cells, o, p) ==
    IF o \in DOMAIN cells /\ cells[o].kind = "page" /\ cells[o].page = p
    THEN cells[o].data ELSE Unreadable

-----------------------------------------------------------------------------
(* Threads                                                                 *)

Idle == [pc |-> "idle", page |-> 0, data |-> Absent, rows |-> 0, at |-> 0,
         orphan |-> FALSE, want |-> Absent, crossed |-> FALSE]

Merging == {"page", "index", "magic", "offset", "length", "append", "sync"}

FlushIdle == [pc |-> "idle", resident |-> Empty, todo |-> {}, image |-> Empty,
              rows |-> 0, next |-> Unloaded]

At(t, pc) == thread[t].pc = pc
Goto(t, pc) == thread' = [thread EXCEPT ![t].pc = pc]

\* A thread writes through the file it has opened; once that file has been
\* replaced, nobody ever sees the write.
WriteCells(t, written) ==
    file' = IF thread[t].orphan THEN file
            ELSE [file EXCEPT !.cells = Over(@, written)]
WriteHeader(t, field, value) ==
    file' = IF thread[t].orphan THEN file ELSE [file EXCEPT !.header[field] = value]

\* What the file holds for a reader.  While a merge is under way the offsets
\* in memory still locate the index that the header located before.
Current ==
    IF mutex = None THEN Loaded(file)
    ELSE read_index(file.cells, state.index_offset, state.index_length)

Contents ==
    LET maps == {[p \in Pages |->
                    IF p \notin DOMAIN c.index THEN Absent
                    ELSE read_record(file.cells, c.index[p], p)] : c \in Current}
    IN IF maps = {} THEN [p \in Pages |-> Unreadable]
                    ELSE CHOOSE m \in maps : TRUE

Begin(op, max) == /\ done[op] < max
                  /\ done' = [done EXCEPT ![op] = @ + 1]

Init ==
    /\ file = EmptyFile
    /\ tmp = Empty
    /\ state = Unloaded
    /\ mutex = None
    /\ thread = [t \in Threads |-> Idle]
    /\ flush = FlushIdle
    /\ done = [merge |-> 0, read |-> 0, flush |-> 0, crash |-> 0]
    /\ held = [p \in Pages |-> Absent]
    /\ damaged = FALSE

-----------------------------------------------------------------------------
(* merge_pages                                                             *)

\* Opens the file; page p holds d, and `rows` rows are located.
MergeOpen(t, p, d, rows) ==
    /\ At(t, "idle") /\ Begin("merge", MaxMerges)
    /\ thread' = [thread EXCEPT ![t] = [Idle EXCEPT !.pc = "open", !.page = p,
                                                    !.data = d, !.rows = rows]]
    /\ UNCHANGED <<file, tmp, state, mutex, flush, damaged>>

\* A merge that meets a rewrite of the file, or whose file has been replaced.
Crossing(t) == flush.pc # "idle" \/ thread[t].orphan

\* with_state: takes the mutex and loads the state.
MergeLock(t) ==
    /\ At(t, "open") /\ mutex = None
    /\ \E s \in load_state :
          /\ state' = s
          /\ mutex' = t
          /\ thread' = [thread EXCEPT ![t].pc = "page",
                                      ![t].at = Max({s.append_offset, HEADER_SIZE})]
    /\ damaged' = (damaged \/ Crossing(t))
    /\ UNCHANGED <<file, tmp, flush, done>>

\* Appends the page; the index in memory already points to it.
MergePage(t) ==
    /\ At(t, "page")
    /\ LET a == thread[t].at
       IN /\ WriteCells(t, [o \in {a} |-> PageRecord(thread[t].page, thread[t].data)])
          /\ state' = [state EXCEPT !.index = Over(@, [p \in {thread[t].page} |-> a])]
          /\ thread' = [thread EXCEPT ![t].pc = "index", ![t].at = a + 1]
    /\ UNCHANGED <<tmp, mutex, flush, done, damaged>>

\* Mutant: the header's first field is written together with the index.
MergeIndexEagerly(t) ==
    /\ At(t, "index")
    /\ file' = IF thread[t].orphan THEN file
               ELSE [file EXCEPT !.header.index_offset = thread[t].at,
                        !.cells = Over(@, serialize_index([pages |-> state.index,
                                      rows |-> thread[t].rows], thread[t].at))]
    /\ state' = [state EXCEPT !.rows = thread[t].rows]
    /\ Goto(t, "magic")
    /\ UNCHANGED <<tmp, mutex, flush, done, damaged>>

\* Mutant: the index written has the merged page only.
MergeIndexOnlyNew(t) ==
    /\ At(t, "index")
    /\ WriteCells(t, serialize_index(
          [pages |-> [p \in {thread[t].page} |-> state.index[p]],
           rows |-> thread[t].rows], thread[t].at))
    /\ state' = [state EXCEPT !.rows = thread[t].rows]
    /\ Goto(t, "magic")
    /\ UNCHANGED <<tmp, mutex, flush, done, damaged>>

\* Appends the index with the new row locations.
MergeIndex(t) ==
    /\ At(t, "index")
    /\ WriteCells(t, serialize_index([pages |-> state.index,
                                      rows |-> thread[t].rows], thread[t].at))
    /\ state' = [state EXCEPT !.rows = thread[t].rows]
    /\ Goto(t, "magic")
    /\ UNCHANGED <<tmp, mutex, flush, done, damaged>>

NewLength == IndexLength([pages |-> state.index, rows |-> state.rows])

\* PageFileHeader::write_to, one step for each field; the magic and the
\* version, which only a new file lacks, are one.
WriteMagic(t) ==
    /\ At(t, "magic")
    /\ WriteHeader(t, "valid", TRUE)
    /\ Goto(t, "offset")
    /\ UNCHANGED <<tmp, state, mutex, flush, done, damaged>>

\* Mutant: the header keeps the offset of the old index.
WriteOldOffset(t) ==
    /\ At(t, "offset")
    /\ WriteHeader(t, "index_offset", state.index_offset)
    /\ Goto(t, "length")
    /\ UNCHANGED <<tmp, state, mutex, flush, done, damaged>>

WriteOffset(t) ==
    /\ At(t, "offset")
    /\ WriteHeader(t, "index_offset", thread[t].at)
    /\ Goto(t, "length")
    /\ UNCHANGED <<tmp, state, mutex, flush, done, damaged>>

WriteLength(t) ==
    /\ At(t, "length")
    /\ WriteHeader(t, "index_length", NewLength)
    /\ Goto(t, "append")
    /\ UNCHANGED <<tmp, state, mutex, flush, done, damaged>>

WriteAppend(t) ==
    /\ At(t, "append")
    /\ WriteHeader(t, "append_offset", thread[t].at + NewLength)
    /\ Goto(t, "sync")
    /\ UNCHANGED <<tmp, state, mutex, flush, done, damaged>>

\* Mutant: the append cursor in memory stays behind.
MergeDoneStaleCursor(t) ==
    /\ At(t, "sync")
    /\ state' = [state EXCEPT !.index_offset = thread[t].at,
                              !.index_length = NewLength]
    /\ mutex' = None
    /\ thread' = [thread EXCEPT ![t] = Idle]
    /\ UNCHANGED <<file, tmp, flush, done, damaged>>

\* sync_all; the offsets in memory follow, and the mutex is released.
MergeDone(t) ==
    /\ At(t, "sync")
    /\ state' = [state EXCEPT !.index_offset = thread[t].at,
                              !.index_length = NewLength,
                              !.append_offset = thread[t].at + NewLength]
    /\ mutex' = None
    /\ thread' = [thread EXCEPT ![t] = Idle]
    /\ UNCHANGED <<file, tmp, flush, done, damaged>>

\* An I/O error, or a file that does not load: nothing is undone.  The index in
\* memory keeps the page that the cursor will overwrite.
MergeFail(t) ==
    /\ thread[t].pc \in {"open"} \cup Merging
    /\ At(t, "open") => mutex = None
    /\ mutex' = None
    /\ thread' = [thread EXCEPT ![t] = Idle]
    /\ damaged' = (damaged \/ thread[t].pc \in Merging \ {"page"})
    /\ UNCHANGED <<file, tmp, state, flush, done>>

-----------------------------------------------------------------------------
(* read_page                                                               *)

\* Finds the page's place under the mutex.
ReadLocate(t, p) ==
    /\ At(t, "idle") /\ mutex = None /\ Begin("read", MaxReads)
    /\ \E s \in load_state :
          /\ state' = s
          /\ thread' = IF p \notin DOMAIN s.index THEN thread
                       ELSE [thread EXCEPT ![t] =
                               [Idle EXCEPT !.pc = "located", !.page = p,
                                            !.at = s.index[p],
                                            !.want = held[p],
                                            !.crossed = flush.pc = "publish"]]
    /\ UNCHANGED <<file, tmp, mutex, flush, damaged>>

\* Opens the file and reads there.
ReadRecord(t) ==
    /\ At(t, "located")
    /\ thread' = [thread EXCEPT ![t].pc = "read",
                     ![t].data = read_record(file.cells, thread[t].at, thread[t].page)]
    /\ UNCHANGED <<file, tmp, state, mutex, flush, done, damaged>>

ReadDone(t) ==
    /\ At(t, "read")
    /\ thread' = [thread EXCEPT ![t] = Idle]
    /\ UNCHANGED <<file, tmp, state, mutex, flush, done, damaged>>

-----------------------------------------------------------------------------
(* flush_all_pages and write_all_serialized                                *)

\* Lists the pages on disk; those in memory come from there.
FlushList(resident, rows) ==
    /\ flush.pc = "idle" /\ mutex = None /\ Begin("flush", MaxFlushes)
    /\ \E s \in load_state :
          /\ state' = s
          /\ flush' = [FlushIdle EXCEPT !.pc = "copy", !.resident = resident,
                                        !.rows = rows, !.image = resident,
                                        !.todo = DOMAIN s.index \ DOMAIN resident]
    /\ UNCHANGED <<file, tmp, mutex, thread, damaged>>

\* read_page for a page that is not in memory; the file cannot be replaced
\* meanwhile, and an unreadable record fails the flush.
FlushCopy(p) ==
    /\ flush.pc = "copy" /\ mutex = None /\ p \in flush.todo
    /\ LET d == read_record(file.cells, state.index[p], p)
       IN flush' = IF d = Unreadable THEN FlushIdle
                   ELSE [flush EXCEPT !.todo = @ \ {p},
                                      !.image = Over(@, [q \in {p} |-> d])]
    /\ UNCHANGED <<file, tmp, state, mutex, thread, done, damaged>>

\* Where the pages of a compact file go: one behind the other, by page id.
Compact(S) == [p \in S |-> HEADER_SIZE + Cardinality({q \in S : q < p})]

\* What stands at each of those places.
CompactPages(image) ==
    [o \in HEADER_SIZE..(HEADER_SIZE + Cardinality(DOMAIN image) - 1) |->
        LET p == CHOOSE q \in DOMAIN image : Compact(DOMAIN image)[q] = o
        IN PageRecord(p, image[p])]

\* write_compact_file_from_bytes up to its sync: the temporary file is not
\* truncated, only written over.  An interruption leaves some of it.
FlushWrite ==
    LET S == DOMAIN flush.image
        a == HEADER_SIZE + Cardinality(S)
    IN
    /\ flush.pc = "copy" /\ flush.todo = {}
    /\ LET place == Compact(S)
           ix == [pages |-> place, rows |-> flush.rows]
       IN /\ tmp' = Over(tmp, Over(CompactPages(flush.image), serialize_index(ix, a)))
          /\ flush' = [flush EXCEPT !.pc = "rename",
                          !.next = [loaded |-> TRUE, index |-> place,
                                    rows |-> flush.rows, index_offset |-> a,
                                    index_length |-> IndexLength(ix),
                                    append_offset |-> a + IndexLength(ix)]]
    /\ UNCHANGED <<file, state, mutex, thread, done, damaged>>

\* The rename puts the new file in place; whoever has the old one open keeps it.
FlushRename ==
    /\ flush.pc = "rename"
    /\ file' = [header |-> [valid |-> TRUE, index_offset |-> flush.next.index_offset,
                            index_length |-> flush.next.index_length,
                            append_offset |-> flush.next.append_offset],
                cells |-> tmp]
    /\ tmp' = Empty
    /\ thread' = [t \in Threads |->
          [thread[t] EXCEPT !.orphan = @ \/ thread[t].pc \in {"open"} \cup Merging,
                            !.crossed = @ \/ At(t, "located")]]
    /\ flush' = [flush EXCEPT !.pc = "publish"]
    /\ UNCHANGED <<state, mutex, done, damaged>>

\* Mutant: the state in memory is left to be loaded later, and is not.
FlushPublishNothing ==
    /\ flush.pc = "publish" /\ mutex = None
    /\ flush' = FlushIdle
    /\ UNCHANGED <<file, tmp, state, mutex, thread, done, damaged>>

\* populate_state under the mutex.
FlushPublish ==
    /\ flush.pc = "publish" /\ mutex = None
    /\ state' = flush.next
    /\ flush' = FlushIdle
    /\ UNCHANGED <<file, tmp, mutex, thread, done, damaged>>

FlushFail ==
    /\ flush.pc \in {"copy", "rename"}
    /\ flush' = FlushIdle
    /\ UNCHANGED <<file, tmp, state, mutex, thread, done, damaged>>

-----------------------------------------------------------------------------
\* The moments at which dying leaves a header that fits no index: the fields
\* of one merge partly written, or a new file without its header.
HeaderTorn ==
    mutex # None /\ ~thread[mutex].orphan
    /\ \/ thread[mutex].pc = "length" /\ file.header.index_length > 0
       \/ thread[mutex].pc = "append"
       \/ thread[mutex].pc \in {"index", "magic"} /\ ~file.header.valid

\* The process dies and starts again; what is in memory is gone.
Crash ==
    /\ Begin("crash", MaxCrashes)
    /\ state' = Unloaded
    /\ mutex' = None
    /\ thread' = [t \in Threads |-> Idle]
    /\ flush' = FlushIdle
    /\ damaged' = (damaged \/ HeaderTorn)
    /\ UNCHANGED <<file, tmp>>

Step ==
    \/ \E t \in Threads :
          \/ \E p \in Pages, d \in Data, rows \in Located : MergeOpen(t, p, d, rows)
          \/ MergeLock(t) \/ MergePage(t) \/ MergeIndex(t)
          \/ WriteMagic(t) \/ WriteOffset(t) \/ WriteLength(t) \/ WriteAppend(t)
          \/ MergeDone(t) \/ MergeFail(t)
          \/ \E p \in Pages : ReadLocate(t, p)
          \/ ReadRecord(t) \/ ReadDone(t)
    \/ \E S \in SUBSET Pages : \E resident \in [S -> Data], rows \in Located :
          FlushList(resident, rows)
    \/ \E p \in Pages : FlushCopy(p)
    \/ FlushWrite \/ FlushRename \/ FlushPublish \/ FlushFail
    \/ Crash

\* `held` follows the file.
Next == Step /\ held' = Contents'

Spec == Init /\ [][Next]_vars

-----------------------------------------------------------------------------
(* Properties                                                              *)

\* Between operations the store in memory is what a restart would load from
\* the file, and its append cursor lies behind every record in use, so that no
\* merge writes over one (page_store.rs:196-240, 500-510).
StoreMatchesFile ==
    state.loaded /\ mutex = None /\ flush.pc # "publish" /\ ~damaged =>
        /\ Loaded(file) = {state}
        /\ \A p \in DOMAIN state.index : state.index[p] < state.append_offset
        /\ state.index_length > 0 =>
              state.index_offset + state.index_length <= state.append_offset

\* The page file is a page map: every merge and every flush takes effect in one
\* step, as a whole, and a process that dies at any other point than inside the
\* header of a merge leaves the pages as they were (page_store.rs:45-59,
\* 327-381, 450-510).  What damages it is named by the actions above: a merge
\* that fails after its page is written, a merge that meets a rewrite or
\* a replaced file, and a header torn by a crash.
Offered ==
    {[p \in {thread[t].page} |-> thread[t].data] :
        t \in {u \in Threads : thread[u].pc \in {"open"} \cup Merging}}
    \cup (IF flush.pc \in {"copy", "rename"} THEN {flush.resident} ELSE {})
Map == INSTANCE PageMap WITH contents <- held, offered <- Offered
ImplementsPageMap == Map!Spec

\* A read returns what the page held when it was located, however many merges
\* complete before the bytes are read, because records in use are never
\* overwritten; unless the file was damaged, or was replaced between the two
\* halves of the read (page_store.rs:512-523).
ReadsReturnLocated ==
    \A t \in Threads :
        At(t, "read") /\ ~thread[t].crossed /\ ~damaged =>
            thread[t].data = thread[t].want

\* A crash never mixes pages up: what loads afterwards is the map before or
\* after the interrupted merge, or an error.  The mixing comes later, with the
\* merge that trusts the append cursor of a torn header (page_store.rs:45-59).
After(t) == [held EXCEPT ![thread[t].page] = thread[t].data]
CrashIsAllOrNothing ==
    [][done'.crash > done.crash /\ ~damaged =>
         \/ held' = held
         \/ mutex # None /\ held' = After(mutex)
         \/ \A p \in Pages : held'[p] = Unreadable]_vars

\* A merge that returns has taken effect, and so has a flush that returns
\* (page_store.rs:420-431, 500-510).
AcknowledgedHolds ==
    [][~damaged' /\ done'.crash = done.crash =>
         /\ \A t \in Threads : At(t, "sync") /\ thread'[t].pc = "idle" =>
               held' = After(t)
         /\ flush.pc = "publish" /\ flush'.pc = "idle" =>
               \A p \in DOMAIN flush.resident : held'[p] = flush.resident[p]]_vars

==============================================================================
