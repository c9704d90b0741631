---------------------------- MODULE PageFileProofs ----------------------------
(***************************************************************************)
(* Proofs about PageFile: as long as none of the named kinds of damage has *)
(* happened, the store agrees with its file, reads return what was         *)
(* located, and the file implements a page map.                            *)
(***************************************************************************)
EXTENDS PageFile, FiniteSetTheorems, TLAPS

-----------------------------------------------------------------------------
(* The inductive invariant                                                 *)

Header == [valid : BOOLEAN, index_offset : Nat, index_length : Nat,
           append_offset : Nat]

\* A map from some of the pages to their places.
IsTable(m) ==
    /\ m = [p \in DOMAIN m |-> m[p]]
    /\ DOMAIN m \subseteq Pages
    /\ \A p \in DOMAIN m : m[p] \in Nat

\* A map from some of the pages to their contents.
IsImage(m) ==
    /\ m = [p \in DOMAIN m |-> m[p]]
    /\ DOMAIN m \subseteq Pages
    /\ \A p \in DOMAIN m : m[p] \in Data

\* The index that an offset and a length locate.
IndexAt(cells, o, n) ==
    IF n = 0 THEN [pages |-> Empty, rows |-> 0] ELSE cells[o].index

\* The whole index stands there, and it and the pages that it locates are below
\* `end`, where the next record goes.
Sound(cells, o, n, end) ==
    LET ix == IndexAt(cells, o, n)
    IN /\ o \in Nat /\ n \in Nat /\ end \in Nat
       /\ IsTable(ix.pages) /\ ix.rows \in Nat
       /\ n = IndexLength(ix)
       /\ o..(o + n - 1) \subseteq DOMAIN cells
       /\ Intact(cells, o, ix, n)
       /\ n > 0 => o + n <= end
       /\ \A p \in DOMAIN ix.pages :
             /\ ix.pages[p] \in DOMAIN cells
             /\ ix.pages[p] < end
             /\ cells[ix.pages[p]] = PageRecord(p, cells[ix.pages[p]].data)
             /\ cells[ix.pages[p]].data \in Data

\* The state that loads from there, and the pages that it finds.
StateAt(cells, o, n, end) ==
    [loaded |-> TRUE, index |-> IndexAt(cells, o, n).pages,
     rows |-> IndexAt(cells, o, n).rows, index_offset |-> o,
     index_length |-> n, append_offset |-> end]

PagesAt(cells, o, n) ==
    LET ix == IndexAt(cells, o, n).pages
    IN [p \in Pages |-> IF p \in DOMAIN ix THEN cells[ix[p]].data ELSE Absent]

\* A state whose offsets and index agree with the file.
Agrees(cells, s) ==
    /\ Sound(cells, s.index_offset, s.index_length, s.append_offset)
    /\ s = StateAt(cells, s.index_offset, s.index_length, s.append_offset)

\* A file between operations: a new one, or one whose header locates its index.
Whole(f) ==
    \/ f = EmptyFile
    \/ /\ f.header.valid
       /\ Sound(f.cells, f.header.index_offset, f.header.index_length,
                f.header.append_offset)

StateShape(s) ==
    s = [loaded |-> s.loaded, index |-> s.index, rows |-> s.rows,
         index_offset |-> s.index_offset, index_length |-> s.index_length,
         append_offset |-> s.append_offset]

LocalShape(x) ==
    x = [pc |-> x.pc, page |-> x.page, data |-> x.data, rows |-> x.rows,
         at |-> x.at, orphan |-> x.orphan, want |-> x.want, crossed |-> x.crossed]

FlushShape(x) ==
    x = [pc |-> x.pc, resident |-> x.resident, todo |-> x.todo, image |-> x.image,
         rows |-> x.rows, next |-> x.next]

Counts == [merge : Nat, read : Nat, flush : Nat, crash : Nat]

Shapes ==
    /\ file = [header |-> file.header, cells |-> file.cells]
    /\ file.header \in Header
    /\ StateShape(state)
    /\ state = Unloaded \/ state.loaded = TRUE
    /\ mutex \in Threads \cup {None}
    /\ DOMAIN thread = Threads /\ thread = [t \in Threads |-> thread[t]]
    /\ \A t \in Threads : LocalShape(thread[t])
    /\ FlushShape(flush)
    /\ flush.pc \in {"idle", "copy", "rename", "publish"}
    /\ done \in Counts

Merges(x) ==
    x.pc \in {"open"} \cup Merging => x.page \in Pages /\ x.data \in Data /\ x.rows \in Nat

\* One thread at a time is inside a merge, never beside a rewrite of the file,
\* and it writes to the file that everybody reads.
MergesApart ==
    /\ \A t \in Threads : thread[t].pc \in Merging <=> mutex = t
    /\ mutex # None => flush.pc = "idle" /\ ~thread[mutex].orphan
    /\ \A t \in Threads : Merges(thread[t])

\* Between merges the file is whole, and a loaded store is what it holds.
BetweenMerges ==
    mutex = None =>
        /\ Whole(file)
        /\ state.loaded /\ flush.pc # "publish" => Loaded(file) = {state}

\* The new index of a merge.
NewIndex == [pages |-> state.index, rows |-> state.rows]

\* An index with a place added.
Grown(m, p, a) == Over(m, [q \in {p} |-> a])

\* How far a merge has come: what it has appended, and which fields of the
\* header already locate the new index.
MergeProgress(x) ==
    LET a == Max({state.append_offset, HEADER_SIZE})
        ix == IndexAt(file.cells, state.index_offset, state.index_length)
        h == file.header
    IN /\ state.loaded = TRUE
       /\ Sound(file.cells, state.index_offset, state.index_length,
                state.append_offset)
       /\ x.pc = "page" =>
             /\ Whole(file) /\ Loaded(file) = {state}
             /\ x.at = a
       /\ x.pc # "page" =>
             /\ x.at = a + 1
             /\ a \in DOMAIN file.cells
             /\ file.cells[a] = PageRecord(x.page, x.data)
             /\ state.index = Grown(ix.pages, x.page, a)
       /\ x.pc \notin {"page", "index"} =>
             /\ state.rows = x.rows
             /\ x.at..(x.at + NewLength - 1) \subseteq DOMAIN file.cells
             /\ Intact(file.cells, x.at, NewIndex, NewLength)
       /\ x.pc \notin {"page", "index", "magic"} => h.valid
       /\ x.pc \notin {"append", "sync"} => h.index_length = state.index_length
       /\ x.pc \in {"index", "magic", "offset"} /\ h.index_length > 0 =>
             /\ h.index_offset = state.index_offset
             /\ h.append_offset = state.append_offset
       /\ x.pc \in {"length", "append", "sync"} => h.index_offset = x.at
       /\ x.pc \in {"append", "sync"} => h.index_length = NewLength
       /\ x.pc = "sync" => h.append_offset = x.at + NewLength

\* What the file will hold once the flush has taken effect.
Flushed == [p \in Pages |-> IF p \in DOMAIN flush.resident THEN flush.resident[p]
                                                           ELSE held[p]]

\* How far a flush has come: the pages copied so far, the new file, the
\* rename.
FlushProgress ==
    flush.pc # "idle" =>
        /\ state.loaded = TRUE
        /\ IsImage(flush.resident) /\ flush.rows \in Nat
        /\ flush.pc = "copy" =>
              /\ IsImage(flush.image)
              /\ flush.todo \subseteq DOMAIN state.index
              /\ flush.todo \cap DOMAIN flush.resident = {}
              /\ \A p \in DOMAIN flush.image : flush.image[p] = Flushed[p]
              /\ \A p \in Pages : p \notin DOMAIN flush.image \cup flush.todo =>
                    Flushed[p] = Absent
        /\ flush.pc = "rename" =>
              /\ Agrees(tmp, flush.next)
              /\ PagesAt(tmp, flush.next.index_offset, flush.next.index_length)
                    = Flushed
        /\ flush.pc = "publish" =>
              /\ Loaded(file) = {flush.next}
              /\ \A p \in DOMAIN flush.resident : held[p] = flush.resident[p]

\* A place found by a read stays below the append cursor and keeps its page.
ReadProgress(x) ==
    ~x.crossed =>
        /\ x.pc = "located" =>
              /\ state.loaded = TRUE /\ flush.pc # "publish"
              /\ x.at \in Nat /\ x.at < state.append_offset
              /\ x.at \in DOMAIN file.cells
              /\ file.cells[x.at] = PageRecord(x.page, x.want)
        /\ x.pc = "read" => x.data = x.want

Undamaged ==
    /\ Shapes
    /\ MergesApart
    /\ BetweenMerges
    /\ mutex # None => MergeProgress(thread[mutex])
    /\ FlushProgress
    /\ \A t \in Threads : ReadProgress(thread[t])

\* The inductive invariant: nothing is claimed of a damaged file.
FileInv ==
    /\ damaged \in BOOLEAN
    /\ held = Contents
    /\ ~damaged => Undamaged

-----------------------------------------------------------------------------
(* Lemmas about the operators                                              *)

\* merge_pages puts its page behind the header and behind the append cursor
\* (page_store.rs:450-510).
LEMMA Cursor ==
  ASSUME NEW n \in Nat
  PROVE  /\ Max({n, HEADER_SIZE}) \in Nat
         /\ Max({n, HEADER_SIZE}) >= n /\ Max({n, HEADER_SIZE}) >= HEADER_SIZE
  <1> DEFINE m == IF n >= 1 THEN n ELSE 1
  <1>1. /\ m \in {n, 1} /\ m \in Nat /\ \A y \in {n, 1} : m >= y
        /\ \A x \in {n, 1} : (\A y \in {n, 1} : x >= y) => x = m
    OBVIOUS
  <1>2. Max({n, 1}) = m
    BY <1>1 DEF Max
  <1> QED  BY <1>1, <1>2 DEF HEADER_SIZE

LEMMA EmptyMap == DOMAIN Empty = {} /\ IsTable(Empty)
  BY DEF Empty, IsTable

LEMMA TableLength ==
  ASSUME NEW m, IsTable(m)
  PROVE  /\ IsFiniteSet(DOMAIN m) /\ Cardinality(DOMAIN m) \in Nat
         /\ Cardinality(DOMAIN m) = 0 <=> DOMAIN m = {}
  BY FS_Subset, FS_CardinalityType, FS_EmptySet, FileAssumption DEF IsTable

\* A table with nothing in it is the empty one.
LEMMA EmptyTable ==
  ASSUME NEW m, IsTable(m), DOMAIN m = {}
  PROVE  m = Empty
  BY DEF IsTable, Empty

\* An index of no length is sound anywhere.
LEMMA EmptySound ==
  ASSUME NEW cells, NEW o \in Nat, NEW end \in Nat
  PROVE  Sound(cells, o, 0, end)
  <1>1. IndexAt(cells, o, 0) = [pages |-> Empty, rows |-> 0]
    BY DEF IndexAt
  <1>2. Cardinality(DOMAIN Empty) = 0
    BY EmptyMap, FS_EmptySet
  <1>3. o..(o + 0 - 1) = {} /\ 0..(0 - 1) = {}
    OBVIOUS
  <1> QED  BY <1>1, <1>2, <1>3, EmptyMap DEF Sound, IndexLength, Intact

\* read_index_bytes and deserialize_index find a sound index
\* (page_store.rs:100-194).
LEMMA SoundReads ==
  ASSUME NEW cells, NEW o, NEW n, NEW end, Sound(cells, o, n, end)
  PROVE  read_index(cells, o, n) = {[index |-> IndexAt(cells, o, n).pages,
                                     rows |-> IndexAt(cells, o, n).rows]}
  <1> DEFINE ix == IndexAt(cells, o, n)
  <1>1. CASE n = 0
    BY <1>1 DEF read_index, IndexAt
  <1>2. CASE n # 0
    <2>0. n \in Nat /\ o \in Nat /\ n > 0
      BY <1>2 DEF Sound
    <2>1. cells[o] = [kind |-> "index", index |-> ix, part |-> 0]
      <3>1. 0 \in 0..(n - 1) /\ o + 0 = o
        BY <2>0
      <3> QED  BY <3>1 DEF Sound, Intact
    <2>2. Cardinality(DOMAIN ix.pages) \in Nat /\ ix.rows \in Nat
          /\ n = Cardinality(DOMAIN ix.pages) + ix.rows
      BY TableLength DEF Sound, IndexLength
    <2>3. Intact(cells, o, ix, Cardinality(DOMAIN ix.pages))
      <3>1. 0..(Cardinality(DOMAIN ix.pages) - 1) \subseteq 0..(n - 1)
        BY <2>2
      <3> QED  BY <3>1 DEF Sound, Intact
    <2>4. Intact(cells, o, ix, IndexLength(ix)) /\ n >= IndexLength(ix)
      BY <2>0 DEF Sound
    <2>5. o..(o + n - 1) \subseteq DOMAIN cells
      BY DEF Sound
    <2> HIDE DEF ix
    <2>6. {d \in {cells[o]} : /\ d.kind = "index"
                              /\ n >= Cardinality(DOMAIN d.index.pages)
                              /\ Intact(cells, o, d.index, Cardinality(DOMAIN d.index.pages))}
            = {cells[o]}
      BY <2>0, <2>1, <2>2, <2>3
    <2>7. read_index(cells, o, n)
            = {[index |-> c.index.pages,
                rows |-> IF /\ n >= IndexLength(c.index)
                            /\ Intact(cells, o, c.index, IndexLength(c.index))
                         THEN c.index.rows ELSE 0] : c \in {cells[o]}}
      BY <1>2, <2>5, <2>6 DEF read_index
    <2>8. read_index(cells, o, n) = {[index |-> ix.pages, rows |-> ix.rows]}
      BY <2>1, <2>4, <2>7
    <2> QED  BY <2>8 DEF ix
  <1> QED  BY <1>1, <1>2

\* Writing behind the append cursor keeps a sound index sound and its pages
\* as they are.
LEMMA AppendKeeps ==
  ASSUME NEW cells, NEW o, NEW n, NEW end, Sound(cells, o, n, end),
         NEW written, \A x \in DOMAIN written : x \in Nat /\ x >= end
  PROVE  /\ Sound(Over(cells, written), o, n, end)
         /\ IndexAt(Over(cells, written), o, n) = IndexAt(cells, o, n)
         /\ PagesAt(Over(cells, written), o, n) = PagesAt(cells, o, n)
  <1> DEFINE ix == IndexAt(cells, o, n)
             new == Over(cells, written)
  <1>1. /\ DOMAIN cells \subseteq DOMAIN new
        /\ \A x \in DOMAIN cells : x < end /\ x \in Nat => new[x] = cells[x]
    BY DEF Over, Sound
  <1>2. n > 0 => \A x \in o..(o + n - 1) : x \in DOMAIN cells /\ x < end /\ x \in Nat
    BY DEF Sound
  <1>3. IndexAt(new, o, n) = ix
    <2>1. n > 0 => o \in o..(o + n - 1)
      BY DEF Sound
    <2> QED  BY <1>1, <1>2, <2>1 DEF IndexAt, Sound
  <1>4. \A p \in DOMAIN ix.pages : /\ ix.pages[p] \in DOMAIN new
                                   /\ new[ix.pages[p]] = cells[ix.pages[p]]
    BY <1>1 DEF Sound, IsTable
  <1>5. Intact(new, o, ix, n)
    <2>1. \A k \in 0..(n - 1) : o + k \in o..(o + n - 1) /\ n > 0
      BY DEF Sound
    <2>2. \A k \in 0..(n - 1) : new[o + k] = cells[o + k]
      BY <1>1, <1>2, <2>1
    <2> QED  BY <2>2 DEF Sound, Intact
  <1>6. Sound(new, o, n, end)
    BY <1>1, <1>3, <1>4, <1>5 DEF Sound
  <1>7. PagesAt(new, o, n) = PagesAt(cells, o, n)
    BY <1>3, <1>4 DEF PagesAt
  <1> QED  BY <1>3, <1>6, <1>7

\* load_state on a whole file (page_store.rs:196-240).
LEMMA WholeLoads ==
  ASSUME NEW f, f.header \in Header, Whole(f)
  PROVE  \E s : /\ Loaded(f) = {s} /\ Agrees(f.cells, s) /\ s.loaded = TRUE
                /\ s.index_length = f.header.index_length
                /\ s.index_length > 0 => /\ s.index_offset = f.header.index_offset
                                         /\ s.append_offset = f.header.append_offset
  <1>1. CASE f = EmptyFile
    <2> DEFINE s == [loaded |-> TRUE, index |-> Empty, rows |-> 0,
                     index_offset |-> HEADER_SIZE, index_length |-> 0,
                     append_offset |-> HEADER_SIZE]
    <2>1. Loaded(f) = {s}
      BY <1>1 DEF Loaded
    <2>2. Agrees(f.cells, s)
      BY EmptySound DEF Agrees, StateAt, IndexAt, HEADER_SIZE
    <2>3. s.index_length = 0 /\ f.header.index_length = 0 /\ s.loaded = TRUE
      BY <1>1 DEF EmptyFile, HoleHeader
    <2> HIDE DEF s
    <2>4. ~(s.index_length > 0)
      BY <2>3
    <2> QED  BY <2>1, <2>2, <2>3, <2>4
  <1>2. CASE f # EmptyFile
    <2> DEFINE h == f.header
               s == StateAt(f.cells, h.index_offset, h.index_length, h.append_offset)
               r == [index |-> s.index, rows |-> s.rows]
    <2>1. h.valid /\ Sound(f.cells, h.index_offset, h.index_length, h.append_offset)
      BY <1>2 DEF Whole
    <2>2. s = [loaded |-> TRUE, index |-> r.index, rows |-> r.rows,
               index_offset |-> h.index_offset, index_length |-> h.index_length,
               append_offset |-> h.append_offset]
      BY DEF StateAt
    <2>3. read_index(f.cells, h.index_offset, h.index_length) = {r}
      BY <2>1, SoundReads DEF StateAt
    <2>4. Loaded(f) = {s}
      BY <1>2, <2>1, <2>2, <2>3 DEF Loaded
    <2>5. Agrees(f.cells, s)
      BY <2>1 DEF Agrees, StateAt
    <2>6. /\ s.loaded = TRUE /\ s.index_offset = h.index_offset
          /\ s.index_length = h.index_length /\ s.append_offset = h.append_offset
      BY <2>2
    <2> QED  BY <2>4, <2>5, <2>6
  <1> QED  BY <1>1, <1>2

\* What a reader finds with one of the states in S.
PagesFor(cells, S) ==
    LET maps == {[p \in Pages |->
                    IF p \notin DOMAIN c.index THEN Absent
                    ELSE read_record(cells, c.index[p], p)] : c \in S}
    IN IF maps = {} THEN [p \in Pages |-> Unreadable]
                    ELSE CHOOSE m \in maps : TRUE

LEMMA ContentsAre == Contents = PagesFor(file.cells, Current)
  BY DEF Contents, PagesFor

LEMMA OneReader ==
  ASSUME NEW cells, NEW c
  PROVE  PagesFor(cells, {c})
           = [p \in Pages |-> IF p \notin DOMAIN c.index THEN Absent
                              ELSE read_record(cells, c.index[p], p)]
  <1> DEFINE m == [p \in Pages |-> IF p \notin DOMAIN c.index THEN Absent
                                   ELSE read_record(cells, c.index[p], p)]
  <1>1. PagesFor(cells, {c}) = IF {m} = {} THEN [p \in Pages |-> Unreadable]
                               ELSE CHOOSE x \in {m} : TRUE
    BY DEF PagesFor
  <1> HIDE DEF m
  <1>2. PagesFor(cells, {c}) = m
    BY <1>1
  <1> QED  BY <1>2 DEF m

\* A reader with a sound index finds the pages that it locates.
LEMMA SoundPages ==
  ASSUME NEW cells, NEW o, NEW n, NEW end, Sound(cells, o, n, end),
         NEW c, c.index = IndexAt(cells, o, n).pages
  PROVE  PagesFor(cells, {c}) = PagesAt(cells, o, n)
  <1> DEFINE ix == IndexAt(cells, o, n).pages
  <1>1. ASSUME NEW p \in DOMAIN ix
        PROVE  read_record(cells, ix[p], p) = cells[ix[p]].data
    <2>1. /\ ix[p] \in DOMAIN cells
          /\ cells[ix[p]] = [kind |-> "page", page |-> p, data |-> cells[ix[p]].data]
      BY DEF Sound, PageRecord
    <2> HIDE DEF ix
    <2>2. cells[ix[p]].kind = "page" /\ cells[ix[p]].page = p
      BY <2>1
    <2> QED  BY <2>1, <2>2 DEF read_record
  <1> HIDE DEF ix
  <1>2. PagesAt(cells, o, n)
          = [p \in Pages |-> IF p \in DOMAIN ix THEN cells[ix[p]].data ELSE Absent]
    BY DEF PagesAt, ix
  <1>3. c.index = ix
    BY DEF ix
  <1>4. \A p \in Pages :
           (IF p \notin DOMAIN c.index THEN Absent ELSE read_record(cells, c.index[p], p))
           = (IF p \in DOMAIN ix THEN cells[ix[p]].data ELSE Absent)
    BY <1>1, <1>3
  <1>5. PagesFor(cells, {c})
          = [p \in Pages |-> IF p \notin DOMAIN c.index THEN Absent
                             ELSE read_record(cells, c.index[p], p)]
    BY OneReader
  <1> QED  BY <1>2, <1>4, <1>5

\* What a whole file and what a merge in progress hold for a reader.
LEMMA WholePages ==
  ASSUME NEW f, NEW s, Agrees(f.cells, s), Loaded(f) = {s}
  PROVE  PagesFor(f.cells, Loaded(f)) = PagesAt(f.cells, s.index_offset, s.index_length)
  <1>1. s.index = IndexAt(f.cells, s.index_offset, s.index_length).pages
    BY DEF Agrees, StateAt
  <1> QED  BY <1>1, SoundPages DEF Agrees

LEMMA LocatedPages ==
  ASSUME NEW cells, NEW o, NEW n, NEW end, Sound(cells, o, n, end)
  PROVE  PagesFor(cells, read_index(cells, o, n)) = PagesAt(cells, o, n)
  <1> DEFINE c == [index |-> IndexAt(cells, o, n).pages,
                   rows |-> IndexAt(cells, o, n).rows]
  <1>1. read_index(cells, o, n) = {c} /\ c.index = IndexAt(cells, o, n).pages
    BY SoundReads
  <1> QED  BY <1>1, SoundPages

LEMMA AgreesFields ==
  ASSUME NEW cells, NEW s, Agrees(cells, s)
  PROVE  /\ s.index = IndexAt(cells, s.index_offset, s.index_length).pages
         /\ s.rows = IndexAt(cells, s.index_offset, s.index_length).rows
         /\ s = [loaded |-> TRUE, index |-> s.index, rows |-> s.rows,
                 index_offset |-> s.index_offset, index_length |-> s.index_length,
                 append_offset |-> s.append_offset]
  BY DEF Agrees, StateAt

LEMMA UniqueState ==
  ASSUME NEW f, NEW s, f.header \in Header, Whole(f), Loaded(f) = {s}
  PROVE  /\ Agrees(f.cells, s) /\ s.loaded = TRUE
         /\ s.index_length = f.header.index_length
         /\ s.index_length > 0 => /\ s.index_offset = f.header.index_offset
                                  /\ s.append_offset = f.header.append_offset
  <1>1. PICK u : /\ Loaded(f) = {u} /\ Agrees(f.cells, u) /\ u.loaded = TRUE
                 /\ u.index_length = f.header.index_length
                 /\ u.index_length > 0 => /\ u.index_offset = f.header.index_offset
                                          /\ u.append_offset = f.header.append_offset
    BY WholeLoads
  <1>2. u = s
    BY <1>1
  <1> QED  BY <1>1, <1>2

\* The pages held, while nothing is being merged and while something is.
LEMMA HeldBetween ==
  ASSUME Undamaged, held = Contents, mutex = None
  PROVE  \E s : /\ Loaded(file) = {s} /\ Agrees(file.cells, s) /\ s.loaded = TRUE
                /\ held = PagesAt(file.cells, s.index_offset, s.index_length)
                /\ state.loaded /\ flush.pc # "publish" => s = state
  <1>1. Whole(file) /\ file.header \in Header
    BY DEF Undamaged, BetweenMerges, Shapes
  <1>2. PICK s : Loaded(file) = {s} /\ Agrees(file.cells, s) /\ s.loaded = TRUE
    BY <1>1, WholeLoads
  <1>3. held = PagesAt(file.cells, s.index_offset, s.index_length)
    BY <1>2, WholePages, ContentsAre DEF Current
  <1>4. state.loaded /\ flush.pc # "publish" => s = state
    BY <1>2 DEF Undamaged, BetweenMerges
  <1> QED  BY <1>2, <1>3, <1>4

LEMMA HeldMerging ==
  ASSUME Undamaged, held = Contents, mutex # None
  PROVE  held = PagesAt(file.cells, state.index_offset, state.index_length)
  <1>1. Sound(file.cells, state.index_offset, state.index_length, state.append_offset)
    BY DEF Undamaged, MergeProgress
  <1> QED  BY <1>1, LocatedPages, ContentsAre DEF Current

LEMMA NextContents ==
  ASSUME held' = Contents'
  PROVE  /\ mutex' = None => held' = PagesFor(file.cells', Loaded(file'))
         /\ mutex' # None => held' = PagesFor(file.cells',
               read_index(file.cells', state.index_offset', state.index_length'))
  BY DEF Contents, PagesFor, Current

-----------------------------------------------------------------------------
(* Steps                                                                   *)

LEMMA ThreadStep ==
  ASSUME Shapes, NEW t \in Threads, NEW x, LocalShape(x),
         thread' = [thread EXCEPT ![t] = x]
  PROVE  /\ DOMAIN thread' = Threads /\ thread' = [u \in Threads |-> thread'[u]]
         /\ \A u \in Threads : LocalShape(thread'[u])
         /\ thread'[t] = x
         /\ \A u \in Threads : u # t => thread'[u] = thread[u]
  BY DEF Shapes

LEMMA IdleShape == LocalShape(Idle) /\ Idle.pc = "idle" /\ Idle.crossed = FALSE
                   /\ Idle.orphan = FALSE
  BY DEF LocalShape, Idle

\* with_state loads the store from a whole file, once (page_store.rs:196-240).
LEMMA LoadStep ==
  ASSUME Undamaged, mutex = None, NEW s \in load_state
  PROVE  /\ s.loaded = TRUE /\ StateShape(s)
         /\ flush.pc # "publish" => Loaded(file) = {s} /\ Agrees(file.cells, s)
         /\ state.loaded => s = state
         /\ flush.pc # "idle" => s = state
  <1>1. CASE state.loaded
    <2>1. s = state
      BY <1>1 DEF load_state
    <2>2. s.loaded = TRUE /\ StateShape(s)
      BY <1>1, <2>1 DEF Undamaged, Shapes, Unloaded
    <2>3. flush.pc # "publish" => Loaded(file) = {s}
      BY <1>1, <2>1 DEF Undamaged, BetweenMerges
    <2> QED  BY <2>1, <2>2, <2>3, UniqueState DEF Undamaged, BetweenMerges, Shapes
  <1>2. CASE ~state.loaded
    <2>1. s \in Loaded(file)
      BY <1>2 DEF load_state
    <2>2. PICK u : Loaded(file) = {u} /\ Agrees(file.cells, u) /\ u.loaded = TRUE
      BY WholeLoads DEF Undamaged, BetweenMerges, Shapes
    <2>3. s = u
      BY <2>1, <2>2
    <2>4. flush.pc = "idle"
      BY <1>2 DEF Undamaged, FlushProgress
    <2>5. StateShape(s)
      BY <2>2, <2>3 DEF Agrees, StateAt, StateShape
    <2> QED  BY <1>2, <2>2, <2>3, <2>4, <2>5
  <1> QED  BY <1>1, <1>2

\* A step outside merges and flushes: it may load the store, and moves one thread.
LEMMA LocalStep ==
  ASSUME Undamaged, held = Contents, held' = Contents',
         NEW t \in Threads, t # mutex, NEW x, LocalShape(x), x.pc \notin Merging,
         Merges(x), ReadProgress(x)', thread' = [thread EXCEPT ![t] = x],
         state' = state \/ (mutex = None /\ state' \in load_state),
         UNCHANGED <<file, mutex, flush, tmp>>, done' \in Counts
  PROVE  Undamaged' /\ held' = held
  <1>1. held' = held
    <2>1. CASE mutex = None
      BY <2>1, NextContents, ContentsAre DEF Current
    <2>2. CASE mutex # None
      BY <2>2, NextContents, ContentsAre DEF Current
    <2> QED  BY <2>1, <2>2
  <1>2. /\ DOMAIN thread' = Threads /\ thread' = [u \in Threads |-> thread'[u]]
        /\ \A u \in Threads : LocalShape(thread'[u])
        /\ thread'[t] = x
        /\ \A u \in Threads : u # t => thread'[u] = thread[u]
    BY ThreadStep DEF Undamaged
  <1>3. /\ StateShape(state') /\ (state' = Unloaded \/ state'.loaded = TRUE)
        /\ state.loaded \/ flush.pc # "idle" => state' = state
        /\ mutex # None => state' = state
        /\ mutex = None /\ state'.loaded /\ flush.pc # "publish" => Loaded(file) = {state'}
    BY LoadStep DEF Undamaged, Shapes, BetweenMerges
  <1>4. Shapes'
    BY <1>2, <1>3 DEF Undamaged, Shapes
  <1>5. MergesApart'
    BY <1>2 DEF Undamaged, MergesApart, Shapes
  <1>6. BetweenMerges'
    BY <1>3 DEF Undamaged, BetweenMerges
  <1>7. mutex' # None => MergeProgress(thread[mutex])'
    <2> SUFFICES ASSUME mutex # None PROVE MergeProgress(thread[mutex])'
      OBVIOUS
    <2>1. thread'[mutex] = thread[mutex] /\ state' = state
      BY <1>2, <1>3 DEF Undamaged, Shapes
    <2> QED  BY <2>1 DEF Undamaged, MergeProgress, NewIndex, NewLength
  <1>8. FlushProgress'
    <2>1. flush.pc # "idle" => state' = state
      BY <1>3
    <2> QED  BY <1>1, <2>1 DEF Undamaged, FlushProgress, Flushed
  <1>9. \A u \in Threads : ReadProgress(thread[u])'
    <2> SUFFICES ASSUME NEW u \in Threads, u # t PROVE ReadProgress(thread[u])'
      BY <1>2
    <2>1. ReadProgress(thread[u]) /\ thread'[u] = thread[u]
      BY <1>2 DEF Undamaged
    <2>2. state.loaded = TRUE => state' = state
      BY <1>3
    <2> QED  BY <2>1, <2>2 DEF ReadProgress
  <1> QED  BY <1>1, <1>4, <1>5, <1>6, <1>7, <1>8, <1>9 DEF Undamaged

LEMMA CountStep ==
  ASSUME done \in Counts, NEW op \in {"merge", "read", "flush", "crash"}, NEW max,
         Begin(op, max)
  PROVE  /\ done' \in Counts
         /\ op = "crash" => done'.crash > done.crash
         /\ op # "crash" => done'.crash = done.crash
  <1>1. CASE op = "merge"  BY <1>1 DEF Begin, Counts
  <1>2. CASE op = "read"  BY <1>2 DEF Begin, Counts
  <1>3. CASE op = "flush"  BY <1>3 DEF Begin, Counts
  <1>4. CASE op = "crash"  BY <1>4 DEF Begin, Counts
  <1> QED  BY <1>1, <1>2, <1>3, <1>4

\* Where a store that agrees with the file locates a page, there it is.
LEMMA Locates ==
  ASSUME NEW cells, NEW s, Agrees(cells, s), NEW p \in DOMAIN s.index
  PROVE  LET d == PagesAt(cells, s.index_offset, s.index_length)[p]
         IN /\ p \in Pages /\ d \in Data
            /\ s.index[p] \in Nat /\ s.index[p] < s.append_offset
            /\ s.index[p] \in DOMAIN cells
            /\ cells[s.index[p]] = PageRecord(p, d)
            /\ read_record(cells, s.index[p], p) = d
  <1> DEFINE ix == IndexAt(cells, s.index_offset, s.index_length).pages
             d == PagesAt(cells, s.index_offset, s.index_length)[p]
  <1>1. s.index = ix
    BY DEF Agrees, StateAt
  <1>2. /\ p \in Pages /\ ix[p] \in Nat /\ ix[p] < s.append_offset
        /\ ix[p] \in DOMAIN cells /\ cells[ix[p]] = PageRecord(p, cells[ix[p]].data)
        /\ cells[ix[p]].data \in Data
    BY <1>1 DEF Agrees, Sound, IsTable
  <1>3. d = cells[ix[p]].data
    BY <1>1, <1>2 DEF PagesAt
  <1> HIDE DEF ix, d
  <1>4. read_record(cells, ix[p], p) = d
    <2>1. cells[ix[p]] = [kind |-> "page", page |-> p, data |-> d]
      BY <1>2, <1>3 DEF PageRecord
    <2>2. cells[ix[p]].kind = "page" /\ cells[ix[p]].page = p
      BY <2>1
    <2> QED  BY <1>2, <1>3, <2>2 DEF read_record
  <1>5. /\ p \in Pages /\ d \in Data
        /\ s.index[p] \in Nat /\ s.index[p] < s.append_offset
        /\ s.index[p] \in DOMAIN cells
        /\ cells[s.index[p]] = PageRecord(p, d)
        /\ read_record(cells, s.index[p], p) = d
    BY <1>1, <1>2, <1>3, <1>4
  <1> QED  BY <1>5 DEF d

\* merge_pages opens the file (page_store.rs:450-460).
LEMMA MergeOpenStep ==
  ASSUME Undamaged, held = Contents, held' = Contents',
         NEW t \in Threads, NEW p \in Pages, NEW d \in Data, NEW rows \in Located,
         MergeOpen(t, p, d, rows)
  PROVE  Undamaged' /\ held' = held
  <1>1. PICK x : x = [Idle EXCEPT !.pc = "open", !.page = p, !.data = d, !.rows = rows]
    OBVIOUS
  <1>2. x = [pc |-> "open", page |-> p, data |-> d, rows |-> rows, at |-> 0,
             orphan |-> FALSE, want |-> Absent, crossed |-> FALSE]
    BY <1>1 DEF Idle
  <1>3. thread' = [thread EXCEPT ![t] = x]
    BY <1>1 DEF MergeOpen
  <1>4. done' \in Counts
    BY CountStep DEF MergeOpen, Undamaged, Shapes
  <1>5. t # mutex /\ state' = state /\ UNCHANGED <<file, mutex, flush, tmp>>
    BY DEF MergeOpen, At, Undamaged, MergesApart, Merging
  <1>6. x.pc = "open" /\ x.page = p /\ x.data = d /\ x.rows = rows /\ LocalShape(x)
    BY <1>2 DEF LocalShape
  <1>7. x.pc \notin Merging /\ Merges(x) /\ ReadProgress(x)'
    BY <1>6, FileAssumption DEF Merging, Merges, ReadProgress
  <1> QED  BY <1>3, <1>4, <1>5, <1>6, <1>7, LocalStep

\* read_page finds the page's place (page_store.rs:512-523).
LEMMA ReadLocateStep ==
  ASSUME Undamaged, held = Contents, held' = Contents',
         NEW t \in Threads, NEW p \in Pages, ReadLocate(t, p)
  PROVE  Undamaged' /\ held' = held
  <1>1. PICK s \in load_state :
          /\ state' = s
          /\ thread' = IF p \notin DOMAIN s.index THEN thread
                       ELSE [thread EXCEPT ![t] =
                               [Idle EXCEPT !.pc = "located", !.page = p,
                                            !.at = s.index[p],
                                            !.want = held[p],
                                            !.crossed = flush.pc = "publish"]]
    BY DEF ReadLocate
  <1>2. done' \in Counts
    BY CountStep DEF ReadLocate, Undamaged, Shapes
  <1>3. /\ mutex = None /\ t # mutex /\ thread[t].pc = "idle"
        /\ UNCHANGED <<file, mutex, flush, tmp>>
    BY DEF ReadLocate, At, Undamaged, MergesApart, Merging
  <1>4. CASE p \notin DOMAIN s.index
    <2>1. PICK x : x = thread[t]
      OBVIOUS
    <2>2. thread' = [thread EXCEPT ![t] = x] /\ LocalShape(x)
      BY <1>1, <1>4, <2>1 DEF Undamaged, Shapes
    <2>3. x.pc \notin Merging /\ Merges(x) /\ x.pc = "idle"
      BY <1>3, <2>1 DEF Merging, Undamaged, MergesApart
    <2>4. ReadProgress(x)'
      BY <2>3 DEF ReadProgress
    <2> QED  BY <1>1, <1>2, <1>3, <2>2, <2>3, <2>4, LocalStep
  <1>5. CASE p \in DOMAIN s.index
    <2>1. PICK x : x = [Idle EXCEPT !.pc = "located", !.page = p, !.at = s.index[p],
                                 !.want = held[p], !.crossed = flush.pc = "publish"]
      OBVIOUS
    <2>2. /\ x.pc = "located" /\ x.page = p /\ x.at = s.index[p]
          /\ x.want = held[p] /\ x.crossed = (flush.pc = "publish")
          /\ LocalShape(x) /\ thread' = [thread EXCEPT ![t] = x]
      BY <1>1, <1>5, <2>1 DEF Idle, LocalShape
    <2>3. ASSUME flush.pc # "publish"
          PROVE  /\ s.loaded = TRUE
                 /\ s.index[p] \in Nat /\ s.index[p] < s.append_offset
                 /\ s.index[p] \in DOMAIN file.cells
                 /\ file.cells[s.index[p]] = PageRecord(p, held[p])
      <3>1. Loaded(file) = {s} /\ Agrees(file.cells, s) /\ s.loaded = TRUE
        BY <1>3, <2>3, LoadStep
      <3>2. PICK u : /\ Loaded(file) = {u}
                     /\ held = PagesAt(file.cells, u.index_offset, u.index_length)
        BY <1>3, HeldBetween
      <3>3. u = s
        BY <3>1, <3>2
      <3> QED  BY <1>5, <3>1, <3>2, <3>3, Locates
    <2>4. ReadProgress(x)'
      BY <1>1, <1>3, <2>2, <2>3 DEF ReadProgress
    <2>5. x.pc \notin Merging /\ Merges(x)
      BY <2>2 DEF Merging, Merges
    <2> QED  BY <1>1, <1>2, <1>3, <2>2, <2>4, <2>5, LocalStep
  <1> QED  BY <1>4, <1>5

\* read_page opens the file again and reads at that place.
LEMMA ReadRecordStep ==
  ASSUME Undamaged, held = Contents, held' = Contents', NEW t \in Threads, ReadRecord(t)
  PROVE  Undamaged' /\ held' = held
  <1>1. PICK x : x = [thread[t] EXCEPT !.pc = "read",
                        !.data = read_record(file.cells, thread[t].at, thread[t].page)]
    OBVIOUS
  <1>2. thread' = [thread EXCEPT ![t] = x]
    BY <1>1 DEF ReadRecord, Undamaged, Shapes
  <1>3. /\ x.pc = "read" /\ x.crossed = thread[t].crossed /\ x.want = thread[t].want
        /\ x.data = read_record(file.cells, thread[t].at, thread[t].page)
        /\ LocalShape(x)
    <2>1. LocalShape(thread[t])
      BY DEF Undamaged, Shapes
    <2> QED  BY <1>1, <2>1 DEF LocalShape
  <1>4. t # mutex /\ thread[t].pc = "located" /\ done' = done
        /\ UNCHANGED <<file, mutex, flush, tmp, state>>
    BY DEF ReadRecord, At, Undamaged, MergesApart, Merging
  <1>5. ~x.crossed => x.data = x.want
    <2> SUFFICES ASSUME ~x.crossed PROVE x.data = x.want
      OBVIOUS
    <2> DEFINE c == file.cells[thread[t].at]
    <2>1. /\ thread[t].at \in DOMAIN file.cells
          /\ c = [kind |-> "page", page |-> thread[t].page, data |-> thread[t].want]
      BY <1>3, <1>4 DEF Undamaged, ReadProgress, PageRecord
    <2> HIDE DEF c
    <2>2. c.kind = "page" /\ c.page = thread[t].page /\ c.data = thread[t].want
      BY <2>1
    <2> QED  BY <1>3, <2>1, <2>2 DEF read_record, c
  <1>6. x.pc \notin Merging /\ Merges(x) /\ ReadProgress(x)'
    BY <1>3, <1>5 DEF Merging, Merges, ReadProgress
  <1> QED  BY <1>2, <1>3, <1>4, <1>6, LocalStep DEF Undamaged, Shapes

\* A thread that has nothing more to do: read_page returns, or merge_pages
\* fails before it has taken the mutex.
LEMMA ReturnStep ==
  ASSUME Undamaged, held = Contents, held' = Contents', NEW t \in Threads, t # mutex,
         thread' = [thread EXCEPT ![t] = Idle],
         UNCHANGED <<file, tmp, state, mutex, flush, done>>
  PROVE  Undamaged' /\ held' = held
  <1>1. Idle.pc \notin Merging /\ Merges(Idle) /\ ReadProgress(Idle)'
    BY IdleShape DEF Merging, Merges, ReadProgress
  <1> QED  BY <1>1, IdleShape, LocalStep DEF Undamaged, Shapes

\* A step of the thread inside merge_pages writes behind the append cursor or
\* into the header: what was located stays located.
LEMMA MergingStep ==
  ASSUME Undamaged, held = Contents, held' = Contents',
         NEW t \in Threads, t = mutex, NEW x, LocalShape(x), x.pc \in Merging,
         Merges(x), ~x.orphan, thread' = [thread EXCEPT ![t] = x],
         UNCHANGED <<tmp, mutex, flush, done>>,
         StateShape(state'), state'.index_offset = state.index_offset,
         state'.index_length = state.index_length,
         state'.append_offset = state.append_offset,
         file' = [header |-> file'.header, cells |-> file'.cells],
         file'.header \in Header,
         PagesAt(file'.cells, state.index_offset, state.index_length)
           = PagesAt(file.cells, state.index_offset, state.index_length),
         \A o \in DOMAIN file.cells : o \in Nat /\ o < state.append_offset =>
            o \in DOMAIN file'.cells /\ file'.cells[o] = file.cells[o],
         MergeProgress(x)'
  PROVE  Undamaged' /\ held' = held
  <1>0. t # None /\ mutex # None
    BY FileAssumption DEF None
  <1>1. held' = held
    <2>1. Sound(file'.cells, state'.index_offset, state'.index_length, state'.append_offset)
      BY DEF MergeProgress
    <2>2. held' = PagesAt(file'.cells, state'.index_offset, state'.index_length)
      BY <1>0, <2>1, NextContents, LocatedPages
    <2> QED  BY <1>0, <2>2, HeldMerging
  <1>2. /\ DOMAIN thread' = Threads /\ thread' = [u \in Threads |-> thread'[u]]
        /\ \A u \in Threads : LocalShape(thread'[u])
        /\ thread'[t] = x
        /\ \A u \in Threads : u # t => thread'[u] = thread[u]
    BY ThreadStep DEF Undamaged
  <1>3. state.loaded = TRUE /\ state'.loaded = TRUE
    BY <1>0 DEF Undamaged, MergeProgress
  <1>4. Shapes'
    BY <1>2, <1>3 DEF Undamaged, Shapes
  <1>5. MergesApart'
    BY <1>0, <1>2 DEF Undamaged, MergesApart, Shapes
  <1>6. BetweenMerges' /\ flush.pc = "idle"
    BY <1>0 DEF Undamaged, BetweenMerges, MergesApart
  <1>7. mutex' # None => MergeProgress(thread[mutex])'
    BY <1>2
  <1>8. FlushProgress'
    BY <1>6 DEF FlushProgress
  <1>9. \A u \in Threads : ReadProgress(thread[u])'
    <2> SUFFICES ASSUME NEW u \in Threads PROVE ReadProgress(thread[u])'
      OBVIOUS
    <2>1. CASE u = t
      BY <1>2, <2>1 DEF ReadProgress, Merging
    <2>2. CASE u # t
      BY <1>2, <1>3, <2>2 DEF ReadProgress, Undamaged
    <2> QED  BY <2>1, <2>2
  <1> QED  BY <1>1, <1>4, <1>5, <1>6, <1>7, <1>8, <1>9 DEF Undamaged

\* Adding a place to a table.
LEMMA TableGrows ==
  ASSUME NEW m, IsTable(m), NEW p \in Pages, NEW a \in Nat,
         NEW n, n = Grown(m, p, a)
  PROVE  /\ IsTable(n) /\ DOMAIN n = DOMAIN m \cup {p} /\ n[p] = a
         /\ \A q \in DOMAIN m \ {p} : n[q] = m[q]
  BY DEF IsTable, Grown, Over

\* serialize_index and the write of its bytes (page_store.rs:61-98, 480-490).
LEMMA IndexWritten ==
  ASSUME NEW cells, NEW ix, IndexLength(ix) \in Nat, NEW a \in Nat
  PROVE  LET new == Over(cells, serialize_index(ix, a))
         IN /\ a..(a + IndexLength(ix) - 1) \subseteq DOMAIN new
            /\ Intact(new, a, ix, IndexLength(ix))
            /\ \A o \in DOMAIN cells : o \in Nat /\ o < a =>
                  o \in DOMAIN new /\ new[o] = cells[o]
            /\ \A o \in DOMAIN serialize_index(ix, a) : o \in Nat /\ o >= a
  <1> DEFINE w == serialize_index(ix, a)
             new == Over(cells, w)
             L == IndexLength(ix)
  <1>1. DOMAIN w = a..(a + L - 1)
    BY DEF serialize_index
  <1>2. \A o \in a..(a + L - 1) : w[o] = [kind |-> "index", index |-> ix, part |-> o - a]
    BY DEF serialize_index
  <1>3. L \in Nat
    OBVIOUS
  <1> HIDE DEF w, L
  <1>4. a..(a + L - 1) \subseteq DOMAIN new
    BY <1>1 DEF Over
  <1>5. \A o \in a..(a + L - 1) : new[o] = w[o]
    BY <1>1 DEF Over
  <1>6. \A k \in 0..(L - 1) : a + k \in a..(a + L - 1) /\ (a + k) - a = k
    BY <1>3
  <1>7. Intact(new, a, ix, L)
    BY <1>2, <1>5, <1>6 DEF Intact
  <1>8. \A o \in DOMAIN cells : o \in Nat /\ o < a => o \in DOMAIN new /\ new[o] = cells[o]
    BY <1>1, <1>3 DEF Over
  <1>9. \A o \in DOMAIN w : o \in Nat /\ o >= a
    BY <1>1, <1>3
  <1> QED  BY <1>4, <1>7, <1>8, <1>9 DEF w, L

\* The index that a merge writes is sound, and locates the pages of the old one
\* with the merged page in its place.
LEMMA NewSound ==
  ASSUME NEW cells, NEW o, NEW n, NEW end, Sound(cells, o, n, end),
         NEW a \in Nat, a >= end, a \in DOMAIN cells,
         NEW p \in Pages, NEW d \in Data, cells[a] = PageRecord(p, d),
         NEW m, m = Grown(IndexAt(cells, o, n).pages, p, a),
         NEW rows \in Nat, NEW ix, ix = [pages |-> m, rows |-> rows],
         NEW L, L = IndexLength(ix),
         (a + 1)..(a + 1 + L - 1) \subseteq DOMAIN cells, Intact(cells, a + 1, ix, L)
  PROVE  /\ L \in Nat /\ L > 0
         /\ IndexAt(cells, a + 1, L) = ix
         /\ Sound(cells, a + 1, L, a + 1 + L)
         /\ PagesAt(cells, a + 1, L) = [PagesAt(cells, o, n) EXCEPT ![p] = d]
  <1> DEFINE old == IndexAt(cells, o, n).pages
  <1>1. /\ IsTable(m) /\ DOMAIN m = DOMAIN old \cup {p} /\ m[p] = a
        /\ \A q \in DOMAIN old \ {p} : m[q] = old[q]
    <2>1. IsTable(old) /\ m = Grown(old, p, a)
      BY DEF Sound
    <2> HIDE DEF old
    <2> QED  BY <2>1 DEF IsTable, Grown, Over
  <1>2. L = Cardinality(DOMAIN m) + rows
    BY DEF IndexLength
  <1>3. L \in Nat /\ L > 0
    <2>1. Cardinality(DOMAIN m) \in Nat /\ Cardinality(DOMAIN m) # 0
      BY <1>1, TableLength
    <2> QED  BY <1>2, <2>1
  <1>4. IndexAt(cells, a + 1, L) = ix
    <2>1. 0 \in 0..(L - 1) /\ (a + 1) + 0 = a + 1
      BY <1>3
    <2>2. cells[a + 1] = [kind |-> "index", index |-> ix, part |-> 0]
      BY <2>1 DEF Intact
    <2>3. cells[a + 1].index = ix
      BY <2>2
    <2> QED  BY <1>3, <2>3 DEF IndexAt
  <1>5. cells[a].data = d
    BY DEF PageRecord
  <1>6. \A q \in DOMAIN old : /\ q \in Pages /\ old[q] \in DOMAIN cells /\ old[q] < end
                              /\ old[q] \in Nat
                              /\ cells[old[q]] = PageRecord(q, cells[old[q]].data)
                              /\ cells[old[q]].data \in Data
    BY DEF Sound, IsTable
  <1>7. Sound(cells, a + 1, L, a + 1 + L)
    <2>1. \A q \in DOMAIN m : /\ m[q] \in DOMAIN cells /\ m[q] < a + 1 + L
                              /\ cells[m[q]] = PageRecord(q, cells[m[q]].data)
                              /\ cells[m[q]].data \in Data
      <3> SUFFICES ASSUME NEW q \in DOMAIN m
                   PROVE  /\ m[q] \in DOMAIN cells /\ m[q] < a + 1 + L
                          /\ cells[m[q]] = PageRecord(q, cells[m[q]].data)
                          /\ cells[m[q]].data \in Data
        OBVIOUS
      <3> HIDE DEF old
      <3>1. CASE q = p
        BY <1>1, <1>3, <1>5, <3>1
      <3>2. CASE q # p
        <4>1. end \in Nat
          BY DEF Sound
        <4> QED  BY <1>1, <1>3, <1>6, <3>2, <4>1
      <3> QED  BY <3>1, <3>2
    <2>2. ix.pages = m /\ ix.rows = rows
      OBVIOUS
    <2> QED  BY <1>1, <1>3, <1>4, <2>1, <2>2 DEF Sound
  <1>8. PagesAt(cells, a + 1, L) = [PagesAt(cells, o, n) EXCEPT ![p] = d]
    <2>1. ix.pages = m
      OBVIOUS
    <2>2. PagesAt(cells, a + 1, L)
            = [q \in Pages |-> IF q \in DOMAIN m THEN cells[m[q]].data ELSE Absent]
      BY <1>4, <2>1 DEF PagesAt
    <2>3. PagesAt(cells, o, n)
            = [q \in Pages |-> IF q \in DOMAIN old THEN cells[old[q]].data ELSE Absent]
      BY DEF PagesAt
    <2> HIDE DEF old
    <2>4. \A q \in Pages : (IF q \in DOMAIN m THEN cells[m[q]].data ELSE Absent)
            = IF q = p THEN d
              ELSE (IF q \in DOMAIN old THEN cells[old[q]].data ELSE Absent)
      BY <1>1, <1>5
    <2> QED  BY <2>2, <2>3, <2>4
  <1> QED  BY <1>3, <1>4, <1>7, <1>8

\* with_state in merge_pages: the mutex is taken, the store loaded
\* (page_store.rs:461-470).
LEMMA MergeLockStep ==
  ASSUME Undamaged, held = Contents, held' = Contents', NEW t \in Threads,
         MergeLock(t), ~damaged'
  PROVE  Undamaged' /\ held' = held
  <1>1. PICK s \in load_state :
          /\ state' = s /\ mutex' = t
          /\ thread' = [thread EXCEPT ![t].pc = "page",
                                      ![t].at = Max({s.append_offset, HEADER_SIZE})]
    BY DEF MergeLock
  <1>2. /\ mutex = None /\ thread[t].pc = "open" /\ UNCHANGED <<file, tmp, flush, done>>
        /\ flush.pc = "idle" /\ ~thread[t].orphan /\ t # None
    BY FileAssumption DEF MergeLock, At, Crossing, None
  <1>3. PICK x : x = [thread[t] EXCEPT !.pc = "page",
                                       !.at = Max({s.append_offset, HEADER_SIZE})]
    OBVIOUS
  <1>4. thread' = [thread EXCEPT ![t] = x]
    BY <1>1, <1>3 DEF Undamaged, Shapes
  <1>5. /\ x.pc = "page" /\ x.at = Max({s.append_offset, HEADER_SIZE})
        /\ x.page = thread[t].page /\ x.data = thread[t].data
        /\ x.rows = thread[t].rows /\ x.orphan = thread[t].orphan /\ LocalShape(x)
    <2>1. LocalShape(thread[t])
      BY DEF Undamaged, Shapes
    <2> QED  BY <1>3, <2>1 DEF LocalShape
  <1>6. /\ s.loaded = TRUE /\ StateShape(s) /\ Loaded(file) = {s} /\ Agrees(file.cells, s)
        /\ state.loaded => s = state
    BY <1>2, LoadStep
  <1>7. /\ Whole(file) /\ file.header \in Header
        /\ s.index_length = file.header.index_length
    BY <1>2, <1>6, UniqueState DEF Undamaged, BetweenMerges, Shapes
  <1>8. /\ DOMAIN thread' = Threads /\ thread' = [u \in Threads |-> thread'[u]]
        /\ \A u \in Threads : LocalShape(thread'[u])
        /\ thread'[t] = x
        /\ \A u \in Threads : u # t => thread'[u] = thread[u]
    BY <1>4, <1>5, ThreadStep DEF Undamaged
  <1>9. held' = held
    <2>1. PICK u : /\ Loaded(file) = {u}
                   /\ held = PagesAt(file.cells, u.index_offset, u.index_length)
      BY <1>2, HeldBetween
    <2>2. u = s
      BY <1>6, <2>1
    <2>3. held' = PagesAt(file.cells, s.index_offset, s.index_length)
      BY <1>1, <1>2, <1>6, NextContents, LocatedPages DEF Agrees
    <2> QED  BY <2>1, <2>2, <2>3
  <1>10. Shapes'
    BY <1>1, <1>2, <1>6, <1>8 DEF Undamaged, Shapes
  <1>11. MergesApart'
    <2>1. Merges(x)
      BY <1>2, <1>5 DEF Undamaged, MergesApart, Merges
    <2>2. \A u \in Threads : Merges(thread'[u])
      BY <1>8, <2>1 DEF Undamaged, MergesApart
    <2>3. \A u \in Threads : thread[u].pc \notin Merging
      BY <1>2, FileAssumption DEF Undamaged, MergesApart, None
    <2>4. \A u \in Threads : thread'[u].pc \in Merging <=> mutex' = u
      BY <1>1, <1>5, <1>8, <2>3 DEF Merging
    <2>5. mutex' # None => flush'.pc = "idle" /\ ~thread'[mutex'].orphan
      BY <1>1, <1>2, <1>5, <1>8
    <2> QED  BY <2>2, <2>4, <2>5 DEF MergesApart, Merges
  <1>12. BetweenMerges' /\ FlushProgress'
    BY <1>1, <1>2 DEF BetweenMerges, FlushProgress
  <1>13. mutex' # None => MergeProgress(thread[mutex])'
    <2>1. MergeProgress(x)'
      BY <1>1, <1>2, <1>5, <1>6, <1>7 DEF MergeProgress, Agrees
    <2> QED  BY <1>1, <1>8, <2>1
  <1>14. \A u \in Threads : ReadProgress(thread[u])'
    BY <1>1, <1>2, <1>5, <1>6, <1>8 DEF ReadProgress, Undamaged
  <1> QED  BY <1>9, <1>10, <1>11, <1>12, <1>13, <1>14 DEF Undamaged

\* What the merging thread knows.
LEMMA Inside ==
  ASSUME Undamaged, NEW t \in Threads, thread[t].pc \in Merging
  PROVE  /\ mutex = t /\ t # None /\ MergeProgress(thread[t]) /\ ~thread[t].orphan
         /\ thread[t].page \in Pages /\ thread[t].data \in Data /\ thread[t].rows \in Nat
         /\ flush.pc = "idle" /\ LocalShape(thread[t])
         /\ file = [header |-> file.header, cells |-> file.cells]
         /\ file.header \in Header /\ StateShape(state) /\ state.append_offset \in Nat
  <1>1. mutex = t /\ t # None
    BY FileAssumption DEF Undamaged, MergesApart, None
  <1>2. MergeProgress(thread[t])
    BY <1>1 DEF Undamaged
  <1> QED  BY <1>1, <1>2 DEF Undamaged, MergesApart, Merges, Shapes, MergeProgress, Sound

\* The page is appended (page_store.rs:471-479).
LEMMA MergePageStep ==
  ASSUME Undamaged, held = Contents, held' = Contents', NEW t \in Threads, MergePage(t)
  PROVE  Undamaged' /\ held' = held
  <1> DEFINE y == thread[t]
             w == [o \in {y.at} |-> PageRecord(y.page, y.data)]
             a == Max({state.append_offset, HEADER_SIZE})
  <1>1. y.pc = "page" /\ y.pc \in Merging
    BY DEF MergePage, At, Merging
  <1>2. /\ mutex = t /\ t # None /\ MergeProgress(y) /\ ~y.orphan
        /\ y.page \in Pages /\ y.data \in Data /\ y.rows \in Nat /\ LocalShape(y)
        /\ file = [header |-> file.header, cells |-> file.cells]
        /\ file.header \in Header /\ StateShape(state) /\ state.append_offset \in Nat
    BY <1>1, Inside
  <1>3. PICK x : x = [y EXCEPT !.pc = "index", !.at = y.at + 1]
    OBVIOUS
  <1>4. /\ file' = [file EXCEPT !.cells = Over(@, w)]
        /\ state' = [state EXCEPT !.index = Grown(@, y.page, y.at)]
        /\ thread' = [thread EXCEPT ![t] = x]
        /\ UNCHANGED <<tmp, mutex, flush, done>>
    BY <1>2, <1>3 DEF MergePage, WriteCells, Grown, Undamaged, Shapes
  <1>5. /\ x.pc = "index" /\ x.at = y.at + 1 /\ x.page = y.page /\ x.data = y.data
        /\ x.rows = y.rows /\ x.orphan = y.orphan /\ LocalShape(x)
    BY <1>2, <1>3 DEF LocalShape
  <1>6. file'.cells = Over(file.cells, w) /\ file'.header = file.header
        /\ file' = [header |-> file'.header, cells |-> file'.cells]
    BY <1>2, <1>4
  <1>7. /\ state'.index = Grown(state.index, y.page, y.at) /\ state'.loaded = state.loaded
        /\ state'.index_offset = state.index_offset
        /\ state'.index_length = state.index_length
        /\ state'.append_offset = state.append_offset /\ StateShape(state')
    BY <1>2, <1>4 DEF StateShape
  <1>8. /\ y.at = a /\ a \in Nat /\ a >= state.append_offset
        /\ Loaded(file) = {state} /\ Whole(file) /\ state.loaded = TRUE
        /\ Sound(file.cells, state.index_offset, state.index_length, state.append_offset)
    BY <1>1, <1>2, Cursor DEF MergeProgress
  <1>9. /\ DOMAIN w = {y.at} /\ w[y.at] = PageRecord(y.page, y.data)
    OBVIOUS
  <1> HIDE DEF y, w, a
  <1>10. /\ Sound(file'.cells, state.index_offset, state.index_length, state.append_offset)
         /\ IndexAt(file'.cells, state.index_offset, state.index_length)
              = IndexAt(file.cells, state.index_offset, state.index_length)
         /\ PagesAt(file'.cells, state.index_offset, state.index_length)
              = PagesAt(file.cells, state.index_offset, state.index_length)
    BY <1>6, <1>8, <1>9, AppendKeeps
  <1>11. \A o \in DOMAIN file.cells : o \in Nat /\ o < state.append_offset =>
            o \in DOMAIN file'.cells /\ file'.cells[o] = file.cells[o]
    BY <1>2, <1>6, <1>8, <1>9 DEF Over
  <1>12. a \in DOMAIN file'.cells /\ file'.cells[a] = PageRecord(x.page, x.data)
    BY <1>5, <1>6, <1>8, <1>9 DEF Over
  <1>13. /\ state.index = IndexAt(file.cells, state.index_offset, state.index_length).pages
         /\ file.header.index_length = state.index_length
         /\ state.index_length > 0 =>
               /\ file.header.index_offset = state.index_offset
               /\ file.header.append_offset = state.append_offset
    <2>1. Agrees(file.cells, state)
      BY <1>2, <1>8, UniqueState
    <2>2. state.index = IndexAt(file.cells, state.index_offset, state.index_length).pages
      BY <2>1 DEF Agrees, StateAt
    <2> QED  BY <1>2, <1>8, <2>2, UniqueState
  <1>14. MergeProgress(x)'
    BY <1>5, <1>6, <1>7, <1>8, <1>10, <1>12, <1>13 DEF MergeProgress, a
  <1>15. x.pc \in Merging /\ Merges(x) /\ ~x.orphan /\ file'.header \in Header
    BY <1>2, <1>5, <1>6 DEF Merging, Merges
  <1> QED  BY <1>2, <1>4, <1>5, <1>6, <1>7, <1>10, <1>11, <1>14, <1>15, MergingStep

\* The index of the merging thread is a table, so its length is a number.
LEMMA NewLengthIsNat ==
  ASSUME Undamaged, NEW t \in Threads, thread[t].pc \in Merging, thread[t].pc # "page",
         NEW rows \in Nat
  PROVE  IndexLength([pages |-> state.index, rows |-> rows]) \in Nat
  <1> DEFINE a == Max({state.append_offset, HEADER_SIZE})
             old == IndexAt(file.cells, state.index_offset, state.index_length).pages
  <1>1. state.index = Grown(old, thread[t].page, a) /\ IsTable(old)
    BY Inside DEF MergeProgress, Sound
  <1>2. a \in Nat /\ thread[t].page \in Pages
    BY Inside, Cursor
  <1> HIDE DEF a, old
  <1>3. IsTable(state.index)
    BY <1>1, <1>2 DEF IsTable, Grown, Over
  <1> QED  BY <1>3, TableLength DEF IndexLength

\* The index is appended behind the page (page_store.rs:480-490).
LEMMA MergeIndexStep ==
  ASSUME Undamaged, held = Contents, held' = Contents', NEW t \in Threads, MergeIndex(t)
  PROVE  Undamaged' /\ held' = held
  <1> DEFINE y == thread[t]
             ix == [pages |-> state.index, rows |-> y.rows]
             w == serialize_index(ix, y.at)
             a == Max({state.append_offset, HEADER_SIZE})
  <1>1. y.pc = "index" /\ y.pc \in Merging
    BY DEF MergeIndex, At, Merging
  <1>2. /\ mutex = t /\ t # None /\ MergeProgress(y) /\ ~y.orphan
        /\ y.page \in Pages /\ y.data \in Data /\ y.rows \in Nat /\ LocalShape(y)
        /\ file = [header |-> file.header, cells |-> file.cells]
        /\ file.header \in Header /\ StateShape(state) /\ state.append_offset \in Nat
    BY <1>1, Inside
  <1>3. PICK x : x = [y EXCEPT !.pc = "magic"]
    OBVIOUS
  <1>4. /\ file' = [file EXCEPT !.cells = Over(@, w)]
        /\ state' = [state EXCEPT !.rows = y.rows]
        /\ thread' = [thread EXCEPT ![t] = x]
        /\ UNCHANGED <<tmp, mutex, flush, done>>
    BY <1>2, <1>3 DEF MergeIndex, WriteCells, Goto, Undamaged, Shapes
  <1>5. /\ x.pc = "magic" /\ x.at = y.at /\ x.page = y.page /\ x.data = y.data
        /\ x.rows = y.rows /\ x.orphan = y.orphan /\ LocalShape(x)
    BY <1>2, <1>3 DEF LocalShape
  <1>6. file'.cells = Over(file.cells, w) /\ file'.header = file.header
        /\ file' = [header |-> file'.header, cells |-> file'.cells]
    BY <1>2, <1>4
  <1>7. /\ state'.index = state.index /\ state'.loaded = state.loaded
        /\ state'.rows = y.rows
        /\ state'.index_offset = state.index_offset
        /\ state'.index_length = state.index_length
        /\ state'.append_offset = state.append_offset /\ StateShape(state')
    BY <1>2, <1>4 DEF StateShape
  <1>8. /\ y.at = a + 1 /\ a \in Nat /\ a >= state.append_offset /\ state.loaded = TRUE
        /\ Sound(file.cells, state.index_offset, state.index_length, state.append_offset)
        /\ a \in DOMAIN file.cells /\ file.cells[a] = PageRecord(y.page, y.data)
        /\ state.index = Grown(IndexAt(file.cells, state.index_offset,
                                       state.index_length).pages, y.page, a)
        /\ file.header.index_length = state.index_length
        /\ file.header.index_length > 0 =>
               /\ file.header.index_offset = state.index_offset
               /\ file.header.append_offset = state.append_offset
    BY <1>1, <1>2, Cursor DEF MergeProgress
  <1>9. IndexLength(ix) \in Nat
    BY <1>1, <1>2, NewLengthIsNat
  <1>10. NewIndex' = ix /\ NewLength' = IndexLength(ix)
    BY <1>7 DEF NewIndex, NewLength
  <1> HIDE DEF y, ix, a
  <1>11. /\ y.at..(y.at + IndexLength(ix) - 1) \subseteq DOMAIN file'.cells
         /\ Intact(file'.cells, y.at, ix, IndexLength(ix))
         /\ \A o \in DOMAIN file.cells : o \in Nat /\ o < y.at =>
               o \in DOMAIN file'.cells /\ file'.cells[o] = file.cells[o]
         /\ \A o \in DOMAIN w : o \in Nat /\ o >= y.at
    BY <1>6, <1>8, <1>9, IndexWritten
  <1> HIDE DEF w
  <1>12. /\ Sound(file'.cells, state.index_offset, state.index_length, state.append_offset)
         /\ IndexAt(file'.cells, state.index_offset, state.index_length)
              = IndexAt(file.cells, state.index_offset, state.index_length)
         /\ PagesAt(file'.cells, state.index_offset, state.index_length)
              = PagesAt(file.cells, state.index_offset, state.index_length)
    <2>1. \A o \in DOMAIN w : o \in Nat /\ o >= state.append_offset
      BY <1>2, <1>8, <1>11
    <2> QED  BY <1>6, <1>8, <2>1, AppendKeeps
  <1>13. \A o \in DOMAIN file.cells : o \in Nat /\ o < state.append_offset =>
            o \in DOMAIN file'.cells /\ file'.cells[o] = file.cells[o]
    BY <1>2, <1>8, <1>11
  <1>14. a \in DOMAIN file'.cells /\ file'.cells[a] = PageRecord(x.page, x.data)
    BY <1>5, <1>8, <1>11
  <1>15. MergeProgress(x)'
    BY <1>5, <1>6, <1>7, <1>8, <1>10, <1>11, <1>12, <1>14, ZenonT(40) DEF MergeProgress, a
  <1>16. x.pc \in Merging /\ Merges(x) /\ ~x.orphan /\ file'.header \in Header
    BY <1>2, <1>5, <1>6 DEF Merging, Merges
  <1> QED  BY <1>2, <1>4, <1>5, <1>6, <1>7, <1>12, <1>13, <1>15, <1>16, MergingStep

\* PageFileHeader::write_to, one field (page_store.rs:45-59).
LEMMA HeaderStep ==
  ASSUME Undamaged, held = Contents, held' = Contents', NEW t \in Threads,
         thread[t].pc \in Merging, NEW x, x = [thread[t] EXCEPT !.pc = x.pc],
         x.pc \in Merging, thread' = [thread EXCEPT ![t] = x],
         UNCHANGED <<tmp, state, mutex, flush, done>>,
         file' = [header |-> file'.header, cells |-> file.cells],
         file'.header \in Header, MergeProgress(x)'
  PROVE  Undamaged' /\ held' = held
  <1>1. /\ mutex = t /\ ~thread[t].orphan /\ LocalShape(thread[t])
        /\ thread[t].page \in Pages /\ thread[t].data \in Data
        /\ thread[t].rows \in Nat /\ StateShape(state)
    BY Inside
  <1>2. /\ LocalShape(x) /\ x.orphan = thread[t].orphan /\ x.page = thread[t].page
        /\ x.data = thread[t].data /\ x.rows = thread[t].rows
    BY <1>1 DEF LocalShape
  <1>3. Merges(x) /\ ~x.orphan
    BY <1>1, <1>2 DEF Merges
  <1>4. file'.cells = file.cells
    OBVIOUS
  <1> QED  BY <1>1, <1>2, <1>3, <1>4, MergingStep

\* Where the new index stands, and how long it is.
LEMMA NewPlace ==
  ASSUME Undamaged, NEW t \in Threads, thread[t].pc \in Merging \ {"page", "index"}
  PROVE  NewLength \in Nat /\ thread[t].at \in Nat
  <1>1. /\ MergeProgress(thread[t]) /\ thread[t].rows \in Nat
        /\ state.append_offset \in Nat /\ thread[t].pc \in Merging
    BY Inside
  <1>2. /\ state.rows = thread[t].rows
        /\ thread[t].at = Max({state.append_offset, HEADER_SIZE}) + 1
    BY <1>1 DEF MergeProgress, Merging
  <1>3. IndexLength([pages |-> state.index, rows |-> thread[t].rows]) \in Nat
    BY <1>1, NewLengthIsNat
  <1>4. NewLength \in Nat
    BY <1>2, <1>3 DEF NewLength
  <1>5. thread[t].at \in Nat
    BY <1>1, <1>2, Cursor
  <1> QED  BY <1>4, <1>5

LEMMA WriteMagicStep ==
  ASSUME Undamaged, held = Contents, held' = Contents', NEW t \in Threads, WriteMagic(t)
  PROVE  Undamaged' /\ held' = held
  <1> DEFINE y == thread[t]
  <1>1. y.pc = "magic" /\ y.pc \in Merging
    BY DEF WriteMagic, At, Merging
  <1>2. /\ MergeProgress(y) /\ ~y.orphan /\ LocalShape(y)
        /\ file = [header |-> file.header, cells |-> file.cells] /\ file.header \in Header
        /\ state.append_offset \in Nat /\ y.rows \in Nat
    BY <1>1, Inside
  <1>3. PICK x : x = [y EXCEPT !.pc = "offset"]
    OBVIOUS
  <1>4. x.pc = "offset" /\ x = [y EXCEPT !.pc = x.pc] /\ x.at = y.at /\ x.page = y.page
        /\ x.data = y.data /\ x.rows = y.rows
    BY <1>2, <1>3 DEF LocalShape
  <1>5. /\ file' = [file EXCEPT !.header.valid = TRUE]
        /\ thread' = [thread EXCEPT ![t] = x]
        /\ UNCHANGED <<tmp, state, mutex, flush, done>>
    BY <1>2, <1>3 DEF WriteMagic, WriteHeader, Goto, Undamaged, Shapes
  <1>7. /\ file'.cells = file.cells /\ file'.header = [file.header EXCEPT !.valid = TRUE]
        /\ file' = [header |-> file'.header, cells |-> file'.cells]
    BY <1>2, <1>5
  <1>8. /\ file'.header \in Header /\ file'.header.valid = TRUE
        /\ file'.header.index_offset = file.header.index_offset
        /\ file'.header.index_length = file.header.index_length
        /\ file'.header.append_offset = file.header.append_offset
    BY <1>2, <1>7 DEF Header
  <1>9. NewLength' = NewLength /\ NewIndex' = NewIndex
    BY <1>5 DEF NewLength, NewIndex
  <1> HIDE DEF y
  <1>10. MergeProgress(x)'
    BY <1>1, <1>2, <1>4, <1>5, <1>7, <1>8, <1>9 DEF MergeProgress
  <1>11. x.pc \in Merging
    BY <1>4 DEF Merging
  <1> QED  BY <1>1, <1>4, <1>5, <1>7, <1>8, <1>10, <1>11, HeaderStep DEF y

LEMMA WriteOffsetStep ==
  ASSUME Undamaged, held = Contents, held' = Contents', NEW t \in Threads, WriteOffset(t)
  PROVE  Undamaged' /\ held' = held
  <1> DEFINE y == thread[t]
  <1>1. y.pc = "offset" /\ y.pc \in Merging
    BY DEF WriteOffset, At, Merging
  <1>2. /\ MergeProgress(y) /\ ~y.orphan /\ LocalShape(y)
        /\ file = [header |-> file.header, cells |-> file.cells] /\ file.header \in Header
        /\ state.append_offset \in Nat /\ y.rows \in Nat
    BY <1>1, Inside
  <1>3. PICK x : x = [y EXCEPT !.pc = "length"]
    OBVIOUS
  <1>4. x.pc = "length" /\ x = [y EXCEPT !.pc = x.pc] /\ x.at = y.at /\ x.page = y.page
        /\ x.data = y.data /\ x.rows = y.rows
    BY <1>2, <1>3 DEF LocalShape
  <1>5. /\ file' = [file EXCEPT !.header.index_offset = y.at]
        /\ thread' = [thread EXCEPT ![t] = x]
        /\ UNCHANGED <<tmp, state, mutex, flush, done>>
    BY <1>2, <1>3 DEF WriteOffset, WriteHeader, Goto, Undamaged, Shapes
  <1>6. NewLength \in Nat /\ y.at \in Nat
    BY <1>1, NewPlace
  <1>7. /\ file'.cells = file.cells /\ file'.header = [file.header EXCEPT !.index_offset = y.at]
        /\ file' = [header |-> file'.header, cells |-> file'.cells]
    BY <1>2, <1>5
  <1>8. /\ file'.header \in Header /\ file'.header.index_offset = y.at
        /\ file'.header.valid = file.header.valid
        /\ file'.header.index_length = file.header.index_length
        /\ file'.header.append_offset = file.header.append_offset
    BY <1>2, <1>6, <1>7 DEF Header
  <1>9. NewLength' = NewLength /\ NewIndex' = NewIndex
    BY <1>5 DEF NewLength, NewIndex
  <1> HIDE DEF y
  <1>10. MergeProgress(x)'
    BY <1>1, <1>2, <1>4, <1>5, <1>7, <1>8, <1>9 DEF MergeProgress
  <1>11. x.pc \in Merging
    BY <1>4 DEF Merging
  <1> QED  BY <1>1, <1>4, <1>5, <1>7, <1>8, <1>10, <1>11, HeaderStep DEF y

LEMMA WriteLengthStep ==
  ASSUME Undamaged, held = Contents, held' = Contents', NEW t \in Threads, WriteLength(t)
  PROVE  Undamaged' /\ held' = held
  <1> DEFINE y == thread[t]
  <1>1. y.pc = "length" /\ y.pc \in Merging
    BY DEF WriteLength, At, Merging
  <1>2. /\ MergeProgress(y) /\ ~y.orphan /\ LocalShape(y)
        /\ file = [header |-> file.header, cells |-> file.cells] /\ file.header \in Header
        /\ state.append_offset \in Nat /\ y.rows \in Nat
    BY <1>1, Inside
  <1>3. PICK x : x = [y EXCEPT !.pc = "append"]
    OBVIOUS
  <1>4. x.pc = "append" /\ x = [y EXCEPT !.pc = x.pc] /\ x.at = y.at /\ x.page = y.page
        /\ x.data = y.data /\ x.rows = y.rows
    BY <1>2, <1>3 DEF LocalShape
  <1>5. /\ file' = [file EXCEPT !.header.index_length = NewLength]
        /\ thread' = [thread EXCEPT ![t] = x]
        /\ UNCHANGED <<tmp, state, mutex, flush, done>>
    BY <1>2, <1>3 DEF WriteLength, WriteHeader, Goto, Undamaged, Shapes
  <1>6. NewLength \in Nat /\ y.at \in Nat
    BY <1>1, NewPlace
  <1>7. /\ file'.cells = file.cells /\ file'.header = [file.header EXCEPT !.index_length = NewLength]
        /\ file' = [header |-> file'.header, cells |-> file'.cells]
    BY <1>2, <1>5
  <1>8. /\ file'.header \in Header /\ file'.header.index_length = NewLength
        /\ file'.header.valid = file.header.valid
        /\ file'.header.index_offset = file.header.index_offset
        /\ file'.header.append_offset = file.header.append_offset
    BY <1>2, <1>6, <1>7 DEF Header
  <1>9. NewLength' = NewLength /\ NewIndex' = NewIndex
    BY <1>5 DEF NewLength, NewIndex
  <1> HIDE DEF y
  <1>10. MergeProgress(x)'
    BY <1>1, <1>2, <1>4, <1>5, <1>7, <1>8, <1>9 DEF MergeProgress
  <1>11. x.pc \in Merging
    BY <1>4 DEF Merging
  <1> QED  BY <1>1, <1>4, <1>5, <1>7, <1>8, <1>10, <1>11, HeaderStep DEF y

LEMMA WriteAppendStep ==
  ASSUME Undamaged, held = Contents, held' = Contents', NEW t \in Threads, WriteAppend(t)
  PROVE  Undamaged' /\ held' = held
  <1> DEFINE y == thread[t]
  <1>1. y.pc = "append" /\ y.pc \in Merging
    BY DEF WriteAppend, At, Merging
  <1>2. /\ MergeProgress(y) /\ ~y.orphan /\ LocalShape(y)
        /\ file = [header |-> file.header, cells |-> file.cells] /\ file.header \in Header
        /\ state.append_offset \in Nat /\ y.rows \in Nat
    BY <1>1, Inside
  <1>3. PICK x : x = [y EXCEPT !.pc = "sync"]
    OBVIOUS
  <1>4. x.pc = "sync" /\ x = [y EXCEPT !.pc = x.pc] /\ x.at = y.at /\ x.page = y.page
        /\ x.data = y.data /\ x.rows = y.rows
    BY <1>2, <1>3 DEF LocalShape
  <1>5. /\ file' = [file EXCEPT !.header.append_offset = y.at + NewLength]
        /\ thread' = [thread EXCEPT ![t] = x]
        /\ UNCHANGED <<tmp, state, mutex, flush, done>>
    BY <1>2, <1>3 DEF WriteAppend, WriteHeader, Goto, Undamaged, Shapes
  <1>6. NewLength \in Nat /\ y.at \in Nat
    BY <1>1, NewPlace
  <1>7. /\ file'.cells = file.cells /\ file'.header = [file.header EXCEPT !.append_offset = y.at + NewLength]
        /\ file' = [header |-> file'.header, cells |-> file'.cells]
    BY <1>2, <1>5
  <1>8. /\ file'.header \in Header /\ file'.header.append_offset = y.at + NewLength
        /\ file'.header.valid = file.header.valid
        /\ file'.header.index_offset = file.header.index_offset
        /\ file'.header.index_length = file.header.index_length
    BY <1>2, <1>6, <1>7 DEF Header
  <1>9. NewLength' = NewLength /\ NewIndex' = NewIndex
    BY <1>5 DEF NewLength, NewIndex
  <1> HIDE DEF y
  <1>10. MergeProgress(x)'
    BY <1>1, <1>2, <1>4, <1>5, <1>7, <1>8, <1>9 DEF MergeProgress
  <1>11. x.pc \in Merging
    BY <1>4 DEF Merging
  <1> QED  BY <1>1, <1>4, <1>5, <1>7, <1>8, <1>10, <1>11, HeaderStep DEF y

\* The mutex is released: the store in memory is what the file holds.
LEMMA EndMerge ==
  ASSUME Undamaged, NEW t \in Threads, thread[t].pc \in Merging,
         thread' = [thread EXCEPT ![t] = Idle], mutex' = None,
         UNCHANGED <<file, tmp, flush, done>>,
         StateShape(state'), state'.loaded = TRUE,
         state'.append_offset \in Nat, state'.append_offset >= state.append_offset,
         Whole(file), Loaded(file) = {state'}
  PROVE  Undamaged'
  <1>1. /\ mutex = t /\ flush.pc = "idle" /\ t # None /\ MergeProgress(thread[t])
        /\ state.append_offset \in Nat
    BY Inside
  <1>2. /\ DOMAIN thread' = Threads /\ thread' = [u \in Threads |-> thread'[u]]
        /\ \A u \in Threads : LocalShape(thread'[u])
        /\ thread'[t] = Idle
        /\ \A u \in Threads : u # t => thread'[u] = thread[u]
    BY IdleShape, ThreadStep DEF Undamaged
  <1>3. Shapes'
    BY <1>2 DEF Undamaged, Shapes
  <1>4. MergesApart'
    <2>1. \A u \in Threads : Merges(thread'[u])
      BY <1>2, IdleShape DEF Undamaged, MergesApart, Merges, Merging
    <2>2. \A u \in Threads : thread'[u].pc \notin Merging /\ mutex' # u
      BY <1>1, <1>2, IdleShape, FileAssumption DEF Undamaged, MergesApart, Merging, None
    <2> QED  BY <2>1, <2>2 DEF MergesApart, Merges
  <1>5. BetweenMerges' /\ FlushProgress'
    BY <1>1 DEF BetweenMerges, FlushProgress
  <1>6. \A u \in Threads : ReadProgress(thread[u])'
    <2> SUFFICES ASSUME NEW u \in Threads PROVE ReadProgress(thread[u])'
      OBVIOUS
    <2>1. CASE u = t
      BY <1>2, <2>1, IdleShape DEF ReadProgress
    <2>2. CASE u # t
      <3>1. ReadProgress(thread[u]) /\ thread'[u] = thread[u]
        BY <1>2, <2>2 DEF Undamaged
      <3>2. \A n \in Nat : n < state.append_offset => n < state'.append_offset
        BY <1>1
      <3> QED  BY <1>1, <3>1, <3>2 DEF ReadProgress
    <2> QED  BY <2>1, <2>2
  <1> QED  BY <1>3, <1>4, <1>5, <1>6 DEF Undamaged

\* The new index of a merge, once it is written.
LEMMA NewIndexSound ==
  ASSUME Undamaged, held = Contents, NEW t \in Threads,
         thread[t].pc \in Merging \ {"page", "index"}
  PROVE  LET b == thread[t].at
         IN /\ NewLength \in Nat /\ NewLength > 0 /\ b \in Nat
            /\ b > state.append_offset
            /\ IndexAt(file.cells, b, NewLength) = NewIndex
            /\ Sound(file.cells, b, NewLength, b + NewLength)
            /\ PagesAt(file.cells, b, NewLength) = After(t)
  <1> DEFINE y == thread[t]
             a == Max({state.append_offset, HEADER_SIZE})
             old == IndexAt(file.cells, state.index_offset, state.index_length)
  <1>1. /\ MergeProgress(y) /\ y.page \in Pages /\ y.data \in Data /\ y.rows \in Nat
        /\ state.append_offset \in Nat /\ y.pc \notin {"page", "index"} /\ mutex # None
    BY Inside
  <1>2. a \in Nat /\ a >= state.append_offset
    BY <1>1, Cursor
  <1>3. /\ Sound(file.cells, state.index_offset, state.index_length, state.append_offset)
        /\ y.at = a + 1 /\ a \in DOMAIN file.cells
        /\ file.cells[a] = PageRecord(y.page, y.data)
        /\ state.index = Grown(old.pages, y.page, a)
        /\ state.rows = y.rows
        /\ y.at..(y.at + NewLength - 1) \subseteq DOMAIN file.cells
        /\ Intact(file.cells, y.at, NewIndex, NewLength)
    BY <1>1 DEF MergeProgress
  <1>4. NewLength = IndexLength(NewIndex) /\ NewIndex = [pages |-> state.index, rows |-> y.rows]
    BY <1>3 DEF NewLength, NewIndex
  <1>5. held = PagesAt(file.cells, state.index_offset, state.index_length)
    BY <1>1, HeldMerging
  <1>6. After(t) = [PagesAt(file.cells, state.index_offset, state.index_length)
                      EXCEPT ![y.page] = y.data]
    BY <1>5 DEF After
  <1> HIDE DEF y, a
  <1>7. /\ NewLength \in Nat /\ NewLength > 0
        /\ IndexAt(file.cells, a + 1, NewLength) = NewIndex
        /\ Sound(file.cells, a + 1, NewLength, a + 1 + NewLength)
        /\ PagesAt(file.cells, a + 1, NewLength)
             = [PagesAt(file.cells, state.index_offset, state.index_length)
                  EXCEPT ![y.page] = y.data]
    <2>1. /\ (a + 1)..(a + 1 + NewLength - 1) \subseteq DOMAIN file.cells
          /\ Intact(file.cells, a + 1, NewIndex, NewLength)
      BY <1>3
    <2> QED  BY <1>1, <1>2, <1>3, <1>4, <2>1, NewSound
  <1>8. /\ y.at \in Nat /\ y.at > state.append_offset
    BY <1>1, <1>2, <1>3
  <1> QED  BY <1>3, <1>6, <1>7, <1>8 DEF y

\* merge_pages returns (page_store.rs:500-510).
LEMMA MergeDoneStep ==
  ASSUME Undamaged, held = Contents, held' = Contents', NEW t \in Threads, MergeDone(t)
  PROVE  Undamaged' /\ held' = After(t)
  <1> DEFINE b == thread[t].at
  <1>1. thread[t].pc = "sync" /\ thread[t].pc \in Merging \ {"page", "index"}
    BY DEF MergeDone, At, Merging
  <1>2. /\ MergeProgress(thread[t]) /\ StateShape(state) /\ state.append_offset \in Nat
        /\ file.header \in Header
    BY <1>1, Inside
  <1>3. /\ NewLength \in Nat /\ NewLength > 0 /\ b \in Nat /\ b > state.append_offset
        /\ IndexAt(file.cells, b, NewLength) = NewIndex
        /\ Sound(file.cells, b, NewLength, b + NewLength)
        /\ PagesAt(file.cells, b, NewLength) = After(t)
    BY <1>1, NewIndexSound
  <1>4. /\ file.header.valid /\ file.header.index_offset = b
        /\ file.header.index_length = NewLength
        /\ file.header.append_offset = b + NewLength /\ state.loaded = TRUE
    BY <1>1, <1>2 DEF MergeProgress
  <1>5. /\ mutex' = None /\ thread' = [thread EXCEPT ![t] = Idle]
        /\ UNCHANGED <<file, tmp, flush, done>>
        /\ state' = [state EXCEPT !.index_offset = b, !.index_length = NewLength,
                                  !.append_offset = b + NewLength]
    BY DEF MergeDone
  <1> HIDE DEF b
  <1>6. Whole(file)
    BY <1>3, <1>4 DEF Whole
  <1>7. PICK s : /\ Loaded(file) = {s} /\ Agrees(file.cells, s)
                 /\ s.index_length = NewLength /\ s.index_offset = b
                 /\ s.append_offset = b + NewLength
    BY <1>2, <1>3, <1>4, <1>6, WholeLoads
  <1>8. state' = [loaded |-> TRUE, index |-> state.index, rows |-> state.rows,
                  index_offset |-> b, index_length |-> NewLength,
                  append_offset |-> b + NewLength]
    BY <1>2, <1>4, <1>5 DEF StateShape
  <1>9. s = state'
    <2>1. s = StateAt(file.cells, b, NewLength, b + NewLength)
      BY <1>7 DEF Agrees
    <2>2. NewIndex.pages = state.index /\ NewIndex.rows = state.rows
      BY DEF NewIndex
    <2> QED  BY <1>3, <1>8, <2>1, <2>2 DEF StateAt
  <1>10. /\ StateShape(state') /\ state'.loaded = TRUE
         /\ state'.append_offset \in Nat /\ state'.append_offset >= state.append_offset
    BY <1>2, <1>3, <1>8 DEF StateShape
  <1>11. Undamaged'
    BY <1>1, <1>5, <1>6, <1>7, <1>9, <1>10, EndMerge
  <1>12. held' = After(t)
    <2>1. held' = PagesFor(file.cells, Loaded(file))
      BY <1>5, NextContents
    <2> QED  BY <1>3, <1>7, <2>1, WholePages
  <1> QED  BY <1>11, <1>12

\* merge_pages fails before it has written anything.
LEMMA MergeFailStep ==
  ASSUME Undamaged, held = Contents, held' = Contents', NEW t \in Threads,
         MergeFail(t), ~damaged'
  PROVE  Undamaged' /\ held' = held
  <1>1. /\ mutex' = None /\ thread' = [thread EXCEPT ![t] = Idle]
        /\ UNCHANGED <<file, tmp, state, flush, done>>
        /\ thread[t].pc \in {"open", "page"} /\ (thread[t].pc = "open" => mutex = None)
    BY DEF MergeFail, At, Merging
  <1>2. CASE thread[t].pc = "open"
    <2>1. t # mutex
      BY <1>1, <1>2, FileAssumption DEF None
    <2> QED  BY <1>1, <1>2, <2>1, ReturnStep
  <1>3. CASE thread[t].pc = "page"
    <2>1. thread[t].pc \in Merging
      BY <1>3 DEF Merging
    <2>2. /\ MergeProgress(thread[t]) /\ StateShape(state) /\ state.append_offset \in Nat
          /\ mutex # None /\ file.header \in Header
      BY <2>1, Inside
    <2>3. Whole(file) /\ Loaded(file) = {state} /\ state.loaded = TRUE
      BY <1>3, <2>2 DEF MergeProgress
    <2>4. Undamaged'
      <3>1. /\ StateShape(state') /\ state'.loaded = TRUE /\ state'.append_offset \in Nat
            /\ state'.append_offset >= state.append_offset /\ Loaded(file) = {state'}
        BY <1>1, <2>2, <2>3
      <3> QED  BY <1>1, <2>1, <2>3, <3>1, EndMerge
    <2>5. held' = held
      <3>1. Agrees(file.cells, state)
        BY <2>2, <2>3, UniqueState
      <3>2. held' = PagesFor(file.cells, Loaded(file))
        BY <1>1, NextContents
      <3> QED  BY <2>2, <2>3, <3>1, <3>2, WholePages, HeldMerging
    <2> QED  BY <2>4, <2>5
  <1> QED  BY <1>1, <1>2, <1>3

-----------------------------------------------------------------------------
(* Flushes                                                                 *)

LEMMA QuietHeld ==
  ASSUME held = Contents, held' = Contents', mutex = None, UNCHANGED <<file, mutex>>
  PROVE  held' = held
  BY NextContents, ContentsAre DEF Current

\* A step of the flush that neither replaces the file nor publishes it.
LEMMA FlushStep ==
  ASSUME Undamaged, mutex = None, UNCHANGED <<file, mutex, thread>>,
         state' = state \/ state' \in load_state,
         FlushShape(flush'), flush.pc # "publish",
         flush'.pc \in {"idle", "copy", "rename"}, done' \in Counts, FlushProgress'
  PROVE  Undamaged'
  <1>1. /\ StateShape(state') /\ (state' = Unloaded \/ state'.loaded = TRUE)
        /\ state.loaded => state' = state
        /\ state'.loaded => Loaded(file) = {state'}
    BY LoadStep DEF Undamaged, Shapes, BetweenMerges
  <1>2. Shapes'
    BY <1>1 DEF Undamaged, Shapes
  <1>3. MergesApart'
    BY DEF Undamaged, MergesApart, Merges
  <1>4. BetweenMerges'
    BY <1>1 DEF Undamaged, BetweenMerges
  <1>5. \A u \in Threads : ReadProgress(thread[u])'
    BY <1>1 DEF Undamaged, ReadProgress
  <1> QED  BY <1>2, <1>3, <1>4, <1>5 DEF Undamaged

LEMMA FlushIdleShape == FlushShape(FlushIdle) /\ FlushIdle.pc = "idle"
  BY DEF FlushShape, FlushIdle

\* What holds while the task rewrites the file.
LEMMA Flushing ==
  ASSUME Undamaged, flush.pc # "idle"
  PROVE  /\ mutex = None /\ state.loaded = TRUE /\ FlushShape(flush)
         /\ IsImage(flush.resident) /\ flush.rows \in Nat
         /\ file.header \in Header /\ Whole(file)
         /\ flush.pc # "publish" => Loaded(file) = {state} /\ Agrees(file.cells, state)
  <1>1. mutex = None /\ state.loaded = TRUE
    BY DEF Undamaged, MergesApart, FlushProgress
  <1>2. flush.pc # "publish" => Loaded(file) = {state}
    BY <1>1 DEF Undamaged, BetweenMerges
  <1>3. file.header \in Header /\ Whole(file)
    BY <1>1 DEF Undamaged, BetweenMerges, Shapes
  <1> QED  BY <1>1, <1>2, <1>3, UniqueState DEF Undamaged, FlushProgress, Shapes

\* flush_all_pages lists the pages on disk (table.rs, page_store.rs:383-418).
LEMMA FlushListStep ==
  ASSUME Undamaged, held = Contents, held' = Contents',
         NEW S \in SUBSET Pages, NEW resident \in [S -> Data], NEW rows \in Located,
         FlushList(resident, rows)
  PROVE  Undamaged' /\ held' = held
  <1>1. PICK s \in load_state :
          /\ state' = s
          /\ flush' = [FlushIdle EXCEPT !.pc = "copy", !.resident = resident,
                                        !.rows = rows, !.image = resident,
                                        !.todo = DOMAIN s.index \ DOMAIN resident]
    BY DEF FlushList
  <1>2. /\ mutex = None /\ flush.pc = "idle" /\ UNCHANGED <<file, mutex, thread>>
    BY DEF FlushList
  <1>3. done' \in Counts
    BY CountStep DEF FlushList, Undamaged, Shapes
  <1>4. held' = held
    BY <1>2, QuietHeld
  <1>5. /\ flush'.pc = "copy" /\ flush'.resident = resident /\ flush'.rows = rows
        /\ flush'.image = resident /\ flush'.todo = DOMAIN s.index \ DOMAIN resident
        /\ FlushShape(flush')
    BY <1>1 DEF FlushIdle, FlushShape
  <1>6. Loaded(file) = {s} /\ Agrees(file.cells, s) /\ s.loaded = TRUE
    BY <1>2, LoadStep
  <1>7. held = PagesAt(file.cells, s.index_offset, s.index_length)
    <2>1. PICK u : /\ Loaded(file) = {u}
                   /\ held = PagesAt(file.cells, u.index_offset, u.index_length)
      BY <1>2, HeldBetween
    <2>2. u = s
      BY <1>6, <2>1
    <2> QED  BY <2>1, <2>2
  <1>8. \A p \in Pages : p \notin DOMAIN s.index => held[p] = Absent
    <2>1. s.index = IndexAt(file.cells, s.index_offset, s.index_length).pages
      BY <1>6 DEF Agrees, StateAt
    <2> QED  BY <1>7, <2>1 DEF PagesAt
  <1>9. IsImage(resident) /\ rows \in Nat
    BY FileAssumption DEF IsImage
  <1>10. \A p \in Pages : Flushed'[p] = IF p \in DOMAIN resident THEN resident[p]
                                                                ELSE held[p]
    BY <1>4, <1>5 DEF Flushed
  <1>11. FlushProgress'
    <2>1. \A p \in DOMAIN resident : resident[p] = Flushed'[p]
      BY <1>9, <1>10 DEF IsImage
    <2>2. \A p \in Pages : p \notin DOMAIN resident \cup (DOMAIN s.index \ DOMAIN resident)
                             => Flushed'[p] = Absent
      BY <1>8, <1>10
    <2> QED  BY <1>1, <1>5, <1>6, <1>9, <2>1, <2>2 DEF FlushProgress
  <1> QED  BY <1>1, <1>2, <1>3, <1>4, <1>5, <1>11, FlushStep

\* A page that is not in memory is copied from the old file.
LEMMA FlushCopyStep ==
  ASSUME Undamaged, held = Contents, held' = Contents', NEW p \in Pages, FlushCopy(p)
  PROVE  Undamaged' /\ held' = held
  <1> DEFINE d == read_record(file.cells, state.index[p], p)
  <1>1. /\ flush.pc = "copy" /\ p \in flush.todo
        /\ flush' = IF d = Unreadable THEN FlushIdle
                    ELSE [flush EXCEPT !.todo = @ \ {p},
                                       !.image = Over(@, [q \in {p} |-> d])]
        /\ UNCHANGED <<file, tmp, state, mutex, thread, done>>
    BY DEF FlushCopy
  <1>2. /\ mutex = None /\ state.loaded = TRUE /\ FlushShape(flush)
        /\ IsImage(flush.resident) /\ flush.rows \in Nat
        /\ Loaded(file) = {state} /\ Agrees(file.cells, state)
    BY <1>1, Flushing
  <1>3. held' = held
    BY <1>1, <1>2, QuietHeld
  <1>4. held = PagesAt(file.cells, state.index_offset, state.index_length)
    BY <1>1, <1>2, HeldBetween
  <1>5. /\ IsImage(flush.image) /\ flush.todo \subseteq DOMAIN state.index
        /\ flush.todo \cap DOMAIN flush.resident = {}
        /\ \A q \in DOMAIN flush.image : flush.image[q] = Flushed[q]
        /\ \A q \in Pages : q \notin DOMAIN flush.image \cup flush.todo => Flushed[q] = Absent
    BY <1>1 DEF Undamaged, FlushProgress
  <1>6. d = held[p] /\ d \in Data
    <2>1. p \in DOMAIN state.index
      BY <1>1, <1>5
    <2> QED  BY <1>2, <1>4, <2>1, Locates
  <1>7. d # Unreadable
    BY <1>6, FileAssumption
  <1> HIDE DEF d
  <1>8. PICK image : image = Grown(flush.image, p, d)
    OBVIOUS
  <1>9. /\ flush'.pc = "copy" /\ flush'.resident = flush.resident
        /\ flush'.rows = flush.rows /\ flush'.todo = flush.todo \ {p}
        /\ flush'.image = image /\ FlushShape(flush')
    BY <1>1, <1>2, <1>7, <1>8 DEF FlushShape, Grown
  <1>10. /\ IsImage(image) /\ DOMAIN image = DOMAIN flush.image \cup {p}
         /\ image[p] = d /\ \A q \in DOMAIN flush.image \ {p} : image[q] = flush.image[q]
    BY <1>5, <1>6, <1>8 DEF IsImage, Grown, Over
  <1>11. Flushed' = Flushed /\ Flushed[p] = held[p]
    BY <1>1, <1>3, <1>5, <1>9 DEF Flushed
  <1>12. FlushProgress'
    <2>1. \A q \in DOMAIN image : image[q] = Flushed'[q]
      BY <1>5, <1>6, <1>10, <1>11
    <2>2. \A q \in Pages : q \notin DOMAIN image \cup (flush.todo \ {p}) => Flushed'[q] = Absent
      BY <1>5, <1>10, <1>11
    <2>3. /\ flush.todo \ {p} \subseteq DOMAIN state.index
          /\ (flush.todo \ {p}) \cap DOMAIN flush.resident = {}
      BY <1>5
    <2> QED  BY <1>1, <1>2, <1>9, <1>10, <2>1, <2>2, <2>3 DEF FlushProgress
  <1>13. done' \in Counts /\ flush.pc # "publish"
    BY <1>1 DEF Undamaged, Shapes
  <1> QED  BY <1>1, <1>2, <1>3, <1>9, <1>12, <1>13, FlushStep

\* The rewrite fails; the old file stays.
LEMMA FlushFailStep ==
  ASSUME Undamaged, held = Contents, held' = Contents', FlushFail
  PROVE  Undamaged' /\ held' = held
  <1>1. /\ flush.pc \in {"copy", "rename"} /\ flush' = FlushIdle
        /\ UNCHANGED <<file, tmp, state, mutex, thread, done>>
    BY DEF FlushFail
  <1>2. mutex = None
    BY <1>1, Flushing
  <1>3. held' = held
    BY <1>1, <1>2, QuietHeld
  <1>4. FlushProgress'
    BY <1>1, FlushIdleShape DEF FlushProgress
  <1>5. done' \in Counts
    BY <1>1 DEF Undamaged, Shapes
  <1> QED  BY <1>1, <1>2, <1>3, <1>4, <1>5, FlushIdleShape, FlushStep

\* A compact file has one place for every page, in front of the index.
LEMMA CompactPlaces ==
  ASSUME NEW S \in SUBSET Pages
  PROVE  /\ Cardinality(S) \in Nat /\ IsFiniteSet(S)
         /\ IsTable(Compact(S)) /\ DOMAIN Compact(S) = S
         /\ \A p \in S : Compact(S)[p] \in HEADER_SIZE..(HEADER_SIZE + Cardinality(S) - 1)
         /\ \A p, q \in S : Compact(S)[p] = Compact(S)[q] => p = q
  <1> DEFINE B(p) == {q \in S : q < p}
  <1>1. Cardinality(S) \in Nat /\ IsFiniteSet(S) /\ S \subseteq Nat
    BY FS_Subset, FS_CardinalityType, FileAssumption
  <1>2. \A p \in S : B(p) \in SUBSET S /\ p \notin B(p)
    BY <1>1
  <1>3. \A p \in S : /\ IsFiniteSet(B(p)) /\ Cardinality(B(p)) \in Nat
                     /\ Cardinality(B(p)) < Cardinality(S)
    <2> SUFFICES ASSUME NEW p \in S
                 PROVE  /\ IsFiniteSet(B(p)) /\ Cardinality(B(p)) \in Nat
                        /\ Cardinality(B(p)) < Cardinality(S)
      OBVIOUS
    <2>1. B(p) \in SUBSET S /\ B(p) # S
      BY <1>2
    <2> HIDE DEF B
    <2>2. /\ IsFiniteSet(B(p)) /\ Cardinality(B(p)) <= Cardinality(S)
          /\ Cardinality(S) = Cardinality(B(p)) => S = B(p)
      BY <1>1, <2>1, FS_Subset
    <2>3. Cardinality(B(p)) \in Nat
      BY <2>2, FS_CardinalityType
    <2> QED  BY <1>1, <2>1, <2>2, <2>3
  <1>4. \A p, q \in S : q < p => Cardinality(B(q)) < Cardinality(B(p))
    <2> SUFFICES ASSUME NEW p \in S, NEW q \in S, q < p
                 PROVE  Cardinality(B(q)) < Cardinality(B(p))
      OBVIOUS
    <2>1. B(q) \in SUBSET B(p) /\ B(q) # B(p)
      <3>1. q \in B(p) /\ q \notin B(q)
        BY <1>1
      <3>2. \A r \in B(q) : r \in B(p)
        BY <1>1
      <3> QED  BY <3>1, <3>2
    <2>2. IsFiniteSet(B(p)) /\ Cardinality(B(p)) \in Nat /\ Cardinality(B(q)) \in Nat
      BY <1>3
    <2> HIDE DEF B
    <2>3. /\ Cardinality(B(q)) <= Cardinality(B(p))
          /\ Cardinality(B(p)) = Cardinality(B(q)) => B(p) = B(q)
      BY <2>1, <2>2, FS_Subset
    <2> QED  BY <2>1, <2>2, <2>3
  <1>5. /\ DOMAIN Compact(S) = S /\ Compact(S) = [p \in S |-> Compact(S)[p]]
        /\ \A p \in S : Compact(S)[p] = HEADER_SIZE + Cardinality(B(p))
    BY DEF Compact
  <1> HIDE DEF B
  <1>6. \A p \in S : Compact(S)[p] \in HEADER_SIZE..(HEADER_SIZE + Cardinality(S) - 1)
                     /\ Compact(S)[p] \in Nat
    BY <1>1, <1>3, <1>5 DEF HEADER_SIZE
  <1>7. ASSUME NEW p \in S, NEW q \in S, Compact(S)[p] = Compact(S)[q]
        PROVE  p = q
    <2>1. Cardinality(B(p)) = Cardinality(B(q))
      BY <1>3, <1>5, <1>7 DEF HEADER_SIZE
    <2>2. ~(p < q) /\ ~(q < p)
      BY <1>3, <1>4, <2>1
    <2> QED  BY <1>1, <2>2
  <1>8. IsTable(Compact(S))
    BY <1>5, <1>6 DEF IsTable
  <1> QED  BY <1>1, <1>5, <1>6, <1>7, <1>8

LEMMA CompactPage ==
  ASSUME NEW m, IsImage(m), NEW p \in DOMAIN m
  PROVE  CompactPages(m)[Compact(DOMAIN m)[p]] = PageRecord(p, m[p])
  <1> DEFINE S == DOMAIN m
             o == Compact(S)[p]
  <1>1. /\ o \in HEADER_SIZE..(HEADER_SIZE + Cardinality(S) - 1)
        /\ \A r, q \in S : Compact(S)[r] = Compact(S)[q] => r = q
    BY CompactPlaces DEF IsImage
  <1>2. (CHOOSE q \in S : Compact(S)[q] = o) = p
    BY <1>1
  <1> QED  BY <1>1, <1>2 DEF CompactPages

LEMMA CompactSound ==
  ASSUME NEW m, IsImage(m), NEW rows \in Nat, NEW old,
         NEW a, a = HEADER_SIZE + Cardinality(DOMAIN m),
         NEW ix, ix = [pages |-> Compact(DOMAIN m), rows |-> rows],
         NEW new, new = Over(old, Over(CompactPages(m), serialize_index(ix, a)))
  PROVE  /\ Sound(new, a, IndexLength(ix), a + IndexLength(ix))
         /\ IndexAt(new, a, IndexLength(ix)) = ix
         /\ PagesAt(new, a, IndexLength(ix))
              = [p \in Pages |-> IF p \in DOMAIN m THEN m[p] ELSE Absent]
  <1> DEFINE S == DOMAIN m
             T == Compact(S)
             L == IndexLength(ix)
             C == CompactPages(m)
             W == serialize_index(ix, a)
  <1>1. /\ S \in SUBSET Pages /\ Cardinality(S) \in Nat
        /\ IsTable(T) /\ DOMAIN T = S
        /\ \A p \in S : T[p] \in HEADER_SIZE..(HEADER_SIZE + Cardinality(S) - 1)
    BY CompactPlaces DEF IsImage
  <1>2. L = Cardinality(S) + rows /\ L \in Nat /\ a \in Nat
        /\ ix.pages = T /\ ix.rows = rows
    BY <1>1 DEF IndexLength, HEADER_SIZE
  <1>3. DOMAIN C = HEADER_SIZE..(a - 1) /\ \A p \in S : C[T[p]] = PageRecord(p, m[p])
    <2>1. \A p \in S : C[T[p]] = PageRecord(p, m[p])
      BY CompactPage
    <2> QED  BY <1>1, <2>1 DEF CompactPages, HEADER_SIZE
  <1>4. DOMAIN W = a..(a + L - 1)
        /\ \A o \in a..(a + L - 1) : W[o] = [kind |-> "index", index |-> ix, part |-> o - a]
    BY DEF serialize_index
  <1> HIDE DEF T, L, C, W
  <1>5. /\ new = Over(old, Over(C, W))
        /\ DOMAIN C \subseteq DOMAIN new /\ DOMAIN W \subseteq DOMAIN new
        /\ \A o \in DOMAIN W : new[o] = W[o]
        /\ \A o \in DOMAIN C : o \notin DOMAIN W => new[o] = C[o]
    BY DEF Over, C, W
  <1>6. \A p \in S : /\ T[p] \in DOMAIN new /\ T[p] < a /\ T[p] \in Nat
                     /\ new[T[p]] = PageRecord(p, m[p])
    <2> SUFFICES ASSUME NEW p \in S
                 PROVE  /\ T[p] \in DOMAIN new /\ T[p] < a /\ T[p] \in Nat
                        /\ new[T[p]] = PageRecord(p, m[p])
      OBVIOUS
    <2>1. T[p] \in HEADER_SIZE..(a - 1) /\ T[p] \in Nat /\ T[p] < a
      BY <1>1, <1>2 DEF HEADER_SIZE
    <2>2. T[p] \in DOMAIN C /\ T[p] \notin DOMAIN W
      BY <1>2, <1>3, <1>4, <2>1
    <2> QED  BY <1>3, <1>5, <2>1, <2>2
  <1>7. \A p \in S : new[T[p]].data = m[p]
    <2>1. \A p, d : PageRecord(p, d).data = d
      BY DEF PageRecord
    <2> QED  BY <1>6, <2>1
  <1>8. Intact(new, a, ix, L)
    <2>1. \A k \in 0..(L - 1) : a + k \in a..(a + L - 1) /\ (a + k) - a = k
      BY <1>2
    <2> QED  BY <1>4, <1>5, <2>1 DEF Intact
  <1>9. IndexAt(new, a, L) = ix
    <2>1. CASE L = 0
      <3>1. Cardinality(S) = 0 /\ rows = 0
        BY <1>1, <1>2, <2>1
      <3>2. S = {}
        BY <1>1, <3>1, TableLength
      <3>3. T = Empty
        BY <1>1, <3>2, EmptyTable
      <3> QED  BY <2>1, <3>1, <3>3 DEF IndexAt, T
    <2>2. CASE L # 0
      <3>1. a \in a..(a + L - 1) /\ a - a = 0
        BY <1>2, <2>2
      <3>2. new[a] = [kind |-> "index", index |-> ix, part |-> 0]
        BY <1>4, <1>5, <3>1
      <3>3. new[a].index = ix
        BY <3>2
      <3> QED  BY <2>2, <3>3 DEF IndexAt
    <2> QED  BY <2>1, <2>2
  <1>10. Sound(new, a, L, a + L)
    <2>1. \A p \in DOMAIN T : /\ T[p] \in DOMAIN new /\ T[p] < a + L
                              /\ new[T[p]] = PageRecord(p, new[T[p]].data)
                              /\ new[T[p]].data \in Data
      BY <1>1, <1>2, <1>6, <1>7 DEF IsImage
    <2>2. a + L <= a + L /\ a + L \in Nat
      BY <1>2
    <2>3. L = IndexLength(ix)
      BY DEF L
    <2> QED  BY <1>1, <1>2, <1>4, <1>5, <1>8, <1>9, <2>1, <2>2, <2>3 DEF Sound
  <1>11. PagesAt(new, a, L) = [p \in Pages |-> IF p \in S THEN m[p] ELSE Absent]
    <2>1. PagesAt(new, a, L)
            = [p \in Pages |-> IF p \in DOMAIN T THEN new[T[p]].data ELSE Absent]
      BY <1>2, <1>9 DEF PagesAt
    <2> QED  BY <1>1, <1>7, <2>1
  <1> QED  BY <1>9, <1>10, <1>11 DEF L

\* write_compact_file_from_bytes (page_store.rs:327-381).
LEMMA FlushWriteStep ==
  ASSUME Undamaged, held = Contents, held' = Contents', FlushWrite
  PROVE  Undamaged' /\ held' = held
  <1> DEFINE m == flush.image
             a == HEADER_SIZE + Cardinality(DOMAIN m)
             ix == [pages |-> Compact(DOMAIN m), rows |-> flush.rows]
             N == [loaded |-> TRUE, index |-> Compact(DOMAIN m), rows |-> flush.rows,
                   index_offset |-> a, index_length |-> IndexLength(ix),
                   append_offset |-> a + IndexLength(ix)]
  <1>1. /\ flush.pc = "copy" /\ flush.todo = {}
        /\ tmp' = Over(tmp, Over(CompactPages(m), serialize_index(ix, a)))
        /\ flush' = [flush EXCEPT !.pc = "rename", !.next = N]
        /\ UNCHANGED <<file, state, mutex, thread, done>>
    BY DEF FlushWrite
  <1>2. /\ mutex = None /\ state.loaded = TRUE /\ FlushShape(flush)
        /\ IsImage(flush.resident) /\ flush.rows \in Nat
    BY <1>1, Flushing
  <1>3. held' = held
    BY <1>1, <1>2, QuietHeld
  <1>4. /\ IsImage(m)
        /\ \A q \in DOMAIN m : m[q] = Flushed[q]
        /\ \A q \in Pages : q \notin DOMAIN m => Flushed[q] = Absent
    BY <1>1 DEF Undamaged, FlushProgress
  <1>5. /\ Sound(tmp', a, IndexLength(ix), a + IndexLength(ix))
        /\ IndexAt(tmp', a, IndexLength(ix)) = ix
        /\ PagesAt(tmp', a, IndexLength(ix))
             = [p \in Pages |-> IF p \in DOMAIN m THEN m[p] ELSE Absent]
    BY <1>1, <1>2, <1>4, CompactSound
  <1>6. PICK n : n = N
    OBVIOUS
  <1>7. /\ flush'.pc = "rename" /\ flush'.resident = flush.resident
        /\ flush'.rows = flush.rows /\ flush'.next = n /\ FlushShape(flush')
    BY <1>1, <1>2, <1>6 DEF FlushShape
  <1>8. /\ n.index_offset = a /\ n.index_length = IndexLength(ix)
        /\ n.append_offset = a + IndexLength(ix)
    BY <1>6
  <1>9. Agrees(tmp', n)
    <2> DEFINE L == IndexLength(ix)
    <2>1. ix.pages = Compact(DOMAIN m) /\ ix.rows = flush.rows
      OBVIOUS
    <2>2. StateAt(tmp', a, L, a + L)
            = [loaded |-> TRUE, index |-> Compact(DOMAIN m), rows |-> flush.rows,
               index_offset |-> a, index_length |-> L, append_offset |-> a + L]
      BY <1>5, <2>1 DEF StateAt
    <2>3. n = StateAt(tmp', a, L, a + L)
      BY <1>6, <2>2
    <2> QED  BY <1>5, <1>8, <2>3 DEF Agrees
  <1>10. Flushed' = Flushed /\ Flushed = [p \in Pages |-> Flushed[p]]
    BY <1>3, <1>7 DEF Flushed
  <1>11. PagesAt(tmp', n.index_offset, n.index_length) = Flushed'
    <2> HIDE DEF m
    <2>1. \A p \in Pages : (IF p \in DOMAIN m THEN m[p] ELSE Absent) = Flushed[p]
      BY <1>4
    <2>2. [p \in Pages |-> IF p \in DOMAIN m THEN m[p] ELSE Absent]
            = [p \in Pages |-> Flushed[p]]
      BY <2>1
    <2> QED  BY <1>5, <1>8, <1>10, <2>2 DEF m
  <1>12. FlushProgress'
    BY <1>1, <1>2, <1>7, <1>9, <1>11 DEF FlushProgress
  <1>13. done' \in Counts
    BY <1>1 DEF Undamaged, Shapes
  <1> QED  BY <1>1, <1>2, <1>3, <1>7, <1>12, <1>13, FlushStep

\* The rename (page_store.rs:372-381).
LEMMA FlushRenameStep ==
  ASSUME Undamaged, held = Contents, held' = Contents', FlushRename
  PROVE  Undamaged' /\ held' = Flushed
  <1> DEFINE n == flush.next
             Moved(t) == [thread[t] EXCEPT !.orphan = @ \/ thread[t].pc \in {"open"} \cup Merging,
                                           !.crossed = @ \/ At(t, "located")]
  <1>1. /\ flush.pc = "rename"
        /\ file' = [header |-> [valid |-> TRUE, index_offset |-> n.index_offset,
                                index_length |-> n.index_length,
                                append_offset |-> n.append_offset], cells |-> tmp]
        /\ thread' = [t \in Threads |-> Moved(t)]
        /\ flush' = [flush EXCEPT !.pc = "publish"]
        /\ UNCHANGED <<state, mutex, done>>
    BY DEF FlushRename
  <1>2. /\ mutex = None /\ state.loaded = TRUE /\ FlushShape(flush)
        /\ IsImage(flush.resident) /\ flush.rows \in Nat
    BY <1>1, Flushing
  <1>3. /\ Agrees(tmp, n)
        /\ PagesAt(tmp, n.index_offset, n.index_length) = Flushed
    BY <1>1 DEF Undamaged, FlushProgress
  <1>4. /\ file'.cells = tmp /\ file'.header.valid = TRUE
        /\ file'.header.index_offset = n.index_offset
        /\ file'.header.index_length = n.index_length
        /\ file'.header.append_offset = n.append_offset
        /\ file' = [header |-> file'.header, cells |-> file'.cells]
        /\ file'.header \in Header
    BY <1>1, <1>3 DEF Agrees, Sound, Header
  <1>5. Whole(file') /\ file' # EmptyFile
    BY <1>3, <1>4 DEF Whole, Agrees, EmptyFile, HoleHeader
  <1>6. Loaded(file') = {n}
    <2>1. /\ read_index(tmp, n.index_offset, n.index_length)
               = {[index |-> n.index, rows |-> n.rows]}
          /\ n = [loaded |-> TRUE, index |-> n.index, rows |-> n.rows,
                  index_offset |-> n.index_offset, index_length |-> n.index_length,
                  append_offset |-> n.append_offset]
      <3> HIDE DEF n
      <3>1. Sound(tmp, n.index_offset, n.index_length, n.append_offset)
        BY <1>3 DEF Agrees
      <3>2. /\ n.index = IndexAt(tmp, n.index_offset, n.index_length).pages
            /\ n.rows = IndexAt(tmp, n.index_offset, n.index_length).rows
            /\ n = [loaded |-> TRUE, index |-> n.index, rows |-> n.rows,
                    index_offset |-> n.index_offset, index_length |-> n.index_length,
                    append_offset |-> n.append_offset]
        BY <1>3, AgreesFields
      <3> QED  BY <3>1, <3>2, SoundReads
    <2> DEFINE r == [index |-> n.index, rows |-> n.rows]
               S(x) == [loaded |-> TRUE, index |-> x.index, rows |-> x.rows,
                        index_offset |-> n.index_offset,
                        index_length |-> n.index_length,
                        append_offset |-> n.append_offset]
    <2> HIDE DEF n
    <2>2. Loaded(file') = {S(x) : x \in {r}}
      BY <1>4, <1>5, <2>1 DEF Loaded
    <2>3. S(r) = n
      BY <2>1
    <2> QED  BY <2>2, <2>3
  <1>7. held' = Flushed
    <2>1. held' = PagesFor(file'.cells, Loaded(file'))
      BY <1>1, <1>2, NextContents
    <2> QED  BY <1>3, <1>4, <1>6, <2>1, WholePages
  <1>8. /\ flush'.pc = "publish" /\ flush'.resident = flush.resident
        /\ flush'.rows = flush.rows /\ flush'.next = n /\ FlushShape(flush')
    BY <1>1, <1>2 DEF FlushShape
  <1>9. ASSUME NEW t \in Threads
        PROVE  /\ LocalShape(thread'[t])
               /\ thread'[t].pc = thread[t].pc /\ thread'[t].page = thread[t].page
               /\ thread'[t].data = thread[t].data /\ thread'[t].rows = thread[t].rows
               /\ thread'[t].want = thread[t].want
               /\ thread'[t].crossed <=> thread[t].crossed \/ thread[t].pc = "located"
    <2>1. LocalShape(thread[t]) /\ thread'[t] = Moved(t)
      BY <1>1 DEF Undamaged, Shapes
    <2> QED  BY <2>1 DEF LocalShape, At
  <1>10. Shapes'
    <2>1. DOMAIN thread' = Threads /\ thread' = [t \in Threads |-> thread'[t]]
      BY <1>1
    <2> QED  BY <1>1, <1>4, <1>8, <1>9, <2>1 DEF Undamaged, Shapes
  <1>11. MergesApart'
    BY <1>1, <1>2, <1>9 DEF Undamaged, MergesApart, Merges
  <1>12. BetweenMerges'
    BY <1>5, <1>8 DEF BetweenMerges
  <1>13. FlushProgress'
    <2>1. \A p \in DOMAIN flush.resident : held'[p] = flush.resident[p]
      BY <1>2, <1>7 DEF Flushed, IsImage
    <2> QED  BY <1>1, <1>2, <1>6, <1>8, <2>1 DEF FlushProgress
  <1>14. \A t \in Threads : ReadProgress(thread[t])'
    BY <1>9 DEF Undamaged, ReadProgress
  <1> QED  BY <1>1, <1>2, <1>7, <1>10, <1>11, <1>12, <1>13, <1>14 DEF Undamaged

\* populate_state (page_store.rs:420-431).
LEMMA FlushPublishStep ==
  ASSUME Undamaged, held = Contents, held' = Contents', FlushPublish
  PROVE  /\ Undamaged' /\ held' = held
         /\ \A p \in DOMAIN flush.resident : held'[p] = flush.resident[p]
  <1>1. /\ flush.pc = "publish" /\ state' = flush.next /\ flush' = FlushIdle
        /\ UNCHANGED <<file, tmp, mutex, thread, done>>
    BY DEF FlushPublish
  <1>2. mutex = None /\ file.header \in Header /\ Whole(file)
    BY <1>1, Flushing
  <1>3. held' = held
    BY <1>1, <1>2, QuietHeld
  <1>4. /\ Loaded(file) = {flush.next}
        /\ \A p \in DOMAIN flush.resident : held[p] = flush.resident[p]
    BY <1>1 DEF Undamaged, FlushProgress
  <1>5. Agrees(file.cells, flush.next) /\ flush.next.loaded = TRUE
    BY <1>2, <1>4, UniqueState
  <1>6. StateShape(state') /\ state'.loaded = TRUE
    BY <1>1, <1>5 DEF Agrees, StateAt, StateShape
  <1>7. Shapes'
    BY <1>1, <1>6, FlushIdleShape DEF Undamaged, Shapes
  <1>8. MergesApart'
    BY <1>1, <1>2 DEF Undamaged, MergesApart, Merges
  <1>9. BetweenMerges' /\ FlushProgress'
    BY <1>1, <1>2, <1>4, FlushIdleShape DEF BetweenMerges, FlushProgress
  <1>10. \A t \in Threads : ReadProgress(thread[t])'
    BY <1>1 DEF Undamaged, ReadProgress
  <1> QED  BY <1>1, <1>2, <1>3, <1>4, <1>7, <1>8, <1>9, <1>10 DEF Undamaged

-----------------------------------------------------------------------------
(* Crashes                                                                 *)

\* Memory is gone; the file stays.
LEMMA CrashShape ==
  ASSUME Undamaged, Crash, Whole(file)
  PROVE  Undamaged'
  <1>1. /\ state' = Unloaded /\ mutex' = None /\ thread' = [t \in Threads |-> Idle]
        /\ flush' = FlushIdle /\ UNCHANGED <<file, tmp>>
    BY DEF Crash
  <1>2. done' \in Counts
    BY CountStep DEF Crash, Undamaged, Shapes
  <1>3. StateShape(Unloaded) /\ Unloaded.loaded = FALSE
    BY DEF StateShape, Unloaded
  <1>4. Shapes'
    BY <1>1, <1>2, <1>3, IdleShape, FlushIdleShape DEF Undamaged, Shapes
  <1>5. MergesApart'
    BY <1>1, IdleShape, FileAssumption DEF MergesApart, Merges, Merging, None
  <1>6. BetweenMerges' /\ FlushProgress'
    BY <1>1, <1>3, FlushIdleShape DEF BetweenMerges, FlushProgress
  <1>7. \A t \in Threads : ReadProgress(thread[t])'
    BY <1>1, IdleShape DEF ReadProgress
  <1> QED  BY <1>1, <1>4, <1>5, <1>6, <1>7 DEF Undamaged

\* A header that still locates the old index, or none where there was none.
LEMMA OldHeader ==
  ASSUME Undamaged, held = Contents, NEW t \in Threads, mutex = t,
         thread[t].pc \in Merging \ {"page", "append", "sync"}, file.header.valid,
         thread[t].pc = "length" => file.header.index_length = 0
  PROVE  /\ Whole(file)
         /\ PagesFor(file.cells, Loaded(file)) = held
  <1> DEFINE h == file.header
  <1>1. /\ MergeProgress(thread[t]) /\ h \in Header /\ mutex # None
    BY Inside
  <1>2. /\ Sound(file.cells, state.index_offset, state.index_length, state.append_offset)
        /\ h.index_length = state.index_length
        /\ h.index_length > 0 => /\ h.index_offset = state.index_offset
                                 /\ h.append_offset = state.append_offset
    BY <1>1 DEF MergeProgress, Merging, Header
  <1>3. h.index_length \in Nat /\ h.index_offset \in Nat /\ h.append_offset \in Nat
    BY <1>1 DEF Header
  <1>4. /\ Sound(file.cells, h.index_offset, h.index_length, h.append_offset)
        /\ IndexAt(file.cells, h.index_offset, h.index_length)
             = IndexAt(file.cells, state.index_offset, state.index_length)
    <2>1. CASE h.index_length = 0
      BY <1>2, <1>3, <2>1, EmptySound DEF IndexAt
    <2>2. CASE h.index_length # 0
      BY <1>2, <1>3, <2>2
    <2> QED  BY <2>1, <2>2
  <1>5. Whole(file)
    BY <1>4 DEF Whole
  <1>6. file # EmptyFile
    BY DEF EmptyFile, HoleHeader
  <1>7. PICK s : /\ Loaded(file) = {s} /\ Agrees(file.cells, s)
    BY <1>1, <1>5, WholeLoads
  <1>8. s.index = IndexAt(file.cells, state.index_offset, state.index_length).pages
    <2>1. s.index_length = h.index_length
          /\ (s.index_length > 0 => s.index_offset = h.index_offset)
      BY <1>1, <1>5, <1>7, UniqueState
    <2>2. s.index = IndexAt(file.cells, s.index_offset, s.index_length).pages
      BY <1>7, AgreesFields
    <2>3. CASE h.index_length = 0
      BY <1>2, <2>1, <2>2, <2>3 DEF IndexAt
    <2>4. CASE h.index_length # 0
      BY <1>2, <1>3, <2>1, <2>2, <2>4
    <2> QED  BY <2>3, <2>4
  <1>9. PagesFor(file.cells, {s}) = PagesAt(file.cells, state.index_offset, state.index_length)
    BY <1>2, <1>8, SoundPages
  <1>10. held = PagesAt(file.cells, state.index_offset, state.index_length)
    BY <1>1, HeldMerging
  <1> QED  BY <1>5, <1>7, <1>9, <1>10

\* A reader of the new index finds the pages of the merge.
LEMMA NewReader ==
  ASSUME Undamaged, held = Contents, NEW t \in Threads,
         thread[t].pc \in Merging \ {"page", "index"}, NEW s, s.index = NewIndex.pages
  PROVE  PagesFor(file.cells, {s}) = After(t)
  <1> DEFINE b == thread[t].at
  <1>1. /\ IndexAt(file.cells, b, NewLength) = NewIndex
        /\ Sound(file.cells, b, NewLength, b + NewLength)
        /\ PagesAt(file.cells, b, NewLength) = After(t)
    BY NewIndexSound
  <1> HIDE DEF b
  <1> QED  BY <1>1, SoundPages

\* A process that dies where no header is torn: the pages are those before or
\* after the merge, and the file loads.
LEMMA CrashStep ==
  ASSUME Undamaged, held = Contents, held' = Contents', Crash, ~damaged'
  PROVE  Undamaged' /\ (held' = held \/ (mutex # None /\ held' = After(mutex)))
  <1>1. /\ mutex' = None /\ UNCHANGED <<file, tmp>> /\ ~HeaderTorn
        /\ held' = PagesFor(file.cells, Loaded(file))
    BY NextContents DEF Crash
  <1>2. CASE mutex = None
    <2>1. held' = held
      BY <1>1, <1>2, QuietHeld
    <2>2. Whole(file)
      BY <1>2 DEF Undamaged, BetweenMerges
    <2> QED  BY <2>1, <2>2, CrashShape
  <1>3. CASE mutex # None
    <2>1. PICK t \in Threads : t = mutex
      BY <1>3 DEF Undamaged, Shapes
    <2>2. thread[t].pc \in Merging
      BY <2>1 DEF Undamaged, MergesApart
    <2>3. /\ MergeProgress(thread[t]) /\ file.header \in Header /\ ~thread[t].orphan
      BY <2>2, Inside
    <2>4. CASE thread[t].pc = "page"
      <3>1. Whole(file) /\ Loaded(file) = {state}
        BY <2>3, <2>4 DEF MergeProgress
      <3>2. held' = held
        BY <1>1, <1>3, <2>3, <3>1, UniqueState, WholePages, HeldMerging
      <3> QED  BY <3>1, <3>2, CrashShape
    <2>5. CASE thread[t].pc \in Merging \ {"page", "append", "sync"}
      <3>1. file.header.valid /\ (thread[t].pc = "length" => file.header.index_length = 0)
        BY <1>1, <1>3, <2>1, <2>3, <2>5 DEF HeaderTorn, MergeProgress, Merging, Header
      <3>2. Whole(file) /\ held' = held
        BY <1>1, <2>1, <2>5, <3>1, OldHeader
      <3> QED  BY <3>2, CrashShape
    <2>6. CASE thread[t].pc = "append"
      BY <1>1, <1>3, <2>1, <2>3, <2>6 DEF HeaderTorn
    <2>7. CASE thread[t].pc = "sync"
      <3> DEFINE b == thread[t].at
      <3>0. thread[t].pc \in Merging \ {"page", "index"}
        BY <2>7 DEF Merging
      <3>1. /\ NewLength > 0 /\ Sound(file.cells, b, NewLength, b + NewLength)
            /\ IndexAt(file.cells, b, NewLength) = NewIndex
        BY <3>0, NewIndexSound
      <3>2. /\ file.header.valid /\ file.header.index_offset = b
            /\ file.header.index_length = NewLength
            /\ file.header.append_offset = b + NewLength
        BY <2>3, <2>7 DEF MergeProgress
      <3> HIDE DEF b
      <3>3. Whole(file)
        BY <3>1, <3>2 DEF Whole
      <3>4. PICK s : /\ Loaded(file) = {s} /\ Agrees(file.cells, s)
                     /\ s.index_length = NewLength /\ s.index_offset = b
        BY <2>3, <3>1, <3>2, <3>3, WholeLoads
      <3>5. s.index = NewIndex.pages
        BY <3>1, <3>4, AgreesFields
      <3>6. held' = After(t)
        BY <1>1, <3>0, <3>4, <3>5, NewReader
      <3> QED  BY <1>3, <2>1, <3>3, <3>6, CrashShape
    <2> QED  BY <2>2, <2>4, <2>5, <2>6, <2>7
  <1> QED  BY <1>2, <1>3

\* A process that dies inside the header: the pages of the merge are found, or
\* nothing is.
LEMMA TornCrash ==
  ASSUME Undamaged, held = Contents, held' = Contents', Crash, HeaderTorn
  PROVE  (mutex # None /\ held' = After(mutex)) \/ \A p \in Pages : held'[p] = Unreadable
  <1>1. /\ mutex' = None /\ UNCHANGED <<file, tmp>> /\ mutex # None
        /\ held' = PagesFor(file.cells, Loaded(file))
    BY NextContents DEF Crash, HeaderTorn
  <1>2. PICK t \in Threads : t = mutex
    BY <1>1 DEF Undamaged, Shapes
  <1>3. thread[t].pc \in Merging
    BY <1>2 DEF Undamaged, MergesApart
  <1>4. /\ MergeProgress(thread[t]) /\ file.header \in Header /\ ~thread[t].orphan
        /\ LocalShape(thread[t])
    BY <1>3, Inside
  <1>5. ASSUME Loaded(file) = {}
        PROVE  \A p \in Pages : held'[p] = Unreadable
    <2>1. PagesFor(file.cells, {}) = [p \in Pages |-> Unreadable]
      BY DEF PagesFor
    <2> QED  BY <1>1, <1>5, <2>1
  <1>6. CASE thread[t].pc \in {"index", "magic"} /\ ~file.header.valid
    <2>1. file # EmptyFile
      <3>1. DOMAIN file.cells # {}
        BY <1>4, <1>6 DEF MergeProgress
      <3> QED  BY <3>1, EmptyMap DEF EmptyFile
    <2>2. Loaded(file) = {}
      BY <1>6, <2>1 DEF Loaded
    <2> QED  BY <1>5, <2>2
  <1>7. CASE thread[t].pc \in {"length", "append"}
    <2> DEFINE b == thread[t].at
               h == file.header
               R == read_index(file.cells, b, h.index_length)
    <2>1. thread[t].pc \in Merging \ {"page", "index"}
      BY <1>7 DEF Merging
    <2>2. /\ NewLength \in Nat /\ NewLength > 0 /\ b \in Nat
          /\ IndexAt(file.cells, b, NewLength) = NewIndex
      BY <2>1, NewIndexSound
    <2>3. h.valid /\ h.index_offset = b
      BY <1>4, <1>7 DEF MergeProgress
    <2>4. h.index_length \in Nat /\ h.index_length # 0
      <3>1. CASE thread[t].pc = "length"
        BY <1>1, <1>2, <1>4, <3>1 DEF HeaderTorn, Header
      <3>2. CASE thread[t].pc = "append"
        BY <1>4, <2>2, <3>2 DEF MergeProgress
      <3> QED  BY <1>7, <3>1, <3>2
    <2>5. file.cells[b].index = NewIndex
      BY <2>2 DEF IndexAt
    <2>6. R = {} \/ \E r : R = {r} /\ r.index = NewIndex.pages
      <3> DEFINE G(c) == [index |-> c.index.pages,
                          rows |-> IF /\ h.index_length >= IndexLength(c.index)
                                      /\ Intact(file.cells, b, c.index, IndexLength(c.index))
                                   THEN c.index.rows ELSE 0]
      <3>1. R = {} \/ R = {G(file.cells[b])}
        BY <2>4 DEF read_index
      <3>2. G(file.cells[b]).index = NewIndex.pages
        BY <2>5
      <3> QED  BY <3>1, <3>2
    <2>7. file # EmptyFile
      BY <2>3 DEF EmptyFile, HoleHeader
    <2>8. Loaded(file) = {} \/ \E s : Loaded(file) = {s} /\ s.index = NewIndex.pages
      <3> DEFINE S(x) == [loaded |-> TRUE, index |-> x.index, rows |-> x.rows,
                          index_offset |-> h.index_offset,
                          index_length |-> h.index_length,
                          append_offset |-> h.append_offset]
      <3>1. Loaded(file) = {S(x) : x \in R}
        BY <2>3, <2>7 DEF Loaded
      <3> HIDE DEF R
      <3>2. CASE R = {}
        BY <3>1, <3>2
      <3>3. CASE R # {}
        <4>1. PICK r : R = {r} /\ r.index = NewIndex.pages
          BY <2>6, <3>3
        <4>2. Loaded(file) = {S(r)} /\ S(r).index = NewIndex.pages
          BY <3>1, <4>1
        <4> HIDE DEF S
        <4> QED  BY <4>2
      <3> QED  BY <3>2, <3>3
    <2>9. CASE Loaded(file) = {}
      BY <1>5, <2>9
    <2>10. ASSUME NEW s, Loaded(file) = {s}, s.index = NewIndex.pages
           PROVE  held' = After(t)
      BY <1>1, <2>1, <2>10, NewReader
    <2> QED  BY <1>1, <1>2, <2>8, <2>9, <2>10
  <1> QED  BY <1>2, <1>6, <1>7 DEF HeaderTorn

-----------------------------------------------------------------------------
(* The theorems                                                            *)

LEMMA InitFileInv == Init => FileInv
  <1> SUFFICES ASSUME Init PROVE FileInv
    OBVIOUS
  <1>1. /\ file = EmptyFile /\ state = Unloaded /\ mutex = None /\ flush = FlushIdle
        /\ thread = [t \in Threads |-> Idle] /\ held = [p \in Pages |-> Absent]
        /\ damaged = FALSE /\ done = [merge |-> 0, read |-> 0, flush |-> 0, crash |-> 0]
    BY DEF Init
  <1>2. Whole(file) /\ file.header \in Header
        /\ file = [header |-> file.header, cells |-> file.cells]
    BY <1>1 DEF Whole, EmptyFile, HoleHeader, Header
  <1>3. StateShape(Unloaded) /\ Unloaded.loaded = FALSE
    BY DEF StateShape, Unloaded
  <1>4. Shapes
    BY <1>1, <1>2, <1>3, IdleShape, FlushIdleShape DEF Shapes, Counts
  <1>5. MergesApart
    BY <1>1, IdleShape, FileAssumption DEF MergesApart, Merges, Merging, None
  <1>6. BetweenMerges /\ FlushProgress
    BY <1>1, <1>2, <1>3, FlushIdleShape DEF BetweenMerges, FlushProgress
  <1>7. \A t \in Threads : ReadProgress(thread[t])
    BY <1>1, IdleShape DEF ReadProgress
  <1>8. held = Contents
    <2>1. PICK s : Loaded(file) = {s} /\ Agrees(file.cells, s) /\ s.index_length = 0
      <3>1. file.header.index_length = 0
        BY <1>1 DEF EmptyFile, HoleHeader
      <3> QED  BY <1>2, <3>1, WholeLoads
    <2>2. Contents = PagesAt(file.cells, s.index_offset, s.index_length)
      BY <1>1, <2>1, ContentsAre, WholePages DEF Current
    <2>3. IndexAt(file.cells, s.index_offset, s.index_length).pages = Empty
      BY <2>1 DEF IndexAt
    <2>4. PagesAt(file.cells, s.index_offset, s.index_length) = [p \in Pages |-> Absent]
      BY <2>3, EmptyMap DEF PagesAt
    <2> QED  BY <1>1, <2>2, <2>4
  <1> QED  BY <1>1, <1>4, <1>5, <1>6, <1>7, <1>8 DEF FileInv, Undamaged

\* Damage stays.
LEMMA DamageStays ==
  ASSUME damaged \in BOOLEAN, Next
  PROVE  damaged' \in BOOLEAN /\ (damaged => damaged')
  <1>1. damaged' = damaged \/ \E x \in BOOLEAN : damaged' = (damaged \/ x)
    <2>1. ASSUME NEW t \in Threads, MergeLock(t)
          PROVE  \E x \in BOOLEAN : damaged' = (damaged \/ x)
      BY <2>1 DEF MergeLock, Crossing
    <2>2. ASSUME NEW t \in Threads, MergeFail(t)
          PROVE  \E x \in BOOLEAN : damaged' = (damaged \/ x)
      BY <2>2 DEF MergeFail
    <2>3. ASSUME Crash
          PROVE  \E x \in BOOLEAN : damaged' = (damaged \/ x)
      BY <2>3 DEF Crash, HeaderTorn
    <2> QED  BY <2>1, <2>2, <2>3 DEF Next, Step, MergeOpen, MergePage, MergeIndex,
                WriteMagic, WriteOffset, WriteLength, WriteAppend, MergeDone, ReadLocate,
                ReadRecord, ReadDone, FlushList, FlushCopy, FlushWrite, FlushRename,
                FlushPublish, FlushFail
  <1> QED  BY <1>1

\* What a step may do to the pages of an undamaged file.
Effect ==
    \/ held' = held
    \/ \E t \in Threads : thread[t].pc \in Merging /\ held' = After(t)
    \/ flush.pc = "rename" /\ held' = Flushed

\* Every step that damages nothing keeps the invariant and, for a reader,
\* changes nothing or completes one operation.
LEMMA StepUndamaged ==
  ASSUME Undamaged, held = Contents, Next, ~damaged'
  PROVE  Undamaged' /\ Effect
  <1>1. held' = Contents' /\ Step
    BY DEF Next
  <1>2. ASSUME NEW t \in Threads, NEW p \in Pages, NEW d \in Data, NEW rows \in Located,
               MergeOpen(t, p, d, rows)
        PROVE  Undamaged' /\ Effect
    BY <1>1, <1>2, MergeOpenStep DEF Effect
  <1>3. ASSUME NEW t \in Threads, MergeLock(t) PROVE Undamaged' /\ Effect
    BY <1>1, <1>3, MergeLockStep DEF Effect
  <1>4. ASSUME NEW t \in Threads, MergePage(t) PROVE Undamaged' /\ Effect
    BY <1>1, <1>4, MergePageStep DEF Effect
  <1>5. ASSUME NEW t \in Threads, MergeIndex(t) PROVE Undamaged' /\ Effect
    BY <1>1, <1>5, MergeIndexStep DEF Effect
  <1>6. ASSUME NEW t \in Threads, WriteMagic(t) PROVE Undamaged' /\ Effect
    BY <1>1, <1>6, WriteMagicStep DEF Effect
  <1>7. ASSUME NEW t \in Threads, WriteOffset(t) PROVE Undamaged' /\ Effect
    BY <1>1, <1>7, WriteOffsetStep DEF Effect
  <1>8. ASSUME NEW t \in Threads, WriteLength(t) PROVE Undamaged' /\ Effect
    BY <1>1, <1>8, WriteLengthStep DEF Effect
  <1>9. ASSUME NEW t \in Threads, WriteAppend(t) PROVE Undamaged' /\ Effect
    BY <1>1, <1>9, WriteAppendStep DEF Effect
  <1>10. ASSUME NEW t \in Threads, MergeDone(t) PROVE Undamaged' /\ Effect
    <2>1. thread[t].pc \in Merging
      BY <1>10 DEF MergeDone, At, Merging
    <2> QED  BY <1>1, <1>10, <2>1, MergeDoneStep DEF Effect
  <1>11. ASSUME NEW t \in Threads, MergeFail(t) PROVE Undamaged' /\ Effect
    BY <1>1, <1>11, MergeFailStep DEF Effect
  <1>12. ASSUME NEW t \in Threads, NEW p \in Pages, ReadLocate(t, p)
         PROVE  Undamaged' /\ Effect
    BY <1>1, <1>12, ReadLocateStep DEF Effect
  <1>13. ASSUME NEW t \in Threads, ReadRecord(t) PROVE Undamaged' /\ Effect
    BY <1>1, <1>13, ReadRecordStep DEF Effect
  <1>14. ASSUME NEW t \in Threads, ReadDone(t) PROVE Undamaged' /\ Effect
    <2>1. t # mutex
      BY <1>14 DEF ReadDone, At, Undamaged, MergesApart, Merging
    <2> QED  BY <1>1, <1>14, <2>1, ReturnStep DEF ReadDone, Effect
  <1>15. ASSUME NEW S \in SUBSET Pages, NEW resident \in [S -> Data],
                NEW rows \in Located, FlushList(resident, rows)
         PROVE  Undamaged' /\ Effect
    BY <1>1, <1>15, FlushListStep DEF Effect
  <1>16. ASSUME NEW p \in Pages, FlushCopy(p) PROVE Undamaged' /\ Effect
    BY <1>1, <1>16, FlushCopyStep DEF Effect
  <1>17. ASSUME FlushWrite PROVE Undamaged' /\ Effect
    BY <1>1, <1>17, FlushWriteStep DEF Effect
  <1>18. ASSUME FlushRename PROVE Undamaged' /\ Effect
    BY <1>1, <1>18, FlushRenameStep DEF FlushRename, Effect
  <1>19. ASSUME FlushPublish PROVE Undamaged' /\ Effect
    BY <1>1, <1>19, FlushPublishStep DEF Effect
  <1>20. ASSUME FlushFail PROVE Undamaged' /\ Effect
    BY <1>1, <1>20, FlushFailStep DEF Effect
  <1>21. ASSUME Crash PROVE Undamaged' /\ Effect
    <2>1. mutex # None => mutex \in Threads /\ thread[mutex].pc \in Merging
      BY DEF Undamaged, Shapes, MergesApart
    <2> QED  BY <1>1, <1>21, <2>1, CrashStep DEF Effect
  <1> QED  BY <1>1, <1>2, <1>3, <1>4, <1>5, <1>6, <1>7, <1>8, <1>9, <1>10, <1>11, <1>12,
              <1>13, <1>14, <1>15, <1>16, <1>17, <1>18, <1>19, <1>20, <1>21 DEF Step

LEMMA StepFileInv == FileInv /\ [Next]_vars => FileInv'
  <1>1. ASSUME FileInv, Next PROVE FileInv'
    <2>1. held' = Contents'
      BY <1>1 DEF Next
    <2>2. damaged' \in BOOLEAN /\ (damaged => damaged')
      BY <1>1, DamageStays DEF FileInv
    <2>3. ~damaged' => Undamaged'
      BY <1>1, <2>2, StepUndamaged DEF FileInv
    <2> QED  BY <2>1, <2>2, <2>3 DEF FileInv
  <1>2. ASSUME FileInv, UNCHANGED vars PROVE FileInv'
    <2>1. Contents' = Contents
      BY <1>2 DEF vars, Contents, Current
    <2>2. /\ Shapes' = Shapes /\ MergesApart' = MergesApart
          /\ BetweenMerges' = BetweenMerges
      BY <1>2 DEF vars, Shapes, MergesApart, BetweenMerges, Merges
    <2>3. FlushProgress' = FlushProgress
      BY <1>2 DEF vars, FlushProgress, Flushed
    <2>4. (mutex # None => MergeProgress(thread[mutex]))
            => (mutex # None => MergeProgress(thread[mutex]))'
      BY <1>2 DEF vars, MergeProgress, NewIndex, NewLength
    <2>5. (\A t \in Threads : ReadProgress(thread[t]))
            => (\A t \in Threads : ReadProgress(thread[t]))'
      BY <1>2 DEF vars, ReadProgress
    <2> QED  BY <1>2, <2>1, <2>2, <2>3, <2>4, <2>5 DEF vars, FileInv, Undamaged
  <1> QED  BY <1>1, <1>2

\* The inductive invariant of the page file holds in every reachable state.
THEOREM FileInvariance == Spec => []FileInv
  <1> QED  BY InitFileInv, StepFileInv, PTL DEF Spec

-----------------------------------------------------------------------------
(* What the invariant gives                                                *)

\* Between operations the store in memory is what a restart would load, and its
\* append cursor lies behind every record in use (page_store.rs:196-240,
\* 500-510).
THEOREM StoreIsFile == Spec => []StoreMatchesFile
  <1>1. ASSUME FileInv PROVE StoreMatchesFile
    <2> SUFFICES ASSUME state.loaded, mutex = None, flush.pc # "publish", ~damaged
                 PROVE  /\ Loaded(file) = {state}
                        /\ \A p \in DOMAIN state.index : state.index[p] < state.append_offset
                        /\ state.index_length > 0 =>
                              state.index_offset + state.index_length <= state.append_offset
      BY DEF StoreMatchesFile
    <2>1. Whole(file) /\ Loaded(file) = {state} /\ file.header \in Header
      BY <1>1 DEF FileInv, Undamaged, BetweenMerges, Shapes
    <2>2. Agrees(file.cells, state)
      BY <2>1, UniqueState
    <2>3. \A p \in DOMAIN state.index : state.index[p] < state.append_offset
      BY <2>2, Locates
    <2>4. state.index_length > 0 =>
             state.index_offset + state.index_length <= state.append_offset
      BY <2>2 DEF Agrees, Sound
    <2> QED  BY <2>1, <2>3, <2>4
  <1> QED  BY <1>1, FileInvariance, PTL

\* A read returns what its page held when it was located, however many merges
\* complete before the bytes are read (page_store.rs:512-523).
THEOREM ReadsAreExact == Spec => []ReadsReturnLocated
  <1>1. FileInv => ReadsReturnLocated
    BY DEF FileInv, Undamaged, ReadProgress, ReadsReturnLocated, At
  <1> QED  BY <1>1, FileInvariance, PTL

\* Only a crash counts as one.
LEMMA CrashCounted ==
  ASSUME done \in Counts, Next, done'.crash # done.crash
  PROVE  Crash
  <1>1. ASSUME NEW op \in {"merge", "read", "flush"}, NEW max, Begin(op, max)
        PROVE  FALSE
    BY <1>1, CountStep
  <1>2. done' # done
    OBVIOUS
  <1> QED  BY <1>1, <1>2 DEF Next, Step, MergeOpen, MergeLock, MergePage, MergeIndex,
              WriteMagic, WriteOffset, WriteLength, WriteAppend, MergeDone, MergeFail,
              ReadLocate, ReadRecord, ReadDone, FlushList, FlushCopy, FlushWrite,
              FlushRename, FlushPublish, FlushFail

\* A process that dies leaves the pages as they were before or after the merge in
\* progress, or a file that does not load, even when it dies inside the header
\* (page_store.rs:45-59).
THEOREM CrashAllOrNothing == Spec => CrashIsAllOrNothing
  <1> DEFINE Dies == done'.crash > done.crash /\ ~damaged =>
                        \/ held' = held
                        \/ mutex # None /\ held' = After(mutex)
                        \/ \A p \in Pages : held'[p] = Unreadable
  <1>1. FileInv /\ [Next]_vars => [Dies]_vars
    <2> SUFFICES ASSUME FileInv, Next, done'.crash > done.crash, ~damaged
                 PROVE  \/ held' = held
                        \/ mutex # None /\ held' = After(mutex)
                        \/ \A p \in Pages : held'[p] = Unreadable
      OBVIOUS
    <2>1. Undamaged /\ held = Contents /\ held' = Contents'
      BY DEF FileInv, Next
    <2>2. done \in Counts
      BY <2>1 DEF Undamaged, Shapes
    <2>3. done'.crash # done.crash
      BY <2>2 DEF Counts
    <2>4. Crash
      BY <2>2, <2>3, CrashCounted
    <2>5. CASE HeaderTorn
      BY <2>1, <2>4, <2>5, TornCrash
    <2>6. CASE ~HeaderTorn
      <3>1. ~damaged'
        BY <2>4, <2>6 DEF Crash
      <3> QED  BY <2>1, <2>4, <3>1, CrashStep
    <2> QED  BY <2>5, <2>6
  <1>2. [][Dies]_vars => CrashIsAllOrNothing
    BY DEF CrashIsAllOrNothing
  <1> QED  BY <1>1, <1>2, FileInvariance, PTL DEF Spec

\* merge_pages returns without an error only from its last step.
LEMMA MergeReturns ==
  ASSUME Undamaged, Next, ~damaged', ~Crash, NEW t \in Threads,
         thread[t].pc = "sync", thread'[t].pc = "idle"
  PROVE  MergeDone(t)
  <1>0. DOMAIN thread = Threads
    BY DEF Undamaged, Shapes
  <1>1. thread' # thread
    OBVIOUS
  <1>2. ASSUME NEW u \in Threads, NEW x, thread' = [thread EXCEPT ![u] = x]
        PROVE  u = t
    BY <1>0, <1>2
  <1>3. ~FlushRename
    <2>1. mutex = t /\ t # None
      BY FileAssumption DEF Undamaged, MergesApart, Merging, None
    <2>2. flush.pc = "idle"
      BY <2>1 DEF Undamaged, MergesApart
    <2> QED  BY <2>2 DEF FlushRename
  <1>4. ASSUME NEW u \in Threads, MergeFail(u) PROVE FALSE
    <2>1. u = t
      BY <1>2, <1>4 DEF MergeFail
    <2> QED  BY <1>4, <2>1 DEF MergeFail, Merging
  <1>5. ASSUME NEW u \in Threads, NEW p, NEW d, NEW rows, MergeOpen(u, p, d, rows)
        PROVE  FALSE
    BY <1>2, <1>5 DEF MergeOpen, At
  <1>6. ASSUME NEW u \in Threads, MergeLock(u) PROVE FALSE
    BY <1>0, <1>6 DEF MergeLock, At
  <1>7. ASSUME NEW u \in Threads, MergePage(u) PROVE FALSE
    BY <1>0, <1>7 DEF MergePage, At
  <1>8. ASSUME NEW u \in Threads, \/ MergeIndex(u) \/ WriteMagic(u) \/ WriteOffset(u)
                                  \/ WriteLength(u) \/ WriteAppend(u)
        PROVE  FALSE
    BY <1>0, <1>8 DEF MergeIndex, WriteMagic, WriteOffset, WriteLength, WriteAppend, At, Goto
  <1>9. ASSUME NEW u \in Threads, NEW p, ReadLocate(u, p) PROVE FALSE
    BY <1>1, <1>2, <1>9 DEF ReadLocate, At
  <1>10. ASSUME NEW u \in Threads, ReadRecord(u) \/ ReadDone(u) PROVE FALSE
    BY <1>0, <1>10 DEF ReadRecord, ReadDone, At
  <1>11. ASSUME NEW u \in Threads, MergeDone(u) PROVE u = t
    BY <1>2, <1>11 DEF MergeDone
  <1>12. ASSUME NEW r, NEW rows, NEW p,
                FlushList(r, rows) \/ FlushCopy(p) \/ FlushWrite \/ FlushPublish \/ FlushFail
         PROVE  FALSE
    BY <1>1, <1>12 DEF FlushList, FlushCopy, FlushWrite, FlushPublish, FlushFail
  <1> QED  BY <1>3, <1>4, <1>5, <1>6, <1>7, <1>8, <1>9, <1>10, <1>11, <1>12 DEF Next, Step

\* write_all_serialized returns without an error only from populate_state.
LEMMA FlushReturns ==
  ASSUME Next, ~Crash, flush.pc = "publish", flush'.pc = "idle"
  PROVE  FlushPublish
  <1>1. flush' # flush
    OBVIOUS
  <1> QED  BY <1>1 DEF Next, Step, MergeOpen, MergeLock, MergePage, MergeIndex,
              WriteMagic, WriteOffset, WriteLength, WriteAppend, MergeDone, MergeFail,
              ReadLocate, ReadRecord, ReadDone, FlushList, FlushCopy, FlushWrite,
              FlushRename, FlushFail

\* A merge that returns has taken effect, and so has a flush that returns
\* (page_store.rs:420-431, 500-510).
THEOREM AcknowledgedWritesHold == Spec => AcknowledgedHolds
  <1> DEFINE Returned == ~damaged' /\ done'.crash = done.crash =>
                /\ \A t \in Threads : At(t, "sync") /\ thread'[t].pc = "idle" =>
                      held' = After(t)
                /\ flush.pc = "publish" /\ flush'.pc = "idle" =>
                      \A p \in DOMAIN flush.resident : held'[p] = flush.resident[p]
  <1>1. FileInv /\ [Next]_vars => [Returned]_vars
    <2> SUFFICES ASSUME FileInv, Next, ~damaged', done'.crash = done.crash
                 PROVE  /\ \A t \in Threads : At(t, "sync") /\ thread'[t].pc = "idle" =>
                              held' = After(t)
                        /\ flush.pc = "publish" /\ flush'.pc = "idle" =>
                              \A p \in DOMAIN flush.resident : held'[p] = flush.resident[p]
      OBVIOUS
    <2>1. ~damaged
      BY DamageStays DEF FileInv
    <2>2. Undamaged /\ held = Contents /\ held' = Contents'
      BY <2>1 DEF FileInv, Next
    <2>3. ~Crash
      <3>1. done \in Counts
        BY <2>2 DEF Undamaged, Shapes
      <3>2. ASSUME Begin("crash", MaxCrashes) PROVE done'.crash > done.crash
        BY <3>1, <3>2, CountStep
      <3> QED  BY <3>1, <3>2 DEF Crash, Counts
    <2>4. ASSUME NEW t \in Threads, At(t, "sync"), thread'[t].pc = "idle"
          PROVE  held' = After(t)
      <3>1. MergeDone(t)
        BY <2>2, <2>3, <2>4, MergeReturns DEF At
      <3> QED  BY <2>2, <3>1, MergeDoneStep
    <2>5. ASSUME flush.pc = "publish", flush'.pc = "idle"
          PROVE  \A p \in DOMAIN flush.resident : held'[p] = flush.resident[p]
      <3>1. FlushPublish
        BY <2>3, <2>5, FlushReturns
      <3> QED  BY <2>2, <3>1, FlushPublishStep
    <2> QED  BY <2>4, <2>5
  <1>2. [][Returned]_vars => AcknowledgedHolds
    BY DEF AcknowledgedHolds
  <1> QED  BY <1>1, <1>2, FileInvariance, PTL DEF Spec

-----------------------------------------------------------------------------
(* The page file is a page map                                             *)

\* What is held is a map of the pages.
LEMMA HeldIsMap ==
  ASSUME Undamaged, held = Contents
  PROVE  held = [p \in Pages |-> held[p]]
  <1>1. ASSUME NEW o, NEW n, held = PagesAt(file.cells, o, n)
        PROVE  held = [p \in Pages |-> held[p]]
    BY <1>1 DEF PagesAt
  <1>2. CASE mutex = None
    BY <1>1, <1>2, HeldBetween
  <1>3. CASE mutex # None
    BY <1>1, <1>3, HeldMerging
  <1> QED  BY <1>2, <1>3

\* Every step changes nothing, applies one offered write, or damages the file.
LEMMA StepRefinesMap ==
  FileInv /\ [Next]_vars => [Map!Next]_<<held, Offered, damaged>>
  <1> SUFFICES ASSUME FileInv, [Next]_vars
               PROVE  Map!Next \/ UNCHANGED <<held, Offered, damaged>>
    OBVIOUS
  <1>1. CASE UNCHANGED vars
    BY <1>1 DEF vars, Offered
  <1>2. CASE Next /\ damaged'
    BY <1>2 DEF Map!Next
  <1>3. CASE Next /\ ~damaged'
    <2>1. ~damaged
      BY <1>3, DamageStays DEF FileInv
    <2>2. Undamaged /\ held = Contents
      BY <2>1 DEF FileInv
    <2>3. Effect
      BY <1>3, <2>2, StepUndamaged
    <2>4. held = [p \in Pages |-> held[p]]
      BY <2>2, HeldIsMap
    <2>5. ASSUME NEW w \in Offered,
                 held' = [p \in Pages |-> IF p \in DOMAIN w THEN w[p] ELSE held[p]]
          PROVE  Map!Next
      BY <1>3, <2>1, <2>5 DEF Map!Next, Map!Apply
    <2>6. CASE held' = held
      BY <1>3, <2>1, <2>6 DEF Map!Next, Map!Offer
    <2>7. ASSUME NEW t \in Threads, thread[t].pc \in Merging, held' = After(t)
          PROVE  Map!Next
      <3> DEFINE w == [p \in {thread[t].page} |-> thread[t].data]
      <3>1. w \in Offered
        BY <2>7 DEF Offered
      <3>2. held' = [p \in Pages |-> IF p \in DOMAIN w THEN w[p] ELSE held[p]]
        BY <2>4, <2>7 DEF After
      <3> HIDE DEF w
      <3> QED  BY <2>5, <3>1, <3>2
    <2>8. CASE flush.pc = "rename" /\ held' = Flushed
      <3>1. flush.resident \in Offered
        BY <2>8 DEF Offered
      <3> QED  BY <2>5, <2>8, <3>1 DEF Flushed
    <2> QED  BY <2>3, <2>6, <2>7, <2>8 DEF Effect
  <1> QED  BY <1>1, <1>2, <1>3

\* A new file holds nothing, and nobody writes to it.
LEMMA InitRefinesMap == Init => Map!Init
  <1> SUFFICES ASSUME Init PROVE Map!Init
    OBVIOUS
  <1>1. \A t \in Threads : thread[t].pc \notin {"open"} \cup Merging
    BY DEF Init, Idle, Merging
  <1>2. flush.pc \notin {"copy", "rename"}
    BY DEF Init, FlushIdle
  <1>3. Offered = {}
    BY <1>1, <1>2 DEF Offered
  <1> QED  BY <1>3 DEF Init, Map!Init

\* The page file implements a page map: every merge and every flush takes effect
\* in one step, as a whole, a crash leaves the map before or after such a step,
\* and only the named kinds of damage end that (page_store.rs:45-59, 327-381,
\* 450-510).
THEOREM ImplementsMap == Spec => ImplementsPageMap
  BY InitRefinesMap, StepRefinesMap, FileInvariance, PTL
     DEF Spec, ImplementsPageMap, Map!Spec
=============================================================================
