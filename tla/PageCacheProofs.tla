--------------------------- MODULE PageCacheProofs ---------------------------
(***************************************************************************)
(* Proofs about PageCache, for any number of workers, rows, pages and      *)
(* transactions.  The inductive invariant PageInv says where the copies of *)
(* a page are and which of them are up to date:                            *)
(*                                                                         *)
(*   HeapInv, StoreInv   what is in memory and in the page file;           *)
(*   ThreadInv           where a thread can be, and what it then holds;    *)
(*   FrameInv            no frame is resident, being installed and on its  *)
(*                       way to disk at once;                              *)
(*   DataInv             while no row is torn, the newest copy of every    *)
(*                       page holds its rows with all their writes, and a  *)
(*                       copy that eviction would not write is on disk;    *)
(*   NoLimitInv          without a memory limit no page leaves memory.     *)
(*                                                                         *)
(* Sums and packings are folds over sets.  What they compute is proved by  *)
(* their least counterexample, without an induction theorem.               *)
(***************************************************************************)
EXTENDS PageCache, Integers, FiniteSetTheorems, WellFoundedInduction, TLAPS

-----------------------------------------------------------------------------
(* Numbers, sums and packings                                              *)

\* A nonempty set of naturals has a least member.
LEMMA LeastExists ==
  ASSUME NEW T \in SUBSET Nat, T # {}
  PROVE  \E m \in T : \A y \in T : m <= y
  <1> DEFINE Less == {ss \in Nat \X Nat : ss[1] < ss[2]}
  <1>1. IsWellFoundedOn(Less, Nat)
    BY NatLessThanWellFounded DEF OpToRel
  <1>2. PICK m \in T : \A y \in T : ~(<<y, m>> \in Less)
    <2> HIDE DEF Less
    <2> QED  BY <1>1, WFMin
  <1>3. \A y \in T : ~(y < m)
    BY <1>2
  <1> QED  BY <1>3

\* A sum of naturals is one: the fold exists on the sets of at most n members
\* for every n, and its least counterexample would have a smaller one.
LEMMA SumIsNat ==
  ASSUME NEW S, IsFiniteSet(S), NEW f, \A x \in S : f[x] \in Nat
  PROVE  SumFunctionOnSet(f, S) \in Nat
  <1> DEFINE Any(s) == CHOOSE x \in s : TRUE
             Small(n) == {s \in SUBSET S : Cardinality(s) <= n}
             Sums(g, n) == g = [s \in Small(n) |-> IF s = {} THEN 0
                                    ELSE f[Any(s)] + g[s \ {Any(s)}]]
             iter == CHOOSE g : g = [s \in SUBSET S |-> IF s = {} THEN 0
                                    ELSE f[Any(s)] + g[s \ {Any(s)}]]
  <1>1. SumFunctionOnSet(f, S) = iter[S]
    BY DEF SumFunctionOnSet, FoldFunctionOnSet, MapThenFoldSet
  <1> HIDE DEF Any
  <1>2. /\ \A s \in SUBSET S : s # {} => Any(s) \in s
        /\ \A s \in SUBSET S : IsFiniteSet(s) /\ Cardinality(s) \in Nat
                               /\ (Cardinality(s) = 0 <=> s = {})
                               /\ Cardinality(s) <= Cardinality(S)
    BY FS_Subset, FS_CardinalityType, FS_EmptySet DEF Any
  <1>3. \A s \in SUBSET S : s # {} => /\ s \ {Any(s)} \in SUBSET S
                                      /\ Cardinality(s \ {Any(s)}) = Cardinality(s) - 1
    BY <1>2, FS_RemoveElement
  <1>4. \A n \in Nat : \E g : Sums(g, n)
    <2> DEFINE T == {n \in Nat : ~\E g : Sums(g, n)}
    <2> SUFFICES ASSUME T # {} PROVE FALSE
      OBVIOUS
    <2> HIDE DEF T
    <2>1. PICK m \in T : \A y \in T : m <= y
      BY LeastExists DEF T
    <2>2. m \in Nat /\ ~\E g : Sums(g, m)
      BY DEF T
    <2>3. CASE m = 0
      <3> DEFINE g == [s \in Small(0) |-> 0]
      <3>1. \A s \in Small(0) : s = {}
        BY <1>2
      <3>2. Sums(g, 0)
        BY <3>1
      <3> QED  BY <2>2, <2>3, <3>2
    <2>4. CASE m # 0
      <3>1. m - 1 \in Nat /\ m - 1 \notin T
        BY <2>1, <2>2, <2>4
      <3>2. PICK g : Sums(g, m - 1)
        BY <3>1 DEF T
      <3> DEFINE h == [s \in Small(m) |-> IF s \in Small(m - 1) THEN g[s]
                                         ELSE f[Any(s)] + g[s \ {Any(s)}]]
      <3>3. \A s \in Small(m) : s # {} => s \ {Any(s)} \in Small(m - 1)
        BY <1>2, <1>3, <2>2
      <3>4. Small(m - 1) \subseteq Small(m) /\ {} \in Small(m - 1)
        BY <1>2, <2>2, <3>1, FS_EmptySet
      <3> HIDE DEF Small
      <3>5. \A s \in Small(m) : h[s] = IF s = {} THEN 0 ELSE f[Any(s)] + h[s \ {Any(s)}]
        BY <3>2, <3>3, <3>4
      <3>6. Sums(h, m)
        BY <3>5
      <3> HIDE DEF h
      <3> QED  BY <2>2, <3>6
    <2> QED  BY <2>3, <2>4
  <1>5. iter = [s \in SUBSET S |-> IF s = {} THEN 0 ELSE f[Any(s)] + iter[s \ {Any(s)}]]
    <2>1. Cardinality(S) \in Nat /\ Small(Cardinality(S)) = SUBSET S
      BY <1>2
    <2>2. PICK g : Sums(g, Cardinality(S))
      BY <1>4, <2>1
    <2> QED  BY <2>1, <2>2
  <1> HIDE DEF iter
  <1>6. \A s \in SUBSET S : iter[s] \in Nat
    <2> DEFINE T == {n \in Nat : \E s \in SUBSET S : Cardinality(s) = n /\ iter[s] \notin Nat}
    <2> SUFFICES ASSUME T # {} PROVE FALSE
      BY <1>2
    <2> HIDE DEF T
    <2>1. PICK m \in T : \A y \in T : m <= y
      BY LeastExists DEF T
    <2>2. PICK s \in SUBSET S : Cardinality(s) = m /\ iter[s] \notin Nat
      BY DEF T
    <2>3. s # {}
      BY <1>5, <2>2
    <2>4. Cardinality(s \ {Any(s)}) \in Nat /\ Cardinality(s \ {Any(s)}) < m
      BY <1>2, <1>3, <2>2, <2>3
    <2>5. iter[s \ {Any(s)}] \in Nat
      <3>1. m \in Nat
        BY DEF T
      <3>2. Cardinality(s \ {Any(s)}) \notin T
        BY <2>1, <2>4, <3>1
      <3> QED  BY <1>3, <2>3, <2>4, <3>2 DEF T
    <2>6. iter[s] = f[Any(s)] + iter[s \ {Any(s)}]
      BY <1>5, <2>3
    <2> QED  BY <1>2, <2>2, <2>3, <2>5, <2>6
  <1> QED  BY <1>1, <1>6

\* A nonempty set of naturals below a bound contains its maximum.
LEMMA MaxOf ==
  ASSUME NEW S \in SUBSET Nat, NEW n \in Nat, S # {}, \A x \in S : x <= n
  PROVE  Max(S) \in S /\ \A x \in S : x <= Max(S)
  <1> DEFINE T == {n - x : x \in S}
  <1>1. T \in SUBSET Nat /\ T # {}
    <2>1. \A x \in S : n - x \in Nat
      OBVIOUS
    <2>2. \E x \in S : n - x \in T
      OBVIOUS
    <2> QED  BY <2>1, <2>2
  <1>2. PICK m \in T : \A y \in T : m <= y
    <2> HIDE DEF T
    <2> QED  BY <1>1, LeastExists
  <1>3. PICK x \in S : m = n - x
    OBVIOUS
  <1>4. \A y \in S : n - y \in T
    OBVIOUS
  <1>5. \A y \in S : x >= y
    <2> SUFFICES ASSUME NEW y \in S PROVE x >= y
      OBVIOUS
    <2>1. n - x <= n - y
      BY <1>2, <1>3, <1>4
    <2> QED  BY <2>1
  <1>6. \E z \in S : \A y \in S : z >= y
    BY <1>5
  <1> DEFINE z == CHOOSE z \in S : \A y \in S : z >= y
  <1>7. z \in S /\ \A y \in S : z >= y
    BY <1>6
  <1>8. Max(S) = z
    BY DEF Max
  <1> HIDE DEF z
  <1> QED  BY <1>7, <1>8

\* What packing has done after the rows of s: every one of them has a page, and
\* only a page in use has room (Table::compact, table.rs:1174-1232).
PackedOK(acc, s) ==
    /\ acc.n \in Nat /\ acc.room \in Nat /\ (acc.room > 0 => acc.n > 0)
    /\ DOMAIN acc.loc = s /\ \A r \in s : acc.loc[r] \in 0..(acc.n - 1)

\* A row spans at least one page-sized slot.
LEMMA SlotsPositive ==
  ASSUME NEW r \in RowIds
  PROVE  Slots(r) \in Nat /\ (RowSize[r] > PageSize => Slots(r) >= 1)
  <1>1. RowSize[r] \in Nat /\ PageSize \in Nat /\ PageSize > 0
    BY PageAssumption DEF RowIds
  <1>2. \A a \in Nat, b \in Nat : b > 0 => a \div b \in Nat /\ (a >= b => a \div b >= 1)
    OBVIOUS
  <1>3. RowSize[r] + PageSize - 1 \in Nat
    BY <1>1
  <1>4. RowSize[r] > PageSize => RowSize[r] + PageSize - 1 >= PageSize
    BY <1>1
  <1> QED  BY <1>1, <1>2, <1>3, <1>4 DEF Slots

\* One more row keeps a packing in order.
LEMMA PackOneMore ==
  ASSUME NEW r \in RowIds, NEW s, r \notin s, NEW acc, PackedOK(acc, s)
  PROVE  PackedOK(PackRow(acc, r), s \cup {r})
  <1>1. RowSize[r] \in Nat /\ RowSize[r] > 0 /\ PageSize \in Nat /\ PageSize > 0
    BY PageAssumption DEF RowIds
  <1>2. \A v : /\ DOMAIN Put(acc.loc, r, v) = s \cup {r}
               /\ Put(acc.loc, r, v)[r] = v
               /\ \A x \in s : Put(acc.loc, r, v)[x] = acc.loc[x]
    BY DEF Put, PackedOK
  <1>3. acc.n \in Nat /\ acc.room \in Nat /\ (acc.room > 0 => acc.n > 0)
        /\ \A x \in s : acc.loc[x] \in 0..(acc.n - 1)
    BY DEF PackedOK
  <1>4. CASE RowSize[r] > PageSize
    <2>1. Slots(r) \in Nat /\ Slots(r) >= 1
      BY <1>4, SlotsPositive
    <2>2. PackRow(acc, r) = [n |-> acc.n + Slots(r), room |-> 0,
                             loc |-> Put(acc.loc, r, acc.n)]
      BY <1>1, <1>4 DEF PackRow
    <2>3. /\ \A x \in s : acc.loc[x] \in 0..(acc.n + Slots(r) - 1)
          /\ acc.n \in 0..(acc.n + Slots(r) - 1) /\ acc.n + Slots(r) \in Nat
      BY <1>3, <2>1
    <2>4. /\ PackRow(acc, r).n = acc.n + Slots(r) /\ PackRow(acc, r).room = 0
          /\ PackRow(acc, r).loc = Put(acc.loc, r, acc.n)
      BY <2>2
    <2>5. DOMAIN PackRow(acc, r).loc = s \cup {r}
      BY <1>2, <2>4
    <2>6. \A x \in s \cup {r} : PackRow(acc, r).loc[x] \in 0..(acc.n + Slots(r) - 1)
      BY <1>2, <2>3, <2>4
    <2> QED  BY <1>3, <2>1, <2>3, <2>4, <2>5, <2>6 DEF PackedOK
  <1>5. CASE RowSize[r] <= PageSize /\ RowSize[r] <= acc.room
    <2>1. PackRow(acc, r) = [n |-> acc.n, room |-> acc.room - RowSize[r],
                             loc |-> Put(acc.loc, r, acc.n - 1)]
      BY <1>1, <1>3, <1>5 DEF PackRow
    <2> QED  BY <1>1, <1>2, <1>3, <1>5, <2>1 DEF PackedOK
  <1>6. CASE RowSize[r] <= PageSize /\ ~(RowSize[r] <= acc.room)
    <2>1. PackRow(acc, r) = [n |-> acc.n + 1, room |-> PageSize - RowSize[r],
                             loc |-> Put(acc.loc, r, acc.n)]
      BY <1>1, <1>3, <1>6 DEF PackRow
    <2>2. \A x \in s : acc.loc[x] \in 0..acc.n
      BY <1>3
    <2> QED  BY <1>1, <1>2, <1>3, <1>6, <2>1, <2>2 DEF PackedOK
  <1> QED  BY <1>1, <1>3, <1>4, <1>5, <1>6

\* compact gives every row it is handed a page below the number it counts.
LEMMA PackingIsSound ==
  ASSUME NEW S \in SUBSET RowIds
  PROVE  PackedOK(Packed(S), S)
  <1> DEFINE base == [n |-> 0, room |-> 0, loc |-> Empty]
             Small(n) == {s \in SUBSET S : Cardinality(s) <= n}
             Folds(g, n) == g = [s \in Small(n) |-> IF s = {} THEN base
                                    ELSE PackRow(g[s \ {Max(s)}], Max(s))]
             iter == CHOOSE g : g = [s \in SUBSET S |-> IF s = {} THEN base
                                    ELSE PackRow(g[s \ {Max(s)}], Max(s))]
  <1>1. Packed(S) = iter[S]
    BY DEF Packed, MapThenFoldSet
  <1>2. MaxRows \in Nat /\ RowIds \in SUBSET Nat /\ IsFiniteSet(S)
        /\ \A x \in RowIds : x <= MaxRows
    <2>1. MaxRows \in Nat /\ RowIds \in SUBSET Nat /\ \A x \in RowIds : x <= MaxRows
      BY PageAssumption DEF RowIds
    <2>2. IsFiniteSet(RowIds)
      BY <2>1, FS_Interval DEF RowIds
    <2> QED  BY <2>1, <2>2, FS_Subset
  <1>3. \A s \in SUBSET S : s # {} => Max(s) \in s
    BY <1>2, MaxOf
  <1>4. \A s \in SUBSET S : /\ IsFiniteSet(s) /\ Cardinality(s) \in Nat
                            /\ (Cardinality(s) = 0 <=> s = {})
                            /\ Cardinality(s) <= Cardinality(S)
    BY <1>2, FS_Subset, FS_CardinalityType, FS_EmptySet
  <1>5. \A s \in SUBSET S : s # {} => /\ s \ {Max(s)} \in SUBSET S
                                      /\ Cardinality(s \ {Max(s)}) = Cardinality(s) - 1
    BY <1>3, <1>4, FS_RemoveElement
  <1> HIDE DEF base
  <1>6. \A n \in Nat : \E g : Folds(g, n)
    <2> DEFINE T == {n \in Nat : ~\E g : Folds(g, n)}
    <2> SUFFICES ASSUME T # {} PROVE FALSE
      OBVIOUS
    <2> HIDE DEF T
    <2>1. PICK m \in T : \A y \in T : m <= y
      BY LeastExists DEF T
    <2>2. m \in Nat /\ ~\E g : Folds(g, m)
      BY DEF T
    <2>3. CASE m = 0
      <3> DEFINE g == [s \in Small(0) |-> base]
      <3>1. \A s \in Small(0) : s = {}
        BY <1>4
      <3>2. Folds(g, 0)
        BY <3>1
      <3> QED  BY <2>2, <2>3, <3>2
    <2>4. CASE m # 0
      <3>1. m - 1 \in Nat /\ m - 1 \notin T
        BY <2>1, <2>2, <2>4
      <3>2. PICK g : Folds(g, m - 1)
        BY <3>1 DEF T
      <3> DEFINE h == [s \in Small(m) |-> IF s \in Small(m - 1) THEN g[s]
                                         ELSE PackRow(g[s \ {Max(s)}], Max(s))]
      <3>3. \A s \in Small(m) : s # {} => s \ {Max(s)} \in Small(m - 1)
        BY <1>4, <1>5, <2>2
      <3>4. Small(m - 1) \subseteq Small(m) /\ {} \in Small(m - 1)
        BY <1>4, <2>2, <3>1, FS_EmptySet
      <3> HIDE DEF Small
      <3>5. \A s \in Small(m) : h[s] = IF s = {} THEN base
                                       ELSE PackRow(h[s \ {Max(s)}], Max(s))
        BY <3>2, <3>3, <3>4
      <3>6. Folds(h, m)
        BY <3>5
      <3> HIDE DEF h
      <3> QED  BY <2>2, <3>6
    <2> QED  BY <2>3, <2>4
  <1>7. iter = [s \in SUBSET S |-> IF s = {} THEN base
                                   ELSE PackRow(iter[s \ {Max(s)}], Max(s))]
    <2>1. Cardinality(S) \in Nat /\ Small(Cardinality(S)) = SUBSET S
      BY <1>4
    <2>2. PICK g : Folds(g, Cardinality(S))
      BY <1>6, <2>1
    <2> QED  BY <2>1, <2>2
  <1> HIDE DEF iter
  <1>8. \A s \in SUBSET S : PackedOK(iter[s], s)
    <2> DEFINE T == {n \in Nat : \E s \in SUBSET S : Cardinality(s) = n /\ ~PackedOK(iter[s], s)}
    <2> SUFFICES ASSUME T # {} PROVE FALSE
      BY <1>4
    <2> HIDE DEF T
    <2>1. PICK m \in T : \A y \in T : m <= y
      BY LeastExists DEF T
    <2>2. PICK s \in SUBSET S : Cardinality(s) = m /\ ~PackedOK(iter[s], s)
      BY DEF T
    <2>3. s # {}
      <3>1. iter[{}] = base
        BY <1>7
      <3>2. PackedOK(base, {})
        BY DEF PackedOK, base, Empty
      <3> QED  BY <2>2, <3>1, <3>2
    <2>4. Cardinality(s \ {Max(s)}) \in Nat /\ Cardinality(s \ {Max(s)}) < m
      BY <1>4, <1>5, <2>2, <2>3
    <2>5. PackedOK(iter[s \ {Max(s)}], s \ {Max(s)})
      <3>1. m \in Nat
        BY DEF T
      <3>2. Cardinality(s \ {Max(s)}) \notin T
        BY <2>1, <2>4, <3>1
      <3> QED  BY <1>5, <2>3, <2>4, <3>2 DEF T
    <2>6. iter[s] = PackRow(iter[s \ {Max(s)}], Max(s))
      BY <1>7, <2>3
    <2>7. Max(s) \in RowIds /\ (s \ {Max(s)}) \cup {Max(s)} = s
      BY <1>3, <2>3
    <2>8. PackedOK(PackRow(iter[s \ {Max(s)}], Max(s)), (s \ {Max(s)}) \cup {Max(s)})
      BY <2>5, <2>7, PackOneMore
    <2> QED  BY <2>2, <2>6, <2>7, <2>8
  <1> QED  BY <1>1, <1>8

-----------------------------------------------------------------------------
(* The inductive invariant                                                 *)

PCs == {"idle", "fetch", "install", "evict", "flush", "write", "tail", "append",
        "register", "place", "locate", "vacuum", "flush_read", "flush_write"}

ThreadState ==
    [pc : PCs, op : {"none", "write", "insert", "vacuum", "flush"},
     row : RowIds \cup {None}, txn : TxnIds \cup {None}, page : Nat,
     frame : Frames \cup {None}, victim_page : Nat, victim : Frames \cup {None},
     head : SUBSET Nat, left : Int, todo : SUBSET Nat]

\* The heap: what is referred to is there, and is a page.
HeapInv ==
    /\ DOMAIN heap = Live(row_space, thread) \ {None}
    /\ DOMAIN heap \subseteq Frames
    /\ \A f \in DOMAIN heap : heap[f] \in Page /\ DOMAIN heap[f].rows \subseteq 1..next_row_id

\* The other variables of the table and of the page file.
StoreInv ==
    /\ limit \in MemoryLimits
    /\ next_page_id \in 0..MaxPages /\ next_row_id \in 0..MaxRows
    /\ DOMAIN row_space \subseteq 0..(next_page_id - 1)
    /\ \A p \in DOMAIN row_space : row_space[p] \in Frames
    /\ \A p, q \in DOMAIN row_space : row_space[p] = row_space[q] => p = q
    /\ DOMAIN row_locations \subseteq 1..next_row_id
    /\ LocatedPages \subseteq 0..(next_page_id - 1)
    /\ memory_used \in 0..(Modulus - 1)
    /\ on_disk_pages \subseteq DOMAIN disk
    /\ torn \subseteq RowIds /\ unsaved \subseteq RowIds
    /\ DOMAIN truth \subseteq 1..next_row_id
    /\ \A p \in DOMAIN disk : disk[p] \in Page /\ DOMAIN disk[p].rows \subseteq 1..next_row_id
    /\ \A p \in DOMAIN image : image[p] \in Page /\ DOMAIN image[p].rows \subseteq 1..next_row_id

\* Which steps an operation goes through.
Steps(w) ==
    /\ w.op = "none" <=> w.pc = "idle"
    /\ w.op = "insert" => w.pc \in {"tail", "append", "register", "evict",
                                    "flush", "place", "locate"}
    /\ w.op = "write" => w.pc \in {"fetch", "install", "evict", "flush", "write"}
    /\ w.op = "vacuum" => w.pc \in {"fetch", "install", "evict", "flush",
                                    "vacuum", "flush_read", "flush_write"}
    /\ w.op = "flush" => w.pc \in {"flush_read", "flush_write"}

\* What a thread holds in each of its steps.
Holds(w) ==
    /\ w.victim # None <=> w.pc = "flush"
    /\ w.frame # None => w.pc \in {"install", "evict", "flush", "write", "append",
                                   "place", "vacuum", "fetch"}
    /\ w.frame # None /\ w.pc = "fetch" => w.op = "vacuum"
    /\ w.pc \in {"install", "evict", "flush", "write", "append", "place"}
          => w.frame # None
    /\ w.victim # None => w.victim_page \in 0..(next_page_id - 1)
    /\ w.op \in {"none", "flush"} => w.todo = {}
    /\ w.op # "insert" => w.head = {}
    /\ w.op = "vacuum" => w.todo \subseteq LocatedPages

\* The row and the page that an operation is about.
About(w) ==
    /\ w.pc \in {"append", "evict", "flush", "place"}
          => w.page \in 0..(next_page_id - 1)
    /\ w.head \subseteq 0..(next_page_id - 1)
    /\ \A p, q \in w.head : p = q
    /\ w.pc \in {"tail", "append"} => w.head = {}
    /\ w.op = "insert" => /\ w.row \in 1..next_row_id /\ w.txn \in TxnIds
                          /\ w.row \notin DOMAIN row_locations \cup DOMAIN truth
    /\ w.op = "write" => /\ w.row \in DOMAIN row_locations \cap DOMAIN truth
                         /\ row_locations[w.row] = w.page /\ w.txn \in TxnIds
    /\ w.op = "vacuum" /\ w.pc \in {"fetch", "install", "evict", "flush"}
          => w.page \in LocatedPages

ThreadInv ==
    /\ thread \in [Threads -> ThreadState]
    /\ \A t \in Threads : Steps(thread[t]) /\ Holds(thread[t]) /\ About(thread[t])
    /\ \A t \in Workers : thread[t].op \in {"none", "write", "insert"}
    /\ thread[Vacuum].op \in {"none", "vacuum", "flush"}
    /\ Exclusive => \A t \in Workers : At(t, "idle")
    /\ \A t, u \in Workers :
          thread[t].op = "insert" /\ thread[u].op = "insert"
             /\ thread[t].row = thread[u].row => t = u

\* A frame is resident, being installed or on its way to disk, not two of them.
FrameInv ==
    /\ \A t \in Threads, p \in DOMAIN row_space : thread[t].victim # row_space[p]
    /\ \A t \in Threads, p \in DOMAIN row_space :
          At(t, "install") => thread[t].frame # row_space[p]
    /\ \A t, u \in Threads : At(t, "install") => thread[t].frame # thread[u].victim
    /\ \A t, u \in Threads : At(t, "install") /\ At(u, "install")
          /\ thread[t].frame = thread[u].frame => t = u

\* What a copy of row r must hold: the writes completed on it, or those of the
\* insert that has put it on a page.
Wanted(r) ==
    (IF r \in DOMAIN truth THEN {truth[r]} ELSE {})
    \cup {{thread[u].txn} : u \in {v \in Workers : thread[v].head # {}
                                                   /\ thread[v].row = r}}

\* P is an up-to-date copy of page p: the rows of p and no others.
Good(P, p) ==
    /\ DOMAIN P.rows \subseteq RowsOf(p)
    /\ \A r \in RowsOf(p) : \A v \in Wanted(r) : r \in DOMAIN P.rows /\ P.rows[r] = v

OnDisk(p) == p \in DOMAIN disk /\ Good(disk[p], p)

\* A copy that eviction would not write.
Clean(P, p) == ~P.dirty /\ RowsOf(p) # {} /\ RowsOf(p) \cap unsaved = {}

\* A resident page is the only copy in memory; flush_all_pages is about to write
\* it unless it has been changed since.
ResidentOK(p) ==
    p \in DOMAIN row_space =>
        /\ InFlight(p) = {}
        /\ Good(heap[row_space[p]], p)
        /\ SpaceFree /\ Clean(heap[row_space[p]], p) => OnDisk(p)
        /\ ~SpaceFree /\ ~heap[row_space[p]].dirty
              => p \in DOMAIN image /\ Good(image[p], p)

\* A page on its way to disk is so once.
FlyingOK(p) ==
    \A t \in InFlight(p) :
        /\ InFlight(p) = {t}
        /\ Good(heap[thread[t].victim], p)
        /\ Clean(heap[thread[t].victim], p) => OnDisk(p)

\* A page that is not in memory is on disk.
ElsewhereOK(p) ==
    RowsOf(p) # {} /\ p \notin DOMAIN row_space /\ InFlight(p) = {} => OnDisk(p)

PageOK(p) == ResidentOK(p) /\ FlyingOK(p) /\ ElsewhereOK(p)

DataInv ==
    torn = {} => /\ DOMAIN truth \subseteq DOMAIN row_locations
                 /\ \A p \in PageIds : PageOK(p)

\* Without a limit every page in use is resident, and a thread holds the
\* resident copy.
NoLimitInv ==
    limit = 0 =>
        /\ torn = {}
        /\ \A t \in Threads : thread[t].victim = None /\ ~At(t, "install")
        /\ \A p \in PageIds : RowsOf(p) # {} => p \in DOMAIN row_space
        /\ \A t \in Workers : thread[t].frame # None =>
              thread[t].page \in DOMAIN row_space
              /\ row_space[thread[t].page] = thread[t].frame

PageInv == HeapInv /\ StoreInv /\ ThreadInv /\ FrameInv /\ DataInv /\ NoLimitInv

-----------------------------------------------------------------------------
(* Pages                                                                   *)

\* No frame has the null address, and every page id of a compaction has a frame.
LEMMA FrameFacts ==
  /\ None \notin Frames
  /\ \A p \in PageIds : p + 1 \in Frames
  <1>1. IsFiniteSet(Threads) /\ Cardinality(Threads) \in Nat
    BY PageAssumption, FS_AddElement, FS_CardinalityType DEF Threads
  <1>2. MaxPages \in Nat
    BY PageAssumption
  <1> QED  BY <1>1, <1>2 DEF Frames, None, PageIds

\* What a Page is made of.
LEMMA PageFacts ==
  ASSUME NEW P \in Page
  PROVE  /\ P.used \in Nat /\ P.overflow \in BOOLEAN /\ P.dirty \in BOOLEAN
         /\ DOMAIN P.rows \subseteq RowIds
         /\ P.rows \in [DOMAIN P.rows -> SUBSET TxnIds]
         /\ P = [used |-> P.used, overflow |-> P.overflow, dirty |-> P.dirty,
                 rows |-> P.rows]
  <1>1. PICK S \in SUBSET RowIds : P.rows \in [S -> SUBSET TxnIds]
    BY DEF Page
  <1> QED  BY <1>1 DEF Page

\* A Page from its fields.
LEMMA PageMade ==
  ASSUME NEW u \in Nat, NEW o \in BOOLEAN, NEW d \in BOOLEAN,
         NEW S \in SUBSET RowIds, NEW R \in [S -> SUBSET TxnIds]
  PROVE  [used |-> u, overflow |-> o, dirty |-> d, rows |-> R] \in Page
  BY DEF Page

\* There are finitely many row ids, each with a size.
LEMMA RowsFinite == RowIds \in SUBSET Nat /\ IsFiniteSet(RowIds)
                    /\ \A r \in RowIds : RowSize[r] \in Nat
  <1>1. MaxRows \in Nat
    BY PageAssumption
  <1>2. IsFiniteSet(RowIds)
    BY <1>1, FS_Interval DEF RowIds
  <1>3. \A r \in RowIds : RowSize[r] \in Nat
    BY PageAssumption DEF RowIds
  <1> QED  BY <1>1, <1>2, <1>3 DEF RowIds

\* The rows of a page have a size together.
LEMMA SumOfRows ==
  ASSUME NEW S \in SUBSET RowIds
  PROVE  SumFunctionOnSet(RowSize, S) \in Nat
  <1>1. IsFiniteSet(S) /\ \A r \in S : RowSize[r] \in Nat
    BY RowsFinite, FS_Subset
  <1> QED  BY <1>1, SumIsNat

\* page_memory_bytes is a number.
LEMMA BytesNat ==
  ASSUME NEW P \in Page
  PROVE  page_memory_bytes(P) \in Nat
  BY PageFacts, SumOfRows DEF page_memory_bytes

\* Page::new makes a page, without rows.
LEMMA EmptyIsPage == EmptyPage \in Page /\ DOMAIN EmptyPage.rows = {}
  <1>1. Empty \in [{} -> SUBSET TxnIds] /\ DOMAIN Empty = {}
    BY DEF Empty
  <1>2. EmptyPage \in Page
    BY <1>1, PageMade DEF EmptyPage
  <1> QED  BY <1>1, <1>2 DEF EmptyPage

\* Page::append adds one row, keeps the others and marks the page dirty.
LEMMA AppendIsPage ==
  \A P \in Page, r \in RowIds, x \in TxnIds :
     /\ append(P, r, x) \in Page
     /\ append(P, r, x).dirty = TRUE
     /\ DOMAIN append(P, r, x).rows = DOMAIN P.rows \cup {r}
     /\ append(P, r, x).rows[r] = {x}
     /\ \A s \in DOMAIN P.rows : s # r => append(P, r, x).rows[s] = P.rows[s]
  <1> TAKE P \in Page, r \in RowIds, x \in TxnIds
  <1> DEFINE R == Put(P.rows, r, {x})
  <1>1. /\ DOMAIN R = DOMAIN P.rows \cup {r} /\ R[r] = {x}
        /\ \A s \in DOMAIN P.rows : s # r => R[s] = P.rows[s]
    BY DEF Put
  <1>2. R \in [DOMAIN P.rows \cup {r} -> SUBSET TxnIds]
    BY PageFacts DEF Put
  <1>3. DOMAIN P.rows \cup {r} \in SUBSET RowIds /\ P.overflow \in BOOLEAN
    BY PageFacts
  <1>4. P.used + RowSize[r] \in Nat
    BY PageFacts, RowsFinite
  <1> HIDE DEF R
  <1>5. R \in UNION {[T -> SUBSET TxnIds] : T \in SUBSET RowIds}
    BY <1>2, <1>3
  <1>6. /\ append(P, r, x) \in Page /\ append(P, r, x).rows = R
        /\ append(P, r, x).dirty = TRUE
    BY <1>4, <1>5 DEF append, Page, R
  <1> QED  BY <1>1, <1>6

-----------------------------------------------------------------------------
(* What a step leaves alone                                                *)

\* The threads other than the one that moves.
Others(t) == \A u \in Threads \ {t} : thread'[u] = thread[u]

\* They are where they were, as long as no row goes away.
LEMMA OthersKeep ==
  ASSUME StoreInv, ThreadInv, NEW t \in Threads, Others(t),
         next_page_id' \in Nat, next_page_id <= next_page_id',
         next_row_id' \in Nat, next_row_id <= next_row_id',
         \A r \in DOMAIN row_locations :
            r \in DOMAIN row_locations' /\ row_locations'[r] = row_locations[r],
         DOMAIN truth \subseteq DOMAIN truth',
         \A u \in Threads \ {t} : thread[u].op = "insert" =>
            thread[u].row \notin DOMAIN row_locations' \cup DOMAIN truth'
  PROVE  \A u \in Threads \ {t} :
            Steps(thread[u])' /\ Holds(thread[u])' /\ About(thread[u])'
  <1> SUFFICES ASSUME NEW u \in Threads \ {t}
               PROVE  Steps(thread[u])' /\ Holds(thread[u])' /\ About(thread[u])'
    OBVIOUS
  <1>1. thread'[u] = thread[u] /\ thread[u] \in ThreadState
    BY DEF Others, ThreadInv
  <1>2. Steps(thread[u]) /\ Holds(thread[u]) /\ About(thread[u])
    BY DEF ThreadInv
  <1>3. next_page_id \in Nat /\ next_row_id \in Nat
    BY DEF StoreInv
  <1>4. 0..(next_page_id - 1) \subseteq 0..(next_page_id' - 1)
        /\ 1..next_row_id \subseteq 1..next_row_id'
    <2>1. \A a, b \in Nat : a <= b => 0..(a - 1) \subseteq 0..(b - 1) /\ 1..a \subseteq 1..b
      OBVIOUS
    <2> QED  BY <1>3, <2>1
  <1>5. LocatedPages \subseteq LocatedPages'
    BY DEF LocatedPages
  <1>6. Steps(thread[u])'
    BY <1>1, <1>2 DEF Steps
  <1>7. Holds(thread[u])'
    BY <1>1, <1>2, <1>4, <1>5 DEF Holds
  <1>8. About(thread[u])'
    BY <1>1, <1>2, <1>4, <1>5 DEF About
  <1> QED  BY <1>6, <1>7, <1>8

\* An idle thread is where it was, whatever happens to the table.
LEMMA IdleKeeps ==
  ASSUME ThreadInv, NEW u \in Threads, thread'[u] = thread[u], At(u, "idle")
  PROVE  Steps(thread[u])' /\ Holds(thread[u])' /\ About(thread[u])'
  <1>1. Steps(thread[u]) /\ Holds(thread[u]) /\ About(thread[u])
        /\ thread[u].pc = "idle"
    BY DEF ThreadInv, At
  <1>2. thread[u].op = "none" /\ thread[u].victim = None /\ thread[u].todo = {}
        /\ thread[u].head = {} /\ thread[u].frame = None
    BY <1>1 DEF Steps, Holds
  <1> QED  BY <1>1, <1>2 DEF Steps, Holds, About

\* The operation that t goes on with, begins or ends is one of its own.
OpsOK(t) ==
    /\ t \in Workers => thread'[t].op \in {"none", "write", "insert"}
    /\ t = Vacuum => thread'[t].op \in {"none", "vacuum", "flush"}
    /\ t = Vacuum /\ thread'[t].op = "vacuum" => \A u \in Workers : At(u, "idle")
    /\ t \in Workers => thread[Vacuum].op # "vacuum"
    /\ \A u \in Workers \ {t} :
          thread'[t].op = "insert" /\ thread[u].op = "insert"
             => thread[u].row # thread'[t].row

\* One thread moves.
LEMMA ThreadStep ==
  ASSUME ThreadInv, NEW t \in Threads, Others(t),
         thread' \in [Threads -> ThreadState],
         \A u \in Threads \ {t} :
            Steps(thread[u])' /\ Holds(thread[u])' /\ About(thread[u])',
         Steps(thread[t])' /\ Holds(thread[t])' /\ About(thread[t])',
         OpsOK(t)
  PROVE  ThreadInv'
  <1>1. Vacuum \notin Workers /\ Threads = Workers \cup {Vacuum}
    BY PageAssumption DEF Threads
  <1>2. \A u \in Threads : Steps(thread[u])' /\ Holds(thread[u])' /\ About(thread[u])'
    OBVIOUS
  <1>3. \A u \in Workers : thread'[u].op \in {"none", "write", "insert"}
    BY <1>1 DEF OpsOK, Others, ThreadInv
  <1>4. thread'[Vacuum].op \in {"none", "vacuum", "flush"}
    BY <1>1 DEF OpsOK, Others, ThreadInv
  <1>5. Exclusive' => \A u \in Workers : At(u, "idle")'
    BY <1>1 DEF OpsOK, Others, ThreadInv, Exclusive, At
  <1>6. \A u, v \in Workers :
           thread'[u].op = "insert" /\ thread'[v].op = "insert"
              /\ thread'[u].row = thread'[v].row => u = v
    BY <1>1 DEF OpsOK, Others, ThreadInv
  <1> QED  BY <1>2, <1>3, <1>4, <1>5, <1>6 DEF ThreadInv

\* No frame changes hands.
LEMMA FramesKeep ==
  ASSUME StoreInv, ThreadInv, FrameInv, NEW t \in Threads, Others(t),
         row_space' = row_space,
         thread'[t].victim \in {None, thread[t].victim}, thread'[t].pc # "install"
  PROVE  FrameInv'
  <1>1. \A p \in DOMAIN row_space : row_space[p] # None
    BY FrameFacts DEF StoreInv
  <1>2. \A u \in Threads : At(u, "install") => thread[u].frame # None
    BY DEF ThreadInv, Holds, At
  <1>3. \A u \in Threads : /\ thread'[u].victim \in {None, thread[u].victim}
                           /\ At(u, "install")' => At(u, "install")
                                 /\ thread'[u].frame = thread[u].frame
    BY DEF Others, At
  <1> QED  BY <1>1, <1>2, <1>3 DEF FrameInv

\* A frame that is still referred to was so before, or is taken by the step.
LEMMA HeapStep ==
  ASSUME HeapInv, NEW t \in Threads, Others(t), NEW h, SetHeap(h),
         next_row_id \in Nat, next_row_id' \in Nat, next_row_id <= next_row_id',
         \A p \in DOMAIN row_space' :
            row_space'[p] \in DOMAIN h,
         {thread'[t].frame, thread'[t].victim} \subseteq DOMAIN h \cup {None},
         DOMAIN heap \subseteq DOMAIN h, DOMAIN h \subseteq Frames,
         \A f \in DOMAIN h : h[f] \in Page /\ DOMAIN h[f].rows \subseteq 1..next_row_id'
  PROVE  /\ HeapInv'
         /\ DOMAIN heap' \subseteq DOMAIN h
         /\ \A f \in DOMAIN heap' : heap'[f] = h[f]
         /\ \A p \in DOMAIN row_space' : row_space'[p] \in DOMAIN heap'
         /\ \A u \in Threads : /\ thread'[u].victim # None => thread'[u].victim \in DOMAIN heap'
                               /\ thread'[u].frame # None => thread'[u].frame \in DOMAIN heap'
  <1> DEFINE L == Live(row_space', thread')
  <1>1. None \notin DOMAIN h
    BY FrameFacts
  <1>2. \A u \in Threads \ {t} : thread'[u] = thread[u]
    BY DEF Others
  <1>3. \A u \in Threads \ {t} :
           {thread[u].frame, thread[u].victim} \subseteq DOMAIN heap \cup {None}
    BY DEF HeapInv, Live
  <1>4. \A u \in Threads :
           {thread'[u].frame, thread'[u].victim} \subseteq DOMAIN h \cup {None}
    BY <1>2, <1>3
  <1>5. L \ {None} \subseteq DOMAIN h
    BY <1>4 DEF Live
  <1>6. \A u \in Threads : thread'[u].frame \in L /\ thread'[u].victim \in L
    BY DEF Live
  <1>7. \A p \in DOMAIN row_space' : row_space'[p] \in L
    BY DEF Live
  <1>8. heap' = [f \in DOMAIN h \cap L |-> h[f]]
    BY DEF SetHeap
  <1> HIDE DEF L
  <1>9. DOMAIN heap' = L \ {None} /\ \A f \in DOMAIN heap' : heap'[f] = h[f]
    BY <1>1, <1>5, <1>8
  <1>10. HeapInv'
    BY <1>5, <1>9 DEF HeapInv, L
  <1> QED  BY <1>1, <1>4, <1>5, <1>6, <1>7, <1>9, <1>10

\* The rows of every page are the same when the step moves no row.
LEMMA RowsKeep ==
  ASSUME NEW t \in Threads, Others(t), row_locations' = row_locations,
         thread'[t].head = thread[t].head,
         thread[t].head # {} => /\ thread'[t].row = thread[t].row
                                /\ thread'[t].txn = thread[t].txn
  PROVE  /\ \A p : RowsOf(p)' = RowsOf(p)
         /\ truth' = truth => \A r : Wanted(r)' = Wanted(r)
  <1>1. \A u \in Workers : /\ thread'[u].head = thread[u].head
                           /\ thread[u].head # {} => /\ thread'[u].row = thread[u].row
                                                     /\ thread'[u].txn = thread[u].txn
    BY DEF Others, Threads
  <1>2. ASSUME NEW p PROVE RowsOf(p)' = RowsOf(p)
    <2>1. {u \in Workers : p \in thread'[u].head} = {u \in Workers : p \in thread[u].head}
      BY <1>1
    <2>2. \A u \in Workers : p \in thread[u].head => thread'[u].row = thread[u].row
      BY <1>1
    <2>3. {thread'[u].row : u \in {v \in Workers : p \in thread'[v].head}}
          = {thread[u].row : u \in {v \in Workers : p \in thread[v].head}}
      BY <2>1, <2>2
    <2> QED  BY <2>3 DEF RowsOf
  <1>3. ASSUME NEW r, truth' = truth PROVE Wanted(r)' = Wanted(r)
    <2> DEFINE A == {v \in Workers : thread[v].head # {} /\ thread[v].row = r}
    <2>1. {v \in Workers : thread'[v].head # {} /\ thread'[v].row = r} = A
      BY <1>1
    <2>2. \A u \in A : thread'[u].txn = thread[u].txn
      BY <1>1
    <2>3. {{thread'[u].txn} : u \in A} = {{thread[u].txn} : u \in A}
      BY <2>2
    <2> QED  BY <1>3, <2>1, <2>3 DEF Wanted
  <1> QED  BY <1>2, <1>3

\* Rows are on pages that have been handed out.
LEMMA RowsAreSomewhere ==
  ASSUME StoreInv, ThreadInv
  PROVE  /\ \A p : RowsOf(p) # {} => p \in 0..(next_page_id - 1) /\ p \in PageIds
         /\ \A p : RowsOf(p) \subseteq RowIds
         /\ \A r \in DOMAIN row_locations : r \in RowsOf(row_locations[r])
         /\ \A u \in Workers : \A p \in thread[u].head : thread[u].row \in RowsOf(p)
  <1>1. \A u \in Workers : /\ thread[u].head \subseteq 0..(next_page_id - 1)
                           /\ thread[u].head # {} => thread[u].row \in 1..next_row_id
    BY DEF ThreadInv, Holds, About, Threads
  <1>2. /\ next_page_id \in 0..MaxPages /\ next_row_id \in 0..MaxRows
        /\ DOMAIN row_locations \subseteq 1..next_row_id
        /\ \A r \in DOMAIN row_locations : row_locations[r] \in 0..(next_page_id - 1)
    BY DEF StoreInv, LocatedPages
  <1>3. MaxPages \in Nat /\ MaxRows \in Nat
    BY PageAssumption
  <1>4. 0..(next_page_id - 1) \subseteq PageIds /\ 1..next_row_id \subseteq RowIds
    BY <1>2, <1>3 DEF PageIds, RowIds
  <1>5. \A p : RowsOf(p) # {} => p \in 0..(next_page_id - 1)
    BY <1>1, <1>2 DEF RowsOf
  <1>6. \A p : RowsOf(p) \subseteq 1..next_row_id
    BY <1>1, <1>2 DEF RowsOf
  <1>7. \A r \in DOMAIN row_locations : r \in RowsOf(row_locations[r])
    BY DEF RowsOf
  <1>8. \A u \in Workers : \A p \in thread[u].head : thread[u].row \in RowsOf(p)
    BY DEF RowsOf
  <1> QED  BY <1>4, <1>5, <1>6, <1>7, <1>8

\* A row is on one page.
LEMMA RowsOnOnePage ==
  ASSUME StoreInv, ThreadInv, NEW p, NEW q, NEW r, r \in RowsOf(p), r \in RowsOf(q)
  PROVE  p = q
  <1>1. /\ \A u \in Workers : /\ thread[u].head # {} => thread[u].op = "insert"
                              /\ \A x, y \in thread[u].head : x = y
                              /\ thread[u].op = "insert" =>
                                    thread[u].row \notin DOMAIN row_locations
        /\ \A u, v \in Workers : thread[u].op = "insert" /\ thread[v].op = "insert"
              /\ thread[u].row = thread[v].row => u = v
    BY DEF ThreadInv, Holds, About, Threads
  <1>2. CASE r \in DOMAIN row_locations
    BY <1>1, <1>2 DEF RowsOf
  <1>3. CASE r \notin DOMAIN row_locations
    <2>1. PICK u \in Workers : p \in thread[u].head /\ r = thread[u].row
      BY <1>3 DEF RowsOf
    <2>2. PICK v \in Workers : q \in thread[v].head /\ r = thread[v].row
      BY <1>3 DEF RowsOf
    <2>3. thread[u].op = "insert" /\ thread[v].op = "insert"
      BY <1>1, <2>1, <2>2
    <2>4. u = v
      BY <1>1, <2>1, <2>2, <2>3, ZenonT(40)
    <2> QED  BY <1>1, <2>1, <2>2, <2>4
  <1> QED  BY <1>2, <1>3

\* An up-to-date copy stays one while its rows and their writes stay.
LEMMA GoodKeeps ==
  ASSUME NEW P, NEW p, RowsOf(p)' = RowsOf(p),
         \A r \in RowsOf(p) : Wanted(r)' \subseteq Wanted(r), Good(P, p)
  PROVE  Good(P, p)'
  BY DEF Good

\* A page that the step does not touch stays as it should be.
LEMMA PageKeeps ==
  ASSUME NEW p, PageOK(p), RowsOf(p)' = RowsOf(p),
         \A r \in RowsOf(p) : Wanted(r)' \subseteq Wanted(r),
         p \in DOMAIN row_space' <=> p \in DOMAIN row_space,
         p \in DOMAIN row_space => heap'[row_space'[p]] = heap[row_space[p]],
         InFlight(p)' = InFlight(p),
         \A t \in InFlight(p) : heap'[thread'[t].victim] = heap[thread[t].victim],
         p \in DOMAIN disk' <=> p \in DOMAIN disk,
         p \in DOMAIN disk => disk'[p] = disk[p],
         RowsOf(p) \cap unsaved \subseteq unsaved',
         SpaceFree' <=> SpaceFree, image' = image
  PROVE  PageOK(p)'
  <1>1. \A P : Good(P, p) => Good(P, p)'
    BY GoodKeeps
  <1>2. OnDisk(p) => OnDisk(p)'
    BY <1>1 DEF OnDisk
  <1>3. \A P : Clean(P, p)' => Clean(P, p)
    BY DEF Clean
  <1>4. ResidentOK(p)'
    BY <1>1, <1>2, <1>3 DEF PageOK, ResidentOK
  <1>5. FlyingOK(p)'
    BY <1>1, <1>2, <1>3 DEF PageOK, FlyingOK
  <1>6. ElsewhereOK(p)'
    BY <1>2 DEF PageOK, ElsewhereOK
  <1> QED  BY <1>4, <1>5, <1>6 DEF PageOK

\* A step that changes no copy of a page and moves no row keeps the data.
LEMMA DataKeeps ==
  ASSUME DataInv, NEW t \in Threads, Others(t), torn \subseteq torn',
         row_space' = row_space, disk' = disk, image' = image, unsaved' = unsaved,
         thread'[t].victim = thread[t].victim,
         thread[t].victim # None => thread'[t].victim_page = thread[t].victim_page,
         \A p \in DOMAIN row_space : heap'[row_space[p]] = heap[row_space[p]],
         \A u \in Threads : thread[u].victim # None =>
            heap'[thread[u].victim] = heap[thread[u].victim],
         SpaceFree' <=> SpaceFree,
         \A p : RowsOf(p)' = RowsOf(p), \A r : Wanted(r)' \subseteq Wanted(r),
         DOMAIN truth \subseteq DOMAIN row_locations
            => DOMAIN truth' \subseteq DOMAIN row_locations'
  PROVE  DataInv'
  <1> SUFFICES ASSUME torn' = {} PROVE DataInv'
    BY DEF DataInv
  <1>1. DOMAIN truth \subseteq DOMAIN row_locations /\ \A p \in PageIds : PageOK(p)
    BY DEF DataInv
  <1>2. \A u \in Threads : /\ thread'[u].victim = thread[u].victim
                           /\ thread[u].victim # None =>
                                 thread'[u].victim_page = thread[u].victim_page
    BY DEF Others
  <1>3. \A p : InFlight(p)' = InFlight(p)
    BY <1>2 DEF InFlight
  <1>4. \A p : \A u \in InFlight(p) : heap'[thread'[u].victim] = heap[thread[u].victim]
    BY <1>2 DEF InFlight
  <1>5. ASSUME NEW p \in PageIds PROVE PageOK(p)'
    BY <1>1, <1>3, <1>4, PageKeeps
  <1> QED  BY <1>1, <1>5 DEF DataInv

\* ... and an unlimited table its residents.
LEMMA NoLimitKeeps ==
  ASSUME NoLimitInv, NEW t \in Threads, Others(t), limit' = limit, torn' = torn,
         row_space' = row_space, \A p : RowsOf(p)' = RowsOf(p),
         thread'[t].victim \in {None, thread[t].victim}, ~At(t, "install")',
         t \in Workers /\ limit = 0 /\ thread'[t].frame # None =>
            /\ thread'[t].page \in DOMAIN row_space
            /\ row_space[thread'[t].page] = thread'[t].frame
  PROVE  NoLimitInv'
  <1>1. \A u \in Threads \ {t} : thread'[u] = thread[u]
    BY DEF Others
  <1>2. Workers \subseteq Threads
    BY DEF Threads
  <1> QED  BY <1>1, <1>2 DEF NoLimitInv, At

\* The heap stays when the thread lets go of nothing that it alone refers to.
LEMMA HeapSame ==
  ASSUME HeapInv, NEW t \in Threads, Others(t), heap' = heap, row_space' = row_space,
         next_row_id \in Nat, next_row_id' \in Nat, next_row_id <= next_row_id',
         {thread'[t].frame, thread'[t].victim} \subseteq DOMAIN heap \cup {None},
         {thread[t].frame, thread[t].victim}
            \subseteq {None, thread'[t].frame, thread'[t].victim}
  PROVE  HeapInv'
  <1>1. \A u \in Threads \ {t} : thread'[u] = thread[u]
    BY DEF Others
  <1>2. DOMAIN heap = Live(row_space, thread) \ {None}
    BY DEF HeapInv
  <1>3. Live(row_space, thread) \ {None} \subseteq Live(row_space', thread')
    BY <1>1 DEF Live
  <1>4. Live(row_space', thread') \ {None} \subseteq DOMAIN heap
    BY <1>1, <1>2 DEF Live
  <1>5. \A f \in DOMAIN heap : heap[f] \in Page /\ DOMAIN heap[f].rows \subseteq 1..next_row_id'
    <2>1. 1..next_row_id \subseteq 1..next_row_id'
      OBVIOUS
    <2> QED  BY <2>1 DEF HeapInv
  <1>6. DOMAIN heap' = Live(row_space, thread)' \ {None}
    BY <1>2, <1>3, <1>4
  <1> QED  BY <1>5, <1>6 DEF HeapInv

\* A step of one thread that leaves the table and the page file alone.
LEMMA QuietStep ==
  ASSUME PageInv, NEW t \in Threads, Others(t),
         UNCHANGED <<limit, row_space, row_locations, next_page_id, memory_used,
                     disk, on_disk_pages, image, truth, unsaved, torn>>,
         next_row_id' \in 0..MaxRows, next_row_id <= next_row_id',
         HeapInv', \A f \in DOMAIN heap \cap DOMAIN heap' : heap'[f] = heap[f],
         thread' \in [Threads -> ThreadState],
         Steps(thread[t])' /\ Holds(thread[t])' /\ About(thread[t])',
         OpsOK(t),
         FrameInv',
         thread'[t].victim = thread[t].victim,
         thread[t].victim # None => thread'[t].victim_page = thread[t].victim_page,
         At(t, "flush_write")' <=> At(t, "flush_write"),
         thread'[t].head = thread[t].head,
         thread[t].head # {} => /\ thread'[t].row = thread[t].row
                                /\ thread'[t].txn = thread[t].txn,
         limit = 0 => ~At(t, "install")',
         t \in Workers /\ limit = 0 /\ thread'[t].frame # None =>
            /\ thread'[t].page \in DOMAIN row_space
            /\ row_space[thread'[t].page] = thread'[t].frame
  PROVE  PageInv'
  <1>1. HeapInv /\ StoreInv /\ ThreadInv /\ FrameInv /\ DataInv /\ NoLimitInv
    BY DEF PageInv
  <1>2. /\ \A p : RowsOf(p)' = RowsOf(p)
        /\ \A r : Wanted(r)' = Wanted(r)
    BY RowsKeep
  <1>3. next_page_id \in Nat /\ next_row_id \in Nat /\ next_row_id' \in Nat
    BY <1>1, PageAssumption DEF StoreInv
  <1>4. StoreInv'
    <2>1. 1..next_row_id \subseteq 1..next_row_id'
      BY <1>3
    <2> QED  BY <1>1, <2>1 DEF StoreInv, LocatedPages
  <1>5. ThreadInv'
    <2>1. \A u \in Threads \ {t} : thread[u].op = "insert" =>
             thread[u].row \notin DOMAIN row_locations' \cup DOMAIN truth'
      BY <1>1 DEF ThreadInv, About
    <2>2. \A u \in Threads \ {t} :
            Steps(thread[u])' /\ Holds(thread[u])' /\ About(thread[u])'
      BY <1>1, <1>3, <2>1, OthersKeep
    <2> QED  BY <1>1, <2>2, ThreadStep
  <1>6. DataInv'
    <2>1. \A p \in DOMAIN row_space : row_space[p] \in DOMAIN heap \cap DOMAIN heap'
      BY <1>1, FrameFacts DEF StoreInv, HeapInv, Live
    <2>2. \A u \in Threads : thread'[u].victim = thread[u].victim
      BY DEF Others
    <2>3. \A u \in Threads : thread[u].victim # None =>
             thread[u].victim \in DOMAIN heap \cap DOMAIN heap'
      BY <1>1, <2>2 DEF HeapInv, Live
    <2>4. SpaceFree' <=> SpaceFree
      BY DEF SpaceFree, At, Others, Threads
    <2> QED  BY <1>1, <1>2, <2>1, <2>3, <2>4, DataKeeps
  <1>7. NoLimitInv'
    <2>1. CASE limit = 0
      BY <1>1, <1>2, <2>1, NoLimitKeeps
    <2>2. CASE limit # 0
      BY <2>2 DEF NoLimitInv
    <2> QED  BY <2>1, <2>2
  <1> QED  BY <1>4, <1>5, <1>6, <1>7 DEF PageInv

\* A thread that goes on with its operation, or ends it.
LEMMA OpsKeep ==
  ASSUME ThreadInv, NEW t \in Threads, thread[t].pc # "idle",
         thread'[t].op \in {"none", thread[t].op},
         thread'[t].op = "insert" => thread'[t].row = thread[t].row
  PROVE  OpsOK(t)
  BY PageAssumption DEF OpsOK, ThreadInv, Exclusive, At, Threads

\* What the invariant says of the thread that moves.
LEMMA Facts ==
  ASSUME PageInv, NEW t \in Threads
  PROVE  /\ HeapInv /\ StoreInv /\ ThreadInv /\ FrameInv /\ DataInv /\ NoLimitInv
         /\ thread \in [Threads -> ThreadState] /\ thread[t] \in ThreadState
         /\ Steps(thread[t]) /\ Holds(thread[t]) /\ About(thread[t])
         /\ next_row_id \in Nat /\ next_page_id \in Nat
         /\ next_row_id \in 0..MaxRows /\ next_row_id <= next_row_id
         /\ \A p \in DOMAIN row_space : row_space[p] \in DOMAIN heap
               /\ row_space[p] \in Frames /\ row_space[p] # None
         /\ DOMAIN heap \subseteq Frames
         /\ \A f \in DOMAIN heap :
               heap[f] \in Page /\ DOMAIN heap[f].rows \subseteq 1..next_row_id
         /\ thread[t].frame # None => thread[t].frame \in DOMAIN heap
         /\ thread[t].victim # None => thread[t].victim \in DOMAIN heap
  <1>1. HeapInv /\ StoreInv /\ ThreadInv /\ FrameInv /\ DataInv /\ NoLimitInv
    BY DEF PageInv
  <1>2. /\ thread \in [Threads -> ThreadState] /\ thread[t] \in ThreadState
        /\ Steps(thread[t]) /\ Holds(thread[t]) /\ About(thread[t])
    BY <1>1 DEF ThreadInv
  <1>3. /\ next_row_id \in Nat /\ next_page_id \in Nat
        /\ next_row_id \in 0..MaxRows /\ next_row_id <= next_row_id
    BY <1>1, PageAssumption DEF StoreInv
  <1>4. \A p \in DOMAIN row_space : row_space[p] \in DOMAIN heap
           /\ row_space[p] \in Frames /\ row_space[p] # None
    BY <1>1, FrameFacts DEF StoreInv, HeapInv, Live
  <1>5. /\ DOMAIN heap \subseteq Frames
        /\ \A f \in DOMAIN heap :
               heap[f] \in Page /\ DOMAIN heap[f].rows \subseteq 1..next_row_id
    BY <1>1 DEF HeapInv
  <1>6. /\ thread[t].frame # None => thread[t].frame \in DOMAIN heap
        /\ thread[t].victim # None => thread[t].victim \in DOMAIN heap
    BY <1>1 DEF HeapInv, Live
  <1> QED  BY <1>1, <1>2, <1>3, <1>4, <1>5, <1>6

\* The heap when no page in it changes.
LEMMA HeapQuiet ==
  ASSUME PageInv, NEW t \in Threads, Others(t), SetHeap(heap), row_space' = row_space,
         next_row_id' = next_row_id,
         {thread'[t].frame, thread'[t].victim} \subseteq DOMAIN heap \cup {None}
  PROVE  HeapInv' /\ \A f \in DOMAIN heap \cap DOMAIN heap' : heap'[f] = heap[f]
  <1>1. \A q \in DOMAIN row_space' : row_space'[q] \in DOMAIN heap
    BY Facts
  <1>2. HeapInv /\ next_row_id \in Nat /\ next_row_id' \in Nat /\ next_row_id <= next_row_id'
    BY Facts
  <1>3. DOMAIN heap \subseteq Frames /\ \A f \in DOMAIN heap :
           heap[f] \in Page /\ DOMAIN heap[f].rows \subseteq 1..next_row_id'
    BY Facts
  <1> QED  BY <1>1, <1>2, <1>3, HeapStep

\* A thread takes hold of a resident frame.
LEMMA FetchHitKeeps ==
  ASSUME PageInv, NEW t \in Threads, FetchHit(t)
  PROVE  PageInv'
  <1> DEFINE w == thread[t]
             p == w.page
  <1>1. /\ StoreInv /\ ThreadInv /\ FrameInv
        /\ w \in ThreadState /\ thread \in [Threads -> ThreadState]
        /\ Steps(w) /\ Holds(w) /\ About(w)
    BY Facts
  <1>2. w.pc = "fetch" /\ p \in DOMAIN row_space
    BY DEF FetchHit, At
  <1>3. row_space[p] \in Frames /\ row_space[p] \in DOMAIN heap /\ row_space[p] # None
    BY <1>2, Facts
  <1>4. w.op \in {"write", "vacuum"} /\ w.victim = None /\ w.head = {}
    BY <1>1, <1>2 DEF Steps, Holds, ThreadState
  <1>5. Arrive(w.op) \in {"write", "vacuum"} /\ (w.op = "vacuum" <=> Arrive(w.op) = "vacuum")
    BY <1>4 DEF Arrive
  <1>6. /\ thread' = [thread EXCEPT ![t].pc = Arrive(w.op), ![t].frame = row_space[p]]
        /\ UNCHANGED <<limit, row_space, row_locations, next_page_id, next_row_id,
                       memory_used, disk, on_disk_pages, image, truth, unsaved, torn>>
        /\ SetHeap(heap)
    BY DEF FetchHit
  <1>7. /\ thread' \in [Threads -> ThreadState] /\ Others(t)
        /\ thread'[t].pc = Arrive(w.op) /\ thread'[t].frame = row_space[p]
        /\ thread'[t].op = w.op /\ thread'[t].row = w.row /\ thread'[t].txn = w.txn
        /\ thread'[t].page = p /\ thread'[t].victim = w.victim
        /\ thread'[t].victim_page = w.victim_page /\ thread'[t].head = w.head
        /\ thread'[t].todo = w.todo
    BY <1>1, <1>3, <1>5, <1>6, ZenonT(40) DEF ThreadState, PCs, Others
  <1>8. HeapInv' /\ \A f \in DOMAIN heap \cap DOMAIN heap' : heap'[f] = heap[f]
    BY <1>3, <1>4, <1>6, <1>7, HeapQuiet
  <1>9. Steps(thread[t])' /\ Holds(thread[t])' /\ About(thread[t])'
    <2>1. LocatedPages' = LocatedPages
      BY <1>6 DEF LocatedPages
    <2> QED  BY <1>1, <1>2, <1>3, <1>4, <1>5, <1>6, <1>7, <2>1 DEF Steps, Holds, About
  <1>10. FrameInv'
    BY <1>1, <1>4, <1>5, <1>6, <1>7, FramesKeep
  <1>11. /\ next_row_id' \in 0..MaxRows /\ next_row_id <= next_row_id'
         /\ ~At(t, "install")' /\ ~At(t, "flush_write")' /\ ~At(t, "flush_write")
    BY <1>2, <1>5, <1>6, <1>7, Facts DEF At
  <1>12. OpsOK(t)
    BY <1>1, <1>2, <1>7, OpsKeep
  <1> QED  BY <1>2, <1>6, <1>7, <1>8, <1>9, <1>10, <1>11, <1>12, QuietStep

\* A thread between two operations.
LEMMA IdleFacts ==
  /\ Idle \in ThreadState
  /\ Idle.pc = "idle" /\ Idle.op = "none" /\ Idle.frame = None /\ Idle.victim = None
  /\ Idle.head = {} /\ Idle.todo = {} /\ Idle.victim_page = 0
  BY DEF Idle, ThreadState, PCs

\* A thread whose operation is over.
LEMMA IdleOK ==
  ASSUME NEW t \in Threads, thread'[t] = Idle
  PROVE  Steps(thread[t])' /\ Holds(thread[t])' /\ About(thread[t])'
  BY IdleFacts DEF Steps, Holds, About

\* An idle thread holds nothing.
LEMMA IdleHolds ==
  ASSUME PageInv, NEW t \in Threads, At(t, "idle")
  PROVE  /\ thread[t].op = "none" /\ thread[t].frame = None /\ thread[t].victim = None
         /\ thread[t].head = {}
  <1>1. Steps(thread[t]) /\ Holds(thread[t])
    BY Facts
  <1> QED  BY <1>1 DEF At, Steps, Holds

\* ensure_page_resident reads a page into a frame nobody else knows.
LEMMA FetchReadKeeps ==
  ASSUME PageInv, NEW t \in Threads, FetchRead(t)
  PROVE  PageInv'
  <1> DEFINE w == thread[t]
             p == w.page
  <1>1. /\ HeapInv /\ StoreInv /\ ThreadInv /\ FrameInv /\ DataInv /\ NoLimitInv
        /\ w \in ThreadState /\ thread \in [Threads -> ThreadState]
        /\ Steps(w) /\ Holds(w) /\ About(w)
    BY Facts
  <1>2. w.pc = "fetch" /\ p \in DOMAIN disk /\ p \notin DOMAIN row_space
    BY DEF FetchRead, At
  <1>3. w.op \in {"write", "vacuum"} /\ w.victim = None /\ w.head = {}
    BY <1>1, <1>2 DEF Steps, Holds, ThreadState
  <1>4. PICK f \in Frames :
           /\ f \notin Live(row_space, thread)
           /\ thread' = [thread EXCEPT ![t].pc = "install", ![t].frame = f]
           /\ SetHeap(Put(heap, f, disk[p]))
    BY DEF FetchRead, NewFrame
  <1>5. UNCHANGED <<limit, row_space, row_locations, next_page_id, next_row_id,
                    memory_used, disk, on_disk_pages, image, truth, unsaved, torn>>
    BY DEF FetchRead
  <1>6. /\ f # None /\ f \notin DOMAIN heap
        /\ \A q \in DOMAIN row_space : row_space[q] # f
        /\ \A u \in Threads : thread[u].frame # f /\ thread[u].victim # f
    BY <1>1, <1>4, FrameFacts DEF HeapInv, Live
  <1>7. /\ thread' \in [Threads -> ThreadState] /\ Others(t)
        /\ thread'[t].pc = "install" /\ thread'[t].frame = f
        /\ thread'[t].op = w.op /\ thread'[t].row = w.row /\ thread'[t].txn = w.txn
        /\ thread'[t].page = p /\ thread'[t].victim = w.victim
        /\ thread'[t].victim_page = w.victim_page /\ thread'[t].head = w.head
        /\ thread'[t].todo = w.todo
    BY <1>1, <1>4, ZenonT(40) DEF ThreadState, PCs, Others
  <1>8. HeapInv' /\ \A g \in DOMAIN heap \cap DOMAIN heap' : heap'[g] = heap[g]
    <2> DEFINE h == Put(heap, f, disk[p])
    <2>1. /\ DOMAIN h = DOMAIN heap \cup {f} /\ h[f] = disk[p]
          /\ \A g \in DOMAIN heap : h[g] = heap[g]
      BY <1>6 DEF Put
    <2>2. disk[p] \in Page /\ DOMAIN disk[p].rows \subseteq 1..next_row_id
      BY <1>1, <1>2 DEF StoreInv
    <2>3. SetHeap(h)
      BY <1>4
    <2> HIDE DEF h
    <2>4. \A q \in DOMAIN row_space' : row_space'[q] \in DOMAIN h
      BY <1>5, <2>1, Facts
    <2>5. next_row_id \in Nat /\ next_row_id' \in Nat /\ next_row_id <= next_row_id'
      BY <1>5, Facts
    <2>6. DOMAIN h \subseteq Frames /\ \A g \in DOMAIN h :
             h[g] \in Page /\ DOMAIN h[g].rows \subseteq 1..next_row_id'
      BY <1>5, <2>1, <2>2, Facts
    <2>7. {thread'[t].frame, thread'[t].victim} \subseteq DOMAIN h \cup {None}
      BY <1>3, <1>7, <2>1
    <2>8. /\ HeapInv' /\ DOMAIN heap' \subseteq DOMAIN h
          /\ \A g \in DOMAIN heap' : heap'[g] = h[g]
      BY <1>1, <1>7, <2>1, <2>3, <2>4, <2>5, <2>6, <2>7, HeapStep
    <2> QED  BY <2>1, <2>8
  <1>9. Steps(thread[t])' /\ Holds(thread[t])' /\ About(thread[t])'
    <2>1. LocatedPages' = LocatedPages
      BY <1>5 DEF LocatedPages
    <2> QED  BY <1>1, <1>2, <1>3, <1>5, <1>6, <1>7, <2>1 DEF Steps, Holds, About
  <1>10. FrameInv'
    BY <1>1, <1>3, <1>5, <1>6, <1>7 DEF FrameInv, Others, At
  <1>11. /\ next_row_id' \in 0..MaxRows /\ next_row_id <= next_row_id'
         /\ ~At(t, "flush_write")' /\ ~At(t, "flush_write")
    BY <1>2, <1>5, <1>7, Facts DEF At
  <1>12. OpsOK(t)
    BY <1>1, <1>2, <1>7, OpsKeep
  <1>13. limit # 0
    <2>1. p \in LocatedPages
      BY <1>1, <1>2, <1>3 DEF About, LocatedPages
    <2>2. RowsOf(p) # {} /\ p \in PageIds
      BY <1>1, <2>1, RowsAreSomewhere DEF LocatedPages
    <2> QED  BY <1>1, <1>2, <2>2 DEF NoLimitInv
  <1> QED  BY <1>3, <1>5, <1>7, <1>8, <1>9, <1>10, <1>11, <1>12, <1>13, QuietStep

\* A page that is nowhere ends the operation, and changes nothing.
LEMMA FetchFailKeeps ==
  ASSUME PageInv, NEW t \in Threads, FetchFail(t)
  PROVE  PageInv'
  <1> DEFINE w == thread[t]
  <1>1. /\ StoreInv /\ ThreadInv /\ FrameInv
        /\ w \in ThreadState /\ thread \in [Threads -> ThreadState]
        /\ Steps(w) /\ Holds(w) /\ About(w)
    BY Facts
  <1>2. w.pc = "fetch"
    BY DEF FetchFail, At
  <1>3. w.op \in {"write", "vacuum"} /\ w.victim = None /\ w.head = {}
    BY <1>1, <1>2 DEF Steps, Holds, ThreadState
  <1>4. /\ thread' = [thread EXCEPT ![t] = IF w.op = "vacuum" /\ w.left = 2
                                           THEN [w EXCEPT !.pc = "vacuum"] ELSE Idle]
        /\ UNCHANGED <<limit, row_space, row_locations, next_page_id, next_row_id,
                       memory_used, disk, on_disk_pages, image, truth, unsaved, torn>>
        /\ SetHeap(heap)
    BY DEF FetchFail
  <1>5. \/ thread'[t] = Idle
        \/ /\ w.op = "vacuum" /\ thread'[t] = [w EXCEPT !.pc = "vacuum"]
    BY <1>1, <1>4
  <1>6. thread' \in [Threads -> ThreadState] /\ Others(t)
    <2>1. [w EXCEPT !.pc = "vacuum"] \in ThreadState
      BY <1>1 DEF ThreadState, PCs
    <2> QED  BY <1>1, <1>4, <2>1, IdleFacts DEF Others
  <1>7. /\ thread'[t].pc \in {"idle", "vacuum"} /\ thread'[t].op \in {"none", w.op}
        /\ thread'[t].op # "insert"
        /\ thread'[t].frame \in {None, w.frame} /\ thread'[t].victim = None
        /\ thread'[t].head = {}
    BY <1>1, <1>3, <1>5, IdleFacts DEF ThreadState
  <1>8. t \in Workers => thread'[t].frame = None
    <2>1. t \in Workers => w.op # "vacuum"
      BY <1>1 DEF ThreadInv
    <2> QED  BY <1>5, <2>1, IdleFacts
  <1>9. HeapInv' /\ \A f \in DOMAIN heap \cap DOMAIN heap' : heap'[f] = heap[f]
    <2>1. w.frame # None => w.frame \in DOMAIN heap
      BY Facts
    <2> QED  BY <1>4, <1>6, <1>7, <2>1, HeapQuiet
  <1>10. Steps(thread[t])' /\ Holds(thread[t])' /\ About(thread[t])'
    <2>1. LocatedPages' = LocatedPages
      BY <1>4 DEF LocatedPages
    <2>2. CASE thread'[t] = Idle
      BY <2>2, IdleOK
    <2>3. CASE w.op = "vacuum" /\ thread'[t] = [w EXCEPT !.pc = "vacuum"]
      <3>1. /\ thread'[t].pc = "vacuum" /\ thread'[t].op = w.op /\ thread'[t].frame = w.frame
            /\ thread'[t].victim = w.victim /\ thread'[t].head = w.head
            /\ thread'[t].todo = w.todo
        BY <1>1, <2>3 DEF ThreadState
      <3> QED  BY <1>1, <1>2, <1>3, <1>4, <2>1, <2>3, <3>1 DEF Steps, Holds, About
    <2> QED  BY <1>5, <2>2, <2>3
  <1>11. FrameInv'
    BY <1>1, <1>4, <1>6, <1>7, FramesKeep
  <1>12. /\ next_row_id' \in 0..MaxRows /\ next_row_id <= next_row_id'
         /\ ~At(t, "install")' /\ ~At(t, "flush_write")' /\ ~At(t, "flush_write")
    BY <1>2, <1>4, <1>7, Facts DEF At
  <1>13. OpsOK(t)
    BY <1>1, <1>2, <1>7, OpsKeep
  <1> QED  BY <1>3, <1>4, <1>6, <1>7, <1>8, <1>9, <1>10, <1>11, <1>12, <1>13, QuietStep

\* maybe_evict_pages has nothing left to do.
LEMMA EvictDoneKeeps ==
  ASSUME PageInv, NEW t \in Threads, EvictDone(t)
  PROVE  PageInv'
  <1> DEFINE w == thread[t]
             pc == IF w.op = "insert" THEN "place" ELSE Arrive(w.op)
  <1>1. /\ HeapInv /\ StoreInv /\ ThreadInv /\ FrameInv /\ NoLimitInv
        /\ w \in ThreadState /\ thread \in [Threads -> ThreadState]
        /\ Steps(w) /\ Holds(w) /\ About(w)
    BY Facts
  <1>2. w.pc = "evict"
    BY DEF EvictDone, At
  <1>3. /\ w.op \in {"insert", "write", "vacuum"} /\ w.victim = None /\ w.frame # None
        /\ pc = CASE w.op = "insert" -> "place" [] w.op = "write" -> "write"
                  [] w.op = "vacuum" -> "vacuum"
    BY <1>1, <1>2 DEF Steps, Holds, ThreadState, Arrive
  <1>4. /\ thread' = [thread EXCEPT ![t].pc = pc]
        /\ UNCHANGED <<limit, row_space, row_locations, next_page_id, next_row_id, heap,
                       memory_used, disk, on_disk_pages, image, truth, unsaved, torn>>
    BY DEF EvictDone, Goto, pagevars
  <1>5. /\ pc \in {"place", "write", "vacuum"} /\ (w.op = "insert" <=> pc = "place")
        /\ (w.op = "write" <=> pc = "write") /\ (w.op = "vacuum" <=> pc = "vacuum")
    BY <1>3
  <1> HIDE DEF pc
  <1>6. /\ thread' \in [Threads -> ThreadState] /\ Others(t)
        /\ thread'[t].pc = pc /\ thread'[t].frame = w.frame
        /\ thread'[t].op = w.op /\ thread'[t].row = w.row /\ thread'[t].txn = w.txn
        /\ thread'[t].page = w.page /\ thread'[t].victim = w.victim
        /\ thread'[t].victim_page = w.victim_page /\ thread'[t].head = w.head
        /\ thread'[t].todo = w.todo
    BY <1>1, <1>4, <1>5, ZenonT(40) DEF ThreadState, PCs, Others
  <1>7. HeapInv'
    <2>1. next_row_id \in Nat /\ next_row_id' \in Nat /\ next_row_id <= next_row_id'
      BY <1>4, Facts
    <2>2. {thread'[t].frame, thread'[t].victim} \subseteq DOMAIN heap \cup {None}
      BY <1>3, <1>6, Facts
    <2> QED  BY <1>1, <1>4, <1>6, <2>1, <2>2, HeapSame
  <1>8. Steps(thread[t])' /\ Holds(thread[t])' /\ About(thread[t])'
    <2>1. LocatedPages' = LocatedPages
      BY <1>4 DEF LocatedPages
    <2> QED  BY <1>1, <1>2, <1>3, <1>4, <1>5, <1>6, <2>1 DEF Steps, Holds, About
  <1>9. FrameInv'
    BY <1>1, <1>4, <1>5, <1>6, FramesKeep
  <1>10. /\ next_row_id' \in 0..MaxRows /\ next_row_id <= next_row_id'
         /\ ~At(t, "install")' /\ ~At(t, "flush_write")' /\ ~At(t, "flush_write")
    BY <1>2, <1>4, <1>5, <1>6, Facts DEF At
  <1>11. OpsOK(t)
    BY <1>1, <1>2, <1>6, OpsKeep
  <1>12. t \in Workers /\ limit = 0 /\ thread'[t].frame # None =>
            /\ thread'[t].page \in DOMAIN row_space
            /\ row_space[thread'[t].page] = thread'[t].frame
    BY <1>1, <1>6 DEF NoLimitInv
  <1>13. \A f \in DOMAIN heap \cap DOMAIN heap' : heap'[f] = heap[f]
    BY <1>4
  <1> QED  BY <1>4, <1>6, <1>7, <1>8, <1>9, <1>10, <1>11, <1>12, <1>13, QuietStep

\* An idle thread begins an operation: it holds no page yet.
LEMMA BeginKeeps ==
  ASSUME PageInv, NEW t \in Threads, At(t, "idle"), NEW w \in ThreadState,
         thread' = [thread EXCEPT ![t] = w],
         w.frame = None, w.victim = None, w.head = {},
         w.pc \notin {"install", "flush_write"},
         UNCHANGED <<limit, row_space, row_locations, next_page_id, heap,
                     memory_used, disk, on_disk_pages, image, truth, unsaved, torn>>,
         next_row_id' \in 0..MaxRows, next_row_id <= next_row_id',
         Steps(w)' /\ Holds(w)' /\ About(w)', OpsOK(t)
  PROVE  PageInv'
  <1>1. /\ HeapInv /\ StoreInv /\ ThreadInv /\ FrameInv
        /\ thread \in [Threads -> ThreadState]
    BY Facts
  <1>2. /\ thread[t].op = "none" /\ thread[t].frame = None /\ thread[t].victim = None
        /\ thread[t].head = {} /\ thread[t].pc = "idle"
    BY IdleHolds DEF At
  <1>3. thread' \in [Threads -> ThreadState] /\ Others(t) /\ thread'[t] = w
    BY <1>1 DEF Others
  <1>4. HeapInv'
    <2>1. next_row_id \in Nat /\ next_row_id' \in Nat /\ next_row_id <= next_row_id'
      BY PageAssumption, Facts
    <2> QED  BY <1>1, <1>2, <1>3, <2>1, HeapSame
  <1>5. FrameInv'
    BY <1>1, <1>2, <1>3, FramesKeep
  <1>6. Steps(thread[t])' /\ Holds(thread[t])' /\ About(thread[t])'
    BY <1>3
  <1>7. ~At(t, "install")' /\ ~At(t, "flush_write")' /\ ~At(t, "flush_write")
    BY <1>2, <1>3 DEF At
  <1>8. \A f \in DOMAIN heap \cap DOMAIN heap' : heap'[f] = heap[f]
    OBVIOUS
  <1> QED  BY <1>2, <1>3, <1>4, <1>5, <1>6, <1>7, <1>8, QuietStep

\* delete_row or update_row begins, on a row that is located.
LEMMA BeginWriteKeeps ==
  ASSUME PageInv, NEW t \in Workers, NEW r \in RowIds, NEW x \in TxnIds,
         BeginWrite(t, r, x)
  PROVE  PageInv'
  <1>0. PICK w : w = [Idle EXCEPT !.pc = "fetch", !.op = "write", !.row = r, !.txn = x,
                                  !.page = row_locations[r]]
    OBVIOUS
  <1>1. t \in Threads /\ StoreInv /\ ThreadInv
    BY Facts DEF Threads
  <1>2. /\ At(t, "idle") /\ ~Exclusive /\ r \in DOMAIN row_locations \cap DOMAIN truth
        /\ thread' = [thread EXCEPT ![t] = w]
        /\ UNCHANGED <<limit, row_space, row_locations, next_page_id, heap, next_row_id,
                     memory_used, disk, on_disk_pages, image, truth, unsaved, torn>>
    BY <1>0 DEF BeginWrite, pagevars
  <1>3. row_locations[r] \in Nat
    BY <1>1, <1>2, PageAssumption DEF StoreInv, LocatedPages
  <1>4. /\ w \in ThreadState /\ w.pc = "fetch" /\ w.op = "write" /\ w.row = r /\ w.txn = x
        /\ w.page = row_locations[r] /\ w.frame = None /\ w.victim = None
        /\ w.head = {} /\ w.todo = {}
    BY <1>0, <1>3, IdleFacts DEF ThreadState, PCs
  <1>5. Steps(w)' /\ Holds(w)' /\ About(w)'
    BY <1>2, <1>4 DEF Steps, Holds, About
  <1>6. thread'[t] = w
    BY <1>1, <1>2 DEF ThreadInv
  <1>7. OpsOK(t)
    BY <1>1, <1>2, <1>4, <1>6, PageAssumption DEF OpsOK, Exclusive
  <1>8. next_row_id' \in 0..MaxRows /\ next_row_id <= next_row_id'
    BY <1>1, <1>2, Facts
  <1> QED  BY <1>1, <1>2, <1>4, <1>5, <1>7, <1>8, BeginKeeps

\* insert_row begins, with a row id nobody else has.
LEMMA BeginInsertKeeps ==
  ASSUME PageInv, NEW t \in Workers, NEW x \in TxnIds, BeginInsert(t, x)
  PROVE  PageInv'
  <1>0. PICK r, c, l, w :
           /\ r = next_row_id + 1
           /\ c = IF RowSize[r] > PageSize THEN "register" ELSE "tail"
           /\ l = IF RowSize[r] > PageSize THEN Slots(r) ELSE 2
           /\ w = [Idle EXCEPT !.op = "insert", !.row = r, !.txn = x, !.pc = c, !.left = l]
    OBVIOUS
  <1>1. t \in Threads /\ StoreInv /\ ThreadInv
    BY Facts DEF Threads
  <1>2. /\ At(t, "idle") /\ ~Exclusive /\ r \in RowIds /\ next_row_id' = r
        /\ thread' = [thread EXCEPT ![t] = w]
        /\ UNCHANGED <<limit, row_space, row_locations, next_page_id, heap,
                     memory_used, disk, on_disk_pages, image, truth, unsaved, torn>>
    BY <1>0 DEF BeginInsert
  <1>3. Slots(r) \in Nat
    BY <1>2, SlotsPositive
  <1>4. l \in Int /\ c \in {"register", "tail"}
    BY <1>0, <1>3
  <1>5. /\ w \in ThreadState /\ w.pc \in {"register", "tail"} /\ w.op = "insert"
        /\ w.row = r /\ w.txn = x /\ w.frame = None /\ w.victim = None
        /\ w.head = {} /\ w.todo = {}
    BY <1>0, <1>2, <1>4, IdleFacts, ZenonT(40) DEF ThreadState, PCs
  <1>6. thread'[t] = w
    BY <1>1, <1>2 DEF ThreadInv
  <1>7. next_row_id \in Nat /\ MaxRows \in Nat /\ next_row_id' \in 0..MaxRows
        /\ next_row_id <= next_row_id' /\ r \in 1..next_row_id'
    BY <1>0, <1>1, <1>2, PageAssumption, Facts DEF RowIds
  <1>8. r \notin DOMAIN row_locations \cup DOMAIN truth
    BY <1>0, <1>1, <1>7 DEF StoreInv
  <1>9. Steps(w)' /\ Holds(w)' /\ About(w)'
    BY <1>2, <1>5, <1>7, <1>8 DEF Steps, Holds, About
  <1>10. OpsOK(t)
    <2>1. \A u \in Workers : thread[u].op = "insert" => thread[u].row # r
      BY <1>0, <1>1, <1>7 DEF ThreadInv, About, Threads
    <2> QED  BY <1>1, <1>2, <1>5, <1>6, <2>1, PageAssumption DEF OpsOK, Exclusive
  <1> QED  BY <1>1, <1>2, <1>5, <1>7, <1>9, <1>10, BeginKeeps

\* Table::prune begins once every statement is over.
LEMMA BeginVacuumKeeps ==
  ASSUME PageInv, BeginVacuum
  PROVE  PageInv'
  <1>0. PICK d, l, w : /\ d = LocatedPages /\ l = 1
                       /\ w = [Idle EXCEPT !.pc = "vacuum", !.op = "vacuum", !.left = l,
                                           !.todo = d]
    OBVIOUS
  <1>1. Vacuum \in Threads /\ StoreInv /\ ThreadInv
    BY Facts DEF Threads
  <1>2. /\ Quiet /\ thread' = [thread EXCEPT ![Vacuum] = w]
        /\ UNCHANGED <<limit, row_space, row_locations, next_page_id, heap, next_row_id,
                     memory_used, disk, on_disk_pages, image, truth, unsaved, torn>>
    BY <1>0 DEF BeginVacuum, pagevars
  <1>3. d \in SUBSET Nat /\ LocatedPages' = d
    BY <1>0, <1>1, <1>2, PageAssumption DEF StoreInv, LocatedPages
  <1>4. /\ w \in ThreadState /\ w.pc = "vacuum" /\ w.op = "vacuum"
        /\ w.frame = None /\ w.victim = None
        /\ w.head = {} /\ w.todo = d
    <2>1. /\ w.pc = "vacuum" /\ w.op = "vacuum" /\ w.frame = None /\ w.victim = None
          /\ w.head = {} /\ w.todo = d
      BY <1>0, IdleFacts DEF ThreadState
    <2>2. l \in Int /\ w = [Idle EXCEPT !.pc = "vacuum", !.op = "vacuum", !.left = l,
                                        !.todo = d]
      BY <1>0
    <2>3. w \in ThreadState
      BY <1>3, <2>2, IdleFacts DEF ThreadState, PCs
    <2> QED  BY <2>1, <2>3
  <1>5. Steps(w)' /\ Holds(w)' /\ About(w)'
    BY <1>2, <1>3, <1>4 DEF Steps, Holds, About
  <1>6. thread'[Vacuum] = w
    BY <1>1, <1>2 DEF ThreadInv
  <1>7. OpsOK(Vacuum)
    BY <1>1, <1>2, <1>4, <1>6, PageAssumption DEF OpsOK, Quiet, Threads
  <1>8. next_row_id' \in 0..MaxRows /\ next_row_id <= next_row_id' /\ At(Vacuum, "idle")
    BY <1>1, <1>2, Facts DEF Quiet
  <1> QED  BY <1>1, <1>2, <1>4, <1>5, <1>7, <1>8, BeginKeeps

\* flush_all_pages begins, beside the statements.
LEMMA BeginFlushKeeps ==
  ASSUME PageInv, BeginFlush
  PROVE  PageInv'
  <1>0. PICK w : w = [Idle EXCEPT !.pc = "flush_read", !.op = "flush"]
    OBVIOUS
  <1>1. Vacuum \in Threads /\ StoreInv /\ ThreadInv
    BY Facts DEF Threads
  <1>2. /\ At(Vacuum, "idle") /\ thread' = [thread EXCEPT ![Vacuum] = w]
        /\ UNCHANGED <<limit, row_space, row_locations, next_page_id, heap, next_row_id,
                     memory_used, disk, on_disk_pages, image, truth, unsaved, torn>>
    BY <1>0 DEF BeginFlush, pagevars
  <1>3. /\ w \in ThreadState /\ w.pc = "flush_read" /\ w.op = "flush"
        /\ w.frame = None /\ w.victim = None /\ w.head = {} /\ w.todo = {}
    BY <1>0, IdleFacts DEF ThreadState, PCs
  <1>4. Steps(w)' /\ Holds(w)' /\ About(w)'
    BY <1>2, <1>3 DEF Steps, Holds, About
  <1>5. thread'[Vacuum] = w
    BY <1>1, <1>2 DEF ThreadInv
  <1>6. OpsOK(Vacuum)
    BY <1>1, <1>2, <1>3, <1>5, PageAssumption DEF OpsOK
  <1>7. next_row_id' \in 0..MaxRows /\ next_row_id <= next_row_id'
    BY <1>1, <1>2, Facts
  <1> QED  BY <1>1, <1>2, <1>3, <1>4, <1>6, <1>7, BeginKeeps

\* A step that changes nothing that the invariant is about.
LEMMA StutterKeeps ==
  ASSUME PageInv, UNCHANGED <<limit, pagevars, thread, image, truth, unsaved, torn>>
  PROVE  PageInv'
  <1>1. \A p : RowsOf(p)' = RowsOf(p) /\ InFlight(p)' = InFlight(p)
    BY DEF RowsOf, InFlight, pagevars
  <1>2. \A r : Wanted(r)' = Wanted(r)
    BY DEF Wanted
  <1>3. \A P, p : Good(P, p)' <=> Good(P, p)
    BY <1>1, <1>2 DEF Good
  <1>4. \A p : OnDisk(p)' <=> OnDisk(p)
    BY <1>3 DEF OnDisk, pagevars
  <1>5. \A p : PageOK(p) => PageOK(p)'
    BY <1>1, <1>3, <1>4 DEF PageOK, ResidentOK, FlyingOK, ElsewhereOK, Clean, SpaceFree, pagevars
  <1>6. DataInv'
    BY <1>5 DEF PageInv, DataInv, pagevars
  <1>7. HeapInv' /\ StoreInv'
    BY DEF PageInv, HeapInv, StoreInv, Live, LocatedPages, pagevars
  <1>8. \A t \in Threads : Steps(thread[t])' /\ Holds(thread[t])' /\ About(thread[t])'
    <2>1. LocatedPages' = LocatedPages
      BY DEF LocatedPages, pagevars
    <2> QED  BY <2>1 DEF PageInv, ThreadInv, Steps, Holds, About, pagevars
  <1>9. ThreadInv' /\ FrameInv'
    BY <1>8 DEF PageInv, ThreadInv, FrameInv, At, Exclusive, pagevars
  <1>10. NoLimitInv'
    BY <1>1 DEF PageInv, NoLimitInv, At, pagevars
  <1> QED  BY <1>6, <1>7, <1>9, <1>10 DEF PageInv

\* A commit leaves the pages alone.
LEMMA CommitKeeps ==
  ASSUME PageInv, NEW x \in TxnIds, Commit(x)
  PROVE  PageInv'
  BY StutterKeeps DEF Commit

\* insert_row_into_page gives the tail page up, and the frame with it.
LEMMA TailFailedFacts ==
  ASSUME NEW w \in ThreadState
  PROVE  /\ TailFailed(w) \in ThreadState
         /\ TailFailed(w).pc \in {"tail", "register"} /\ TailFailed(w).frame = None
         /\ TailFailed(w).op = w.op /\ TailFailed(w).row = w.row
         /\ TailFailed(w).txn = w.txn /\ TailFailed(w).page = w.page
         /\ TailFailed(w).victim = w.victim /\ TailFailed(w).head = w.head
         /\ TailFailed(w).victim_page = w.victim_page /\ TailFailed(w).todo = w.todo
  <1>1. PICK l : l = 1
    OBVIOUS
  <1>2. PICK c : c = IF w.left = 2 THEN "tail" ELSE "register"
    OBVIOUS
  <1>3. TailFailed(w) = [w EXCEPT !.pc = c, !.left = l, !.frame = None]
    BY <1>1, <1>2 DEF TailFailed
  <1>4. l \in Int /\ c \in {"tail", "register"}
    BY <1>1, <1>2
  <1> QED  BY <1>3, <1>4 DEF ThreadState, PCs

\* The thread tries the tail again, or makes a page.
LEMMA TailFailedOK ==
  ASSUME PageInv, NEW t \in Threads, thread[t].op = "insert", thread[t].pc \in {"tail", "append"},
         thread'[t] = TailFailed(thread[t]),
         next_page_id' = next_page_id, next_row_id' = next_row_id,
         row_locations' = row_locations, truth' = truth
  PROVE  Steps(thread[t])' /\ Holds(thread[t])' /\ About(thread[t])'
  <1>1. thread[t] \in ThreadState /\ Steps(thread[t]) /\ Holds(thread[t]) /\ About(thread[t])
    BY Facts
  <1>2. LocatedPages' = LocatedPages
    BY DEF LocatedPages
  <1>3. /\ thread'[t].pc \in {"tail", "register"} /\ thread'[t].frame = None
        /\ thread'[t].op = thread[t].op /\ thread'[t].row = thread[t].row
        /\ thread'[t].txn = thread[t].txn /\ thread'[t].page = thread[t].page
        /\ thread'[t].victim = thread[t].victim /\ thread'[t].head = thread[t].head
        /\ thread'[t].todo = thread[t].todo
    BY <1>1, TailFailedFacts
  <1> QED  BY <1>1, <1>2, <1>3 DEF Steps, Holds, About

\* try_append_to_tail_page takes hold of the last resident page.
LEMMA FindTailKeeps ==
  ASSUME PageInv, NEW t \in Workers, FindTail(t)
  PROVE  PageInv'
  <1> DEFINE w == thread[t]
  <1>0. t \in Threads
    BY DEF Threads
  <1>1. /\ HeapInv /\ StoreInv /\ ThreadInv /\ FrameInv
        /\ w \in ThreadState /\ thread \in [Threads -> ThreadState]
        /\ Steps(w) /\ Holds(w) /\ About(w)
    BY <1>0, Facts
  <1>2. w.pc = "tail"
    BY DEF FindTail, At
  <1>3. w.op = "insert" /\ w.victim = None /\ w.frame = None
    BY <1>0, <1>1, <1>2 DEF ThreadInv, Steps, Holds, ThreadState
  <1>4. UNCHANGED <<limit, row_space, row_locations, next_page_id, next_row_id, heap,
                    memory_used, disk, on_disk_pages, image, truth, unsaved, torn>>
    BY DEF FindTail, pagevars
  <1>5. \/ thread' = [thread EXCEPT ![t] = TailFailed(w)]
        \/ \E p \in DOMAIN row_space :
              thread' = [thread EXCEPT ![t].pc = "append", ![t].page = p,
                                       ![t].frame = row_space[p]]
    BY <1>0, <1>1 DEF FindTail
  <1>6. /\ next_row_id \in Nat /\ next_row_id' \in Nat /\ next_row_id' \in 0..MaxRows
        /\ next_row_id <= next_row_id'
    BY <1>0, <1>4, Facts
  <1>7. \A f \in DOMAIN heap \cap DOMAIN heap' : heap'[f] = heap[f]
    BY <1>4
  <1>8. CASE thread' = [thread EXCEPT ![t] = TailFailed(w)]
    <2>1. thread' \in [Threads -> ThreadState] /\ Others(t) /\ thread'[t] = TailFailed(w)
      BY <1>0, <1>1, <1>8, TailFailedFacts DEF Others
    <2>2. /\ thread'[t].pc \in {"tail", "register"} /\ thread'[t].frame = None
          /\ thread'[t].op = w.op /\ thread'[t].row = w.row /\ thread'[t].txn = w.txn
          /\ thread'[t].victim = w.victim /\ thread'[t].head = w.head
      BY <1>1, <2>1, TailFailedFacts
    <2>3. Steps(thread[t])' /\ Holds(thread[t])' /\ About(thread[t])'
      BY <1>0, <1>2, <1>3, <1>4, <2>1, TailFailedOK
    <2>4. HeapInv'
      BY <1>0, <1>1, <1>3, <1>4, <1>6, <2>1, <2>2, HeapSame
    <2>5. FrameInv'
      BY <1>0, <1>1, <1>4, <2>1, <2>2, FramesKeep
    <2>6. OpsOK(t)
      BY <1>0, <1>1, <1>2, <2>2, OpsKeep
    <2>7. ~At(t, "install")' /\ ~At(t, "flush_write")' /\ ~At(t, "flush_write")
      BY <1>2, <2>2 DEF At
    <2> QED  BY <1>0, <1>3, <1>4, <1>6, <1>7, <2>1, <2>2, <2>3, <2>4, <2>5, <2>6, <2>7,
                QuietStep
  <1>9. ASSUME NEW p \in DOMAIN row_space,
               thread' = [thread EXCEPT ![t].pc = "append", ![t].page = p,
                                        ![t].frame = row_space[p]]
        PROVE  PageInv'
    <2>1. row_space[p] \in DOMAIN heap /\ row_space[p] \in Frames /\ row_space[p] # None
          /\ p \in 0..(next_page_id - 1) /\ p \in Nat
      BY <1>0, <1>1, Facts DEF StoreInv
    <2>2. /\ thread' \in [Threads -> ThreadState] /\ Others(t)
          /\ thread'[t].pc = "append" /\ thread'[t].frame = row_space[p]
          /\ thread'[t].op = w.op /\ thread'[t].row = w.row /\ thread'[t].txn = w.txn
          /\ thread'[t].page = p /\ thread'[t].victim = w.victim
          /\ thread'[t].head = w.head /\ thread'[t].todo = w.todo
      BY <1>0, <1>1, <1>9, <2>1, ZenonT(40) DEF ThreadState, PCs, Others
    <2>3. Steps(thread[t])' /\ Holds(thread[t])' /\ About(thread[t])'
      BY <1>1, <1>2, <1>3, <1>4, <2>1, <2>2 DEF Steps, Holds, About
    <2>4. HeapInv'
      BY <1>0, <1>1, <1>3, <1>4, <1>6, <2>1, <2>2, HeapSame
    <2>5. FrameInv'
      BY <1>0, <1>1, <1>4, <2>1, <2>2, FramesKeep
    <2>6. OpsOK(t)
      BY <1>0, <1>1, <1>2, <2>2, OpsKeep
    <2>7. ~At(t, "install")' /\ ~At(t, "flush_write")' /\ ~At(t, "flush_write")
      BY <1>2, <2>2 DEF At
    <2> QED  BY <1>0, <1>3, <1>4, <1>6, <1>7, <2>2, <2>3, <2>4, <2>5, <2>6, <2>7,
                QuietStep
  <1> QED  BY <1>5, <1>8, <1>9

\* The vacuum asks for its next page.
LEMMA VacuumNextKeeps ==
  ASSUME PageInv, VacuumNext
  PROVE  PageInv'
  <1> DEFINE t == Vacuum
             w == thread[t]
  <1>0. t \in Threads
    BY DEF Threads
  <1>1. /\ HeapInv /\ StoreInv /\ ThreadInv /\ FrameInv
        /\ w \in ThreadState /\ thread \in [Threads -> ThreadState]
        /\ Steps(w) /\ Holds(w) /\ About(w)
    BY <1>0, Facts
  <1>2. w.pc = "vacuum"
    BY DEF VacuumNext, At
  <1>3. w.op = "vacuum" /\ w.victim = None /\ w.head = {}
    BY <1>1, <1>2 DEF Steps, Holds, ThreadState
  <1>4. PICK p \in w.todo :
          thread' = [thread EXCEPT ![t].pc = "fetch", ![t].page = p, ![t].todo = @ \ {p}]
    BY DEF VacuumNext
  <1>5. UNCHANGED <<limit, row_space, row_locations, next_page_id, next_row_id, heap,
                    memory_used, disk, on_disk_pages, image, truth, unsaved, torn>>
    BY DEF VacuumNext, pagevars
  <1>6. p \in LocatedPages /\ p \in Nat /\ w.todo \subseteq LocatedPages
    BY <1>1, <1>3 DEF Holds, ThreadState
  <1>7. /\ thread' \in [Threads -> ThreadState] /\ Others(t)
        /\ thread'[t].pc = "fetch" /\ thread'[t].frame = w.frame
        /\ thread'[t].op = w.op /\ thread'[t].page = p /\ thread'[t].victim = w.victim
        /\ thread'[t].head = w.head /\ thread'[t].todo = w.todo \ {p}
    BY <1>0, <1>1, <1>4, <1>6 DEF ThreadState, PCs, Others
  <1>8. Steps(thread[t])' /\ Holds(thread[t])' /\ About(thread[t])'
    <2>1. LocatedPages' = LocatedPages
      BY <1>5 DEF LocatedPages
    <2> QED  BY <1>1, <1>2, <1>3, <1>5, <1>6, <1>7, <2>1 DEF Steps, Holds, About
  <1>9. /\ next_row_id \in Nat /\ next_row_id' \in Nat /\ next_row_id' \in 0..MaxRows
        /\ next_row_id <= next_row_id'
    BY <1>0, <1>5, Facts
  <1>10. \A f \in DOMAIN heap \cap DOMAIN heap' : heap'[f] = heap[f]
    BY <1>5
  <1>11. HeapInv'
    <2>1. {thread'[t].frame, thread'[t].victim} \subseteq DOMAIN heap \cup {None}
      BY <1>0, <1>3, <1>7, Facts
    <2> QED  BY <1>0, <1>1, <1>3, <1>5, <1>7, <1>9, <2>1, HeapSame
  <1>12. FrameInv'
    BY <1>0, <1>1, <1>5, <1>7, FramesKeep
  <1>13. OpsOK(t)
    BY <1>0, <1>1, <1>2, <1>3, <1>7, OpsKeep
  <1>14. ~At(t, "install")' /\ ~At(t, "flush_write")' /\ ~At(t, "flush_write")
         /\ t \notin Workers
    BY <1>2, <1>7, PageAssumption DEF At
  <1> QED  BY <1>0, <1>3, <1>5, <1>7, <1>8, <1>9, <1>10, <1>11, <1>12, <1>13, <1>14, QuietStep

\* Where nobody holds a page for eviction before, one thread does now.
LEMMA EvictTakeKeeps ==
  ASSUME PageInv, NEW t \in Threads, EvictTake(t)
  PROVE  PageInv'
  <1> DEFINE w == thread[t]
  <1>1. /\ HeapInv /\ StoreInv /\ ThreadInv /\ FrameInv /\ DataInv
        /\ w \in ThreadState /\ thread \in [Threads -> ThreadState]
        /\ Steps(w) /\ Holds(w) /\ About(w)
    BY Facts
  <1>2. w.pc = "evict" /\ SpaceFree /\ limit # 0
    BY <1>1, PageAssumption DEF EvictTake, At, OverLimit, StoreInv
  <1>3. w.op \in {"insert", "write", "vacuum"} /\ w.victim = None /\ w.frame # None
    BY <1>1, <1>2 DEF Steps, Holds, ThreadState
  <1>4. PICK p \in PageIds :
          /\ p \in DOMAIN row_space
          /\ thread' = [thread EXCEPT ![t].pc = "flush", ![t].victim_page = p,
                                      ![t].victim = row_space[p]]
          /\ row_space' = Without(row_space, p)
    BY DEF EvictTake, pick_lru_victim, Evictable
  <1>5. UNCHANGED <<limit, heap, row_locations, next_page_id, next_row_id,
                   memory_used, disk, on_disk_pages, image, truth, unsaved, torn>>
    BY DEF EvictTake
  <1>6. row_space[p] \in DOMAIN heap /\ row_space[p] \in Frames /\ row_space[p] # None
        /\ p \in 0..(next_page_id - 1) /\ p \in Nat
    BY <1>1, <1>4, Facts DEF StoreInv
  <1>7. /\ thread' \in [Threads -> ThreadState] /\ Others(t)
        /\ thread'[t].pc = "flush" /\ thread'[t].frame = w.frame
        /\ thread'[t].op = w.op /\ thread'[t].row = w.row /\ thread'[t].txn = w.txn
        /\ thread'[t].page = w.page /\ thread'[t].victim = row_space[p]
        /\ thread'[t].victim_page = p
        /\ thread'[t].head = w.head /\ thread'[t].todo = w.todo
    BY <1>1, <1>4, <1>6, ZenonT(40) DEF ThreadState, PCs, Others
  <1>8. /\ DOMAIN row_space' = DOMAIN row_space \ {p}
        /\ \A q \in DOMAIN row_space' : row_space'[q] = row_space[q]
    BY <1>4 DEF Without
  <1>9. HeapInv'
    <2>1. \A u \in Threads \ {t} : thread'[u] = thread[u]
      BY <1>7 DEF Others
    <2>2. Live(row_space', thread') \ {None} = Live(row_space, thread) \ {None}
      <3>1. Live(row_space', thread') \subseteq Live(row_space, thread)
        BY <1>4, <1>7, <1>8, <2>1 DEF Live
      <3>2. \A f \in Live(row_space, thread) \ {None} : f \in Live(row_space', thread')
        BY <1>3, <1>4, <1>7, <1>8, <2>1 DEF Live
      <3> QED  BY <3>1, <3>2
    <2> QED  BY <1>1, <1>5, <2>2 DEF HeapInv
  <1>10. StoreInv'
    BY <1>1, <1>5, <1>8 DEF StoreInv, LocatedPages
  <1>11. ThreadInv'
    <2>1. LocatedPages' = LocatedPages
      BY <1>5 DEF LocatedPages
    <2>2. Steps(thread[t])' /\ Holds(thread[t])' /\ About(thread[t])'
      BY <1>1, <1>2, <1>3, <1>5, <1>6, <1>7, <2>1 DEF Steps, Holds, About
    <2>3. \A u \in Threads \ {t} : thread[u].op = "insert" =>
             thread[u].row \notin DOMAIN row_locations' \cup DOMAIN truth'
      BY <1>1, <1>5 DEF ThreadInv, About
    <2>4. next_page_id' \in Nat /\ next_page_id <= next_page_id'
          /\ next_row_id' \in Nat /\ next_row_id <= next_row_id'
      BY <1>5, Facts
    <2>5. \A u \in Threads \ {t} :
            Steps(thread[u])' /\ Holds(thread[u])' /\ About(thread[u])'
      BY <1>1, <1>5, <1>7, <2>3, <2>4, OthersKeep
    <2>6. OpsOK(t)
      BY <1>1, <1>2, <1>7, OpsKeep
    <2> QED  BY <1>1, <1>7, <2>2, <2>5, <2>6, ThreadStep
  <1>12. FrameInv'
    <2>1. \A q \in DOMAIN row_space' : row_space'[q] # row_space[p]
      BY <1>1, <1>4, <1>8 DEF StoreInv
    <2>2. \A u \in Threads : At(u, "install")' => u # t /\ At(u, "install")
                                /\ thread'[u] = thread[u]
      BY <1>7 DEF Others, At
    <2>3. \A u \in Threads : u # t => thread'[u] = thread[u]
      BY <1>7 DEF Others
    <2> QED  BY <1>1, <1>4, <1>7, <1>8, <2>1, <2>2, <2>3 DEF FrameInv
  <1>13. DataInv'
    <2> SUFFICES ASSUME torn = {} PROVE DataInv'
      BY <1>5 DEF DataInv
    <2>1. DOMAIN truth \subseteq DOMAIN row_locations /\ \A q \in PageIds : PageOK(q)
      BY <1>1 DEF DataInv
    <2>2. (\A q : RowsOf(q)' = RowsOf(q)) /\ (\A r : Wanted(r)' = Wanted(r))
      BY <1>5, <1>7, RowsKeep
    <2>3. SpaceFree'
      BY <1>2, <1>7 DEF SpaceFree, At, Others, Threads
    <2>4. \A u \in Threads : u # t => thread'[u] = thread[u]
      BY <1>7 DEF Others
    <2>5. InFlight(p) = {} /\ InFlight(p)' = {t}
      <3>1. InFlight(p) = {}
        BY <1>4, <2>1 DEF PageOK, ResidentOK
      <3> QED  BY <1>6, <1>7, <2>4, <3>1 DEF InFlight
    <2>6. \A q : q # p => InFlight(q)' = InFlight(q) /\ t \notin InFlight(q)
      BY <1>3, <1>7, <2>4 DEF InFlight
    <2>7. ASSUME NEW q \in PageIds, q # p PROVE PageOK(q)'
      <3>1. \A u \in InFlight(q) : heap'[thread'[u].victim] = heap[thread[u].victim]
        BY <1>5, <2>4, <2>6, <2>7 DEF InFlight
      <3>2. q \in DOMAIN row_space' <=> q \in DOMAIN row_space
        BY <1>8, <2>7
      <3>3. q \in DOMAIN row_space => heap'[row_space'[q]] = heap[row_space[q]]
        BY <1>5, <1>8, <2>7
      <3> QED  BY <1>2, <1>5, <2>1, <2>2, <2>3, <2>6, <2>7, <3>1, <3>2, <3>3, PageKeeps
    <2>8. PageOK(p)'
      <3>1. Good(heap[row_space[p]], p)
            /\ (Clean(heap[row_space[p]], p) => OnDisk(p))
        BY <1>2, <1>4, <2>1 DEF PageOK, ResidentOK
      <3>2. heap'[thread'[t].victim] = heap[row_space[p]]
        BY <1>5, <1>7
      <3>3. \A P : Good(P, p) => Good(P, p)'
        BY <2>2, GoodKeeps
      <3>4. OnDisk(p) => OnDisk(p)'
        BY <1>5, <3>3 DEF OnDisk
      <3>5. \A P : Clean(P, p)' => Clean(P, p)
        BY <1>5, <2>2 DEF Clean
      <3>6. FlyingOK(p)'
        BY <2>5, <3>1, <3>2, <3>3, <3>4, <3>5 DEF FlyingOK
      <3> QED  BY <1>8, <2>5, <3>6 DEF PageOK, ResidentOK, ElsewhereOK
    <2> QED  BY <1>5, <2>1, <2>7, <2>8 DEF DataInv
  <1>14. NoLimitInv'
    BY <1>2, <1>5 DEF NoLimitInv
  <1> QED  BY <1>9, <1>10, <1>11, <1>12, <1>13, <1>14 DEF PageInv

\* A page that is written is on disk as it was in memory; one that is not was
\* there already.
LEMMA FlushEvictKeeps ==
  ASSUME PageInv, NEW t \in Threads, flush_and_evict_page(t)
  PROVE  PageInv'
  <1> DEFINE w == thread[t]
  <1>1. /\ HeapInv /\ StoreInv /\ ThreadInv /\ FrameInv /\ DataInv /\ NoLimitInv
        /\ w \in ThreadState /\ thread \in [Threads -> ThreadState]
        /\ Steps(w) /\ Holds(w) /\ About(w)
    BY Facts
  <1>2. w.pc = "flush"
    BY DEF flush_and_evict_page, At
  <1>3. w.op \in {"insert", "write", "vacuum"} /\ w.victim # None /\ w.frame # None
    BY <1>1, <1>2 DEF Steps, Holds, ThreadState
  <1>4. PICK p, v : p = w.victim_page /\ v = heap[w.victim]
    OBVIOUS
  <1>5. /\ w.victim \in DOMAIN heap /\ v \in Page
        /\ DOMAIN v.rows \subseteq 1..next_row_id /\ w.frame \in DOMAIN heap
    BY <1>3, <1>4, Facts
  <1>6. /\ thread' = [thread EXCEPT ![t].pc = "evict", ![t].victim = None,
                                    ![t].victim_page = 0]
        /\ UNCHANGED <<limit, row_space, row_locations, next_page_id, next_row_id, image,
                       truth>>
        /\ SetHeap(heap) /\ memory_used' = untracked(v)
    BY <1>4 DEF flush_and_evict_page
  <1>7. \/ /\ NeedsWrite(p, v) /\ disk' = Put(disk, p, v)
           /\ on_disk_pages' = on_disk_pages \cup {p}
           /\ unsaved' = unsaved \ RowsOf(p)
           /\ torn' = torn \cup IF p \in DOMAIN row_space \/ InFlight(p) # {t}
                                THEN RowsOf(p) ELSE {}
        \/ /\ ~NeedsWrite(p, v) /\ torn' = torn \cup (unsaved \cap RowsOf(p))
           /\ UNCHANGED <<disk, on_disk_pages, unsaved>>
    BY <1>4 DEF flush_and_evict_page, merge_pages
  <1>8. /\ thread' \in [Threads -> ThreadState] /\ Others(t)
        /\ thread'[t].pc = "evict" /\ thread'[t].frame = w.frame
        /\ thread'[t].op = w.op /\ thread'[t].row = w.row /\ thread'[t].txn = w.txn
        /\ thread'[t].page = w.page /\ thread'[t].victim = None
        /\ thread'[t].head = w.head /\ thread'[t].todo = w.todo
    <2>1. PICK z : z = 0
      OBVIOUS
    <2>2. z \in Nat /\ thread' = [thread EXCEPT ![t].pc = "evict", ![t].victim = None,
                                                ![t].victim_page = z]
      BY <1>6, <2>1
    <2> QED  BY <1>1, <2>2 DEF ThreadState, PCs, Others
  <1>9. HeapInv' /\ \A f \in DOMAIN heap \cap DOMAIN heap' : heap'[f] = heap[f]
    BY <1>5, <1>6, <1>8, HeapQuiet
  <1>10. \A q : RowsOf(q) \subseteq RowIds
    BY <1>1, RowsAreSomewhere
  <1>11. StoreInv'
    <2>1. memory_used' \in 0..(Modulus - 1)
      <3>1. page_memory_bytes(v) \in Nat /\ Modulus \in Nat /\ Modulus > 0
            /\ memory_used \in Nat
        BY <1>1, <1>5, BytesNat, PageAssumption DEF StoreInv
      <3>2. page_memory_bytes(v) % Modulus \in 0..(Modulus - 1)
        BY <3>1
      <3>3. memory_used + Modulus - (page_memory_bytes(v) % Modulus) \in Nat
        BY <3>1, <3>2
      <3> QED  BY <1>6, <3>1, <3>3 DEF untracked
    <2>2. torn' \subseteq RowIds /\ unsaved' \subseteq RowIds
      BY <1>1, <1>7, <1>10 DEF StoreInv
    <2>3. /\ on_disk_pages' \subseteq DOMAIN disk'
          /\ \A q \in DOMAIN disk' :
                disk'[q] \in Page /\ DOMAIN disk'[q].rows \subseteq 1..next_row_id
      BY <1>1, <1>5, <1>7 DEF StoreInv, Put
    <2> QED  BY <1>1, <1>6, <2>1, <2>2, <2>3 DEF StoreInv, LocatedPages
  <1>12. ThreadInv'
    <2>1. LocatedPages' = LocatedPages
      BY <1>6 DEF LocatedPages
    <2>2. Steps(thread[t])' /\ Holds(thread[t])' /\ About(thread[t])'
      BY <1>1, <1>2, <1>3, <1>6, <1>8, <2>1 DEF Steps, Holds, About
    <2>3. \A u \in Threads \ {t} : thread[u].op = "insert" =>
             thread[u].row \notin DOMAIN row_locations' \cup DOMAIN truth'
      BY <1>1, <1>6 DEF ThreadInv, About
    <2>4. next_page_id' \in Nat /\ next_page_id <= next_page_id'
          /\ next_row_id' \in Nat /\ next_row_id <= next_row_id'
      BY <1>6, Facts
    <2>5. \A u \in Threads \ {t} :
            Steps(thread[u])' /\ Holds(thread[u])' /\ About(thread[u])'
      BY <1>1, <1>6, <1>8, <2>3, <2>4, OthersKeep
    <2>6. OpsOK(t)
      BY <1>1, <1>2, <1>8, OpsKeep
    <2> QED  BY <1>1, <1>8, <2>2, <2>5, <2>6, ThreadStep
  <1>13. FrameInv'
    BY <1>1, <1>6, <1>8, FramesKeep
  <1>14. DataInv'
    <2> SUFFICES ASSUME torn' = {} PROVE DataInv'
      BY DEF DataInv
    <2>1. torn = {}
      BY <1>7
    <2>2. DOMAIN truth \subseteq DOMAIN row_locations /\ \A q \in PageIds : PageOK(q)
      BY <1>1, <2>1 DEF DataInv
    <2>3. (\A q : RowsOf(q)' = RowsOf(q)) /\ (\A r : Wanted(r)' = Wanted(r))
      BY <1>6, <1>8, RowsKeep
    <2>4. SpaceFree' <=> SpaceFree
      BY <1>2, <1>8 DEF SpaceFree, At, Others, Threads
    <2>5. \A u \in Threads : u # t => thread'[u] = thread[u]
      BY <1>8 DEF Others
    <2>6. \A q : q # p => InFlight(q)' = InFlight(q) /\ t \notin InFlight(q)
      BY <1>4, <1>8, <2>5 DEF InFlight
    <2>7. t \in InFlight(p)
      BY <1>3, <1>4 DEF InFlight
    <2>8. p \in PageIds
      BY <1>1, <1>3, <1>4, PageAssumption DEF Holds, StoreInv, PageIds
    <2>9. ASSUME NEW q \in PageIds, q # p PROVE PageOK(q)'
      <3>1. \A u \in InFlight(q) : heap'[thread'[u].victim] = heap[thread[u].victim]
        <4> SUFFICES ASSUME NEW u \in InFlight(q)
                     PROVE  heap'[thread'[u].victim] = heap[thread[u].victim]
          OBVIOUS
        <4>1. u \in Threads /\ thread'[u] = thread[u] /\ thread[u].victim # None
          BY <2>5, <2>6, <2>9 DEF InFlight
        <4>2. thread[u].victim \in DOMAIN heap /\ thread[u].victim \in DOMAIN heap'
          BY <1>1, <1>9, <4>1 DEF HeapInv, Live
        <4> QED  BY <1>9, <4>1, <4>2
      <3>2. q \in DOMAIN row_space => heap'[row_space'[q]] = heap[row_space[q]]
        <4>1. q \in DOMAIN row_space => row_space[q] \in DOMAIN heap /\ row_space[q] # None
          BY Facts
        <4>2. q \in DOMAIN row_space => row_space[q] \in DOMAIN heap'
          BY <1>6, <1>9, <4>1 DEF HeapInv, Live
        <4> QED  BY <1>6, <1>9, <4>1, <4>2
      <3>3. RowsOf(q) \cap unsaved \subseteq unsaved'
        BY <1>1, <1>7, <2>9, RowsOnOnePage
      <3>4. (q \in DOMAIN disk' <=> q \in DOMAIN disk) /\ (q \in DOMAIN disk => disk'[q] = disk[q])
        BY <1>7, <2>9 DEF Put
      <3> QED  BY <1>6, <2>2, <2>3, <2>4, <2>6, <2>9, <3>1, <3>2, <3>3, <3>4, PageKeeps
    <2>10. PageOK(p)'
      <3>1. /\ InFlight(p) = {t} /\ Good(v, p) /\ (Clean(v, p) => OnDisk(p))
        BY <1>4, <2>2, <2>7, <2>8 DEF PageOK, FlyingOK
      <3>2. p \notin DOMAIN row_space
        BY <2>2, <2>7, <2>8 DEF PageOK, ResidentOK
      <3>3. InFlight(p)' = {}
        BY <1>8, <2>5, <3>1 DEF InFlight
      <3>4. \A P : Good(P, p) => Good(P, p)'
        BY <2>3, GoodKeeps
      <3>5. RowsOf(p) # {} => OnDisk(p)'
        <4>1. CASE NeedsWrite(p, v)
          <5>1. p \in DOMAIN disk' /\ disk'[p] = v
            BY <1>7, <4>1 DEF Put
          <5> QED  BY <3>1, <3>4, <5>1 DEF OnDisk
        <4>2. CASE ~NeedsWrite(p, v)
          <5>1. disk' = disk /\ unsaved \cap RowsOf(p) = {} /\ ~v.dirty
            BY <1>7, <4>2 DEF NeedsWrite
          <5>2. RowsOf(p) # {} => OnDisk(p)
            BY <3>1, <5>1 DEF Clean
          <5> QED  BY <3>4, <5>1, <5>2 DEF OnDisk
        <4> QED  BY <4>1, <4>2
      <3> QED  BY <1>6, <2>3, <3>2, <3>3, <3>5 DEF PageOK, ResidentOK, FlyingOK, ElsewhereOK
    <2> QED  BY <1>6, <2>2, <2>9, <2>10 DEF DataInv
  <1>15. NoLimitInv'
    BY <1>1, <1>3, <1>6 DEF NoLimitInv
  <1> QED  BY <1>9, <1>11, <1>12, <1>13, <1>14, <1>15 DEF PageInv

\* Copies that the step does not write are what they were.
LEMMA CopiesKeep ==
  ASSUME PageInv, HeapInv', \A f \in DOMAIN heap \cap DOMAIN heap' : heap'[f] = heap[f]
  PROVE  /\ \A q \in DOMAIN row_space \cap DOMAIN row_space' :
               row_space'[q] = row_space[q] => heap'[row_space'[q]] = heap[row_space[q]]
         /\ \A u \in Threads :
               thread'[u].victim = thread[u].victim /\ thread[u].victim # None
                  => heap'[thread'[u].victim] = heap[thread[u].victim]
  <1>1. HeapInv /\ StoreInv
    BY DEF PageInv
  <1>2. ASSUME NEW q \in DOMAIN row_space \cap DOMAIN row_space', row_space'[q] = row_space[q]
        PROVE  heap'[row_space'[q]] = heap[row_space[q]]
    <2>1. row_space[q] # None
      BY <1>1, FrameFacts DEF StoreInv
    <2>2. row_space[q] \in DOMAIN heap /\ row_space'[q] \in DOMAIN heap'
      BY <1>1, <1>2, <2>1 DEF HeapInv, Live
    <2> QED  BY <1>2, <2>2
  <1>3. ASSUME NEW u \in Threads,
               thread'[u].victim = thread[u].victim /\ thread[u].victim # None
        PROVE  heap'[thread'[u].victim] = heap[thread[u].victim]
    <2>1. thread[u].victim \in DOMAIN heap /\ thread'[u].victim \in DOMAIN heap'
      BY <1>1, <1>3 DEF HeapInv, Live
    <2> QED  BY <1>3, <2>1
  <1> QED  BY <1>2, <1>3

\* ensure_page_resident, second part: the copy that it makes resident is the
\* page's newest.
LEMMA InstallKeeps ==
  ASSUME PageInv, NEW t \in Threads, Install(t)
  PROVE  PageInv'
  <1> DEFINE w == thread[t]
  <1>1. /\ HeapInv /\ StoreInv /\ ThreadInv /\ FrameInv /\ DataInv /\ NoLimitInv
        /\ w \in ThreadState /\ thread \in [Threads -> ThreadState]
        /\ Steps(w) /\ Holds(w) /\ About(w)
    BY Facts
  <1>2. w.pc = "install" /\ SpaceFree
    BY DEF Install, At
  <1>3. /\ w.op \in {"write", "vacuum"} /\ w.victim = None /\ w.frame # None /\ w.head = {}
        /\ limit # 0
    BY <1>1, <1>2 DEF Steps, Holds, ThreadState, NoLimitInv, At
  <1>4. PICK p, f : p = w.page /\ f = w.frame
    OBVIOUS
  <1>5. /\ f \in DOMAIN heap /\ heap[f] \in Page /\ f \in Frames
        /\ DOMAIN heap[f].rows \subseteq 1..next_row_id /\ p \in Nat
    BY <1>1, <1>3, <1>4, Facts DEF ThreadState
  <1>6. p \in LocatedPages /\ RowsOf(p) # {} /\ p \in PageIds /\ p \in 0..(next_page_id - 1)
    <2>1. p \in LocatedPages
      BY <1>1, <1>2, <1>3, <1>4 DEF About, LocatedPages
    <2> QED  BY <1>1, <2>1, RowsAreSomewhere DEF LocatedPages
  <1>7. UNCHANGED <<limit, row_locations, next_page_id, next_row_id, disk,
                    on_disk_pages, image, truth, unsaved>> /\ SetHeap(heap)
    BY DEF Install
  <1>8. /\ next_row_id \in Nat /\ next_row_id' \in Nat /\ next_row_id' \in 0..MaxRows
        /\ next_row_id <= next_row_id' /\ next_page_id \in Nat
        /\ next_page_id' \in Nat /\ next_page_id <= next_page_id'
    BY <1>7, Facts
  <1>9. LocatedPages' = LocatedPages
    BY <1>7 DEF LocatedPages
  <1>10. \/ /\ p \in DOMAIN row_space
            /\ thread' = [thread EXCEPT ![t].pc = Arrive(w.op), ![t].frame = row_space[p]]
            /\ UNCHANGED <<row_space, memory_used, torn>>
         \/ /\ p \notin DOMAIN row_space
            /\ thread' = [thread EXCEPT ![t].pc = "evict"]
            /\ row_space' = Put(row_space, p, f)
            /\ memory_used' = (memory_used + page_memory_bytes(heap[f])) % Modulus
            /\ torn' = torn \cup IF InFlight(p) # {} \/ p \notin DOMAIN disk
                                    \/ disk[p] # heap[f]
                                 THEN RowsOf(p) ELSE {}
    BY <1>4 DEF Install, Goto
  <1>11. CASE p \in DOMAIN row_space
    <2>1. /\ thread' = [thread EXCEPT ![t].pc = Arrive(w.op), ![t].frame = row_space[p]]
          /\ UNCHANGED <<row_space, memory_used, torn>>
      BY <1>10, <1>11
    <2>2. Arrive(w.op) \in {"write", "vacuum"} /\ (w.op = "vacuum" <=> Arrive(w.op) = "vacuum")
      BY <1>3 DEF Arrive
    <2>3. row_space[p] \in Frames /\ row_space[p] \in DOMAIN heap /\ row_space[p] # None
      BY <1>11, Facts
    <2>4. /\ thread' \in [Threads -> ThreadState] /\ Others(t)
          /\ thread'[t].pc = Arrive(w.op) /\ thread'[t].frame = row_space[p]
          /\ thread'[t].op = w.op /\ thread'[t].row = w.row /\ thread'[t].txn = w.txn
          /\ thread'[t].page = p /\ thread'[t].victim = w.victim
          /\ thread'[t].head = w.head /\ thread'[t].todo = w.todo
      BY <1>1, <1>4, <2>1, <2>2, <2>3, ZenonT(40) DEF ThreadState, PCs, Others
    <2>5. HeapInv' /\ \A g \in DOMAIN heap \cap DOMAIN heap' : heap'[g] = heap[g]
      BY <1>3, <1>7, <2>1, <2>3, <2>4, HeapQuiet
    <2>6. Steps(thread[t])' /\ Holds(thread[t])' /\ About(thread[t])'
      BY <1>1, <1>2, <1>3, <1>4, <1>7, <1>9, <2>2, <2>3, <2>4 DEF Steps, Holds, About
    <2>7. FrameInv'
      BY <1>1, <1>3, <2>1, <2>2, <2>4, FramesKeep
    <2>8. ~At(t, "install")' /\ ~At(t, "flush_write")' /\ ~At(t, "flush_write")
      BY <1>2, <2>2, <2>4 DEF At
    <2>9. OpsOK(t)
      BY <1>1, <1>2, <2>4, OpsKeep
    <2> QED  BY <1>3, <1>7, <1>8, <2>1, <2>4, <2>5, <2>6, <2>7, <2>8, <2>9, QuietStep
  <1>12. CASE p \notin DOMAIN row_space
    <2>1. /\ thread' = [thread EXCEPT ![t].pc = "evict"]
          /\ row_space' = Put(row_space, p, f)
          /\ memory_used' = (memory_used + page_memory_bytes(heap[f])) % Modulus
          /\ torn' = torn \cup IF InFlight(p) # {} \/ p \notin DOMAIN disk
                                  \/ disk[p] # heap[f]
                               THEN RowsOf(p) ELSE {}
      BY <1>10, <1>12
    <2>2. /\ thread' \in [Threads -> ThreadState] /\ Others(t)
          /\ thread'[t].pc = "evict" /\ thread'[t].frame = f
          /\ thread'[t].op = w.op /\ thread'[t].row = w.row /\ thread'[t].txn = w.txn
          /\ thread'[t].page = p /\ thread'[t].victim = w.victim
          /\ thread'[t].victim_page = w.victim_page
          /\ thread'[t].head = w.head /\ thread'[t].todo = w.todo
      BY <1>1, <1>4, <2>1 DEF ThreadState, PCs, Others
    <2>3. /\ DOMAIN row_space' = DOMAIN row_space \cup {p} /\ row_space'[p] = f
          /\ \A q \in DOMAIN row_space : row_space'[q] = row_space[q]
      BY <1>12, <2>1 DEF Put
    <2>4. /\ \A q \in DOMAIN row_space : row_space[q] # f
          /\ \A u \in Threads : thread[u].victim # f
          /\ \A u \in Threads : u # t /\ At(u, "install") => thread[u].frame # f
      BY <1>1, <1>2, <1>4 DEF FrameInv, At
    <2>5. HeapInv' /\ \A g \in DOMAIN heap \cap DOMAIN heap' : heap'[g] = heap[g]
      <3>1. \A q \in DOMAIN row_space' : row_space'[q] \in DOMAIN heap
        BY <1>5, <2>3, Facts
      <3>2. DOMAIN heap \subseteq Frames /\ \A g \in DOMAIN heap :
               heap[g] \in Page /\ DOMAIN heap[g].rows \subseteq 1..next_row_id'
        BY <1>7, Facts
      <3> QED  BY <1>1, <1>3, <1>5, <1>7, <1>8, <2>2, <3>1, <3>2, HeapStep
    <2>6. StoreInv'
      <3>1. memory_used' \in 0..(Modulus - 1)
        <4>1. page_memory_bytes(heap[f]) \in Nat /\ Modulus \in Nat /\ Modulus > 0
              /\ memory_used \in Nat
          BY <1>1, <1>5, BytesNat, PageAssumption DEF StoreInv
        <4> QED  BY <2>1, <4>1
      <3>2. torn' \subseteq RowIds
        BY <1>1, <2>1, RowsAreSomewhere DEF StoreInv
      <3>3. /\ DOMAIN row_space' \subseteq 0..(next_page_id' - 1)
            /\ \A q \in DOMAIN row_space' : row_space'[q] \in Frames
            /\ \A a, b \in DOMAIN row_space' : row_space'[a] = row_space'[b] => a = b
        BY <1>1, <1>5, <1>6, <1>7, <2>3, <2>4 DEF StoreInv
      <3> QED  BY <1>1, <1>7, <1>9, <3>1, <3>2, <3>3 DEF StoreInv
    <2>7. ThreadInv'
      <3>1. Steps(thread[t])' /\ Holds(thread[t])' /\ About(thread[t])'
        BY <1>1, <1>2, <1>3, <1>4, <1>6, <1>7, <1>9, <2>2 DEF Steps, Holds, About
      <3>2. \A u \in Threads \ {t} : thread[u].op = "insert" =>
               thread[u].row \notin DOMAIN row_locations' \cup DOMAIN truth'
        BY <1>1, <1>7 DEF ThreadInv, About
      <3>3. \A u \in Threads \ {t} :
              Steps(thread[u])' /\ Holds(thread[u])' /\ About(thread[u])'
        BY <1>1, <1>7, <1>8, <2>2, <3>2, OthersKeep
      <3>4. OpsOK(t)
        BY <1>1, <1>2, <2>2, OpsKeep
      <3> QED  BY <1>1, <2>2, <3>1, <3>3, <3>4, ThreadStep
    <2>8. FrameInv'
      <3>1. \A u \in Threads : /\ thread'[u].victim = thread[u].victim
                               /\ thread'[u].frame = thread[u].frame
                               /\ At(u, "install")' => At(u, "install") /\ u # t
        BY <1>4, <2>2 DEF Others, At
      <3> QED  BY <1>1, <2>3, <2>4, <3>1 DEF FrameInv
    <2>9. DataInv'
      <3> SUFFICES ASSUME torn' = {} PROVE DataInv'
        BY DEF DataInv
      <3>1. torn = {} /\ InFlight(p) = {} /\ p \in DOMAIN disk /\ disk[p] = heap[f]
        BY <1>6, <2>1
      <3>2. DOMAIN truth \subseteq DOMAIN row_locations /\ \A q \in PageIds : PageOK(q)
        BY <1>1, <3>1 DEF DataInv
      <3>3. (\A q : RowsOf(q)' = RowsOf(q)) /\ (\A r : Wanted(r)' = Wanted(r))
        BY <1>7, <2>2, RowsKeep
      <3>4. SpaceFree'
        BY <1>2, <2>2 DEF SpaceFree, At, Others, Threads
      <3>5. \A u \in Threads : /\ thread'[u].victim = thread[u].victim
                               /\ thread'[u].victim_page = thread[u].victim_page
        BY <2>2 DEF Others
      <3>6. \A q : InFlight(q)' = InFlight(q)
        BY <3>5 DEF InFlight
      <3>7. ASSUME NEW q \in PageIds, q # p PROVE PageOK(q)'
        <4>1. \A u \in InFlight(q) : heap'[thread'[u].victim] = heap[thread[u].victim]
          BY <2>5, <3>5, CopiesKeep DEF InFlight
        <4>2. q \in DOMAIN row_space' <=> q \in DOMAIN row_space
          BY <2>3, <3>7
        <4>3. q \in DOMAIN row_space => heap'[row_space'[q]] = heap[row_space[q]]
          BY <2>3, <2>5, <4>2, CopiesKeep
        <4> QED  BY <1>2, <1>7, <3>2, <3>3, <3>4, <3>6, <3>7, <4>1, <4>2, <4>3, PageKeeps
      <3>8. PageOK(p)'
        <4>1. OnDisk(p) /\ Good(heap[f], p)
          BY <1>6, <1>12, <3>1, <3>2 DEF PageOK, ElsewhereOK, OnDisk
        <4>2. \A P : Good(P, p) => Good(P, p)'
          BY <3>3, GoodKeeps
        <4>3. OnDisk(p)'
          BY <1>7, <4>1, <4>2 DEF OnDisk
        <4>4. heap'[row_space'[p]] = heap[f]
          <5>1. f \in DOMAIN heap'
            BY <1>3, <1>4, <2>2, <2>5 DEF HeapInv, Live
          <5> QED  BY <1>5, <2>3, <2>5, <5>1
        <4>5. p \in DOMAIN row_space' /\ InFlight(p)' = {}
          BY <2>3, <3>1, <3>6
        <4> QED  BY <3>4, <4>1, <4>2, <4>3, <4>4, <4>5
                 DEF PageOK, ResidentOK, FlyingOK, ElsewhereOK
      <3> QED  BY <1>7, <3>2, <3>7, <3>8 DEF DataInv
    <2>10. NoLimitInv'
      BY <1>3, <1>7 DEF NoLimitInv
    <2> QED  BY <2>5, <2>6, <2>7, <2>8, <2>9, <2>10 DEF PageInv
  <1> QED  BY <1>11, <1>12

\* A new page has no rows, so there is nothing that it could lack.
LEMMA RegisterKeeps ==
  ASSUME PageInv, NEW t \in Workers, register_page(t)
  PROVE  PageInv'
  <1> DEFINE w == thread[t]
  <1>0. t \in Threads
    BY DEF Threads
  <1>1. /\ HeapInv /\ StoreInv /\ ThreadInv /\ FrameInv /\ DataInv /\ NoLimitInv
        /\ w \in ThreadState /\ thread \in [Threads -> ThreadState]
        /\ Steps(w) /\ Holds(w) /\ About(w)
    BY <1>0, Facts
  <1>2. w.pc = "register" /\ SpaceFree
    BY DEF register_page, At
  <1>3. w.op = "insert" /\ w.victim = None /\ w.frame = None
    BY <1>0, <1>1, <1>2 DEF ThreadInv, Steps, Holds, ThreadState
  <1>4. PICK n : n = next_page_id
    OBVIOUS
  <1>5. PICK f \in Frames :
          /\ f \notin Live(row_space, thread)
          /\ row_space' = Put(row_space, n, f)
          /\ thread' = [thread EXCEPT ![t].pc = "evict", ![t].frame = f, ![t].page = n]
          /\ SetHeap(Put(heap, f, EmptyPage))
    BY <1>4 DEF register_page, NewFrame
  <1>6. /\ n \in PageIds /\ next_page_id' = n + 1
        /\ memory_used' = (memory_used + page_memory_bytes(EmptyPage)) % Modulus
        /\ UNCHANGED <<limit, row_locations, next_row_id, disk, on_disk_pages, image,
                       truth, unsaved, torn>>
    BY <1>4 DEF register_page
  <1>7. /\ f # None /\ f \notin DOMAIN heap
        /\ \A q \in DOMAIN row_space : row_space[q] # f
        /\ \A u \in Threads : thread[u].frame # f /\ thread[u].victim # f
    BY <1>1, <1>5, FrameFacts DEF HeapInv, Live
  <1>8. /\ n \in Nat /\ n + 1 \in 0..MaxPages /\ n \notin 0..(n - 1) /\ n \in 0..n
        /\ 0..(n - 1) \subseteq 0..(n + 1 - 1) /\ next_page_id' \in Nat
        /\ next_page_id <= next_page_id' /\ next_page_id \in Nat
        /\ next_row_id \in Nat /\ next_row_id' \in Nat /\ next_row_id <= next_row_id'
    <2>1. next_page_id \in Nat /\ next_row_id \in Nat /\ MaxPages \in Nat
      BY <1>0, Facts, PageAssumption
    <2> QED  BY <1>4, <1>6, <2>1 DEF PageIds
  <1>9. /\ n \notin DOMAIN row_space /\ RowsOf(n) = {} /\ InFlight(n) = {}
    <2>1. n \notin DOMAIN row_space
      BY <1>1, <1>4, <1>8 DEF StoreInv
    <2>2. RowsOf(n) = {}
      BY <1>1, <1>4, <1>8, RowsAreSomewhere
    <2>3. InFlight(n) = {}
      BY <1>1, <1>4, <1>8 DEF InFlight, ThreadInv, Holds
    <2> QED  BY <2>1, <2>2, <2>3
  <1>10. /\ DOMAIN row_space' = DOMAIN row_space \cup {n} /\ row_space'[n] = f
         /\ \A q \in DOMAIN row_space : row_space'[q] = row_space[q]
    BY <1>5, <1>9 DEF Put
  <1>11. /\ thread' \in [Threads -> ThreadState] /\ Others(t)
         /\ thread'[t].pc = "evict" /\ thread'[t].frame = f
         /\ thread'[t].op = w.op /\ thread'[t].row = w.row /\ thread'[t].txn = w.txn
         /\ thread'[t].page = n /\ thread'[t].victim = w.victim
         /\ thread'[t].victim_page = w.victim_page
         /\ thread'[t].head = w.head /\ thread'[t].todo = w.todo
    BY <1>0, <1>1, <1>5, <1>8, ZenonT(40) DEF ThreadState, PCs, Others
  <1>12. /\ HeapInv' /\ \A g \in DOMAIN heap \cap DOMAIN heap' : heap'[g] = heap[g]
         /\ heap'[f] = EmptyPage
    <2> DEFINE h == Put(heap, f, EmptyPage)
    <2>1. /\ DOMAIN h = DOMAIN heap \cup {f} /\ h[f] = EmptyPage
          /\ \A g \in DOMAIN heap : h[g] = heap[g]
      BY <1>7 DEF Put
    <2>2. SetHeap(h)
      BY <1>5
    <2> HIDE DEF h
    <2>3. \A q \in DOMAIN row_space' : row_space'[q] \in DOMAIN h
      BY <1>0, <1>10, <2>1, Facts
    <2>4. DOMAIN h \subseteq Frames /\ \A g \in DOMAIN h :
             h[g] \in Page /\ DOMAIN h[g].rows \subseteq 1..next_row_id'
      BY <1>0, <1>6, <2>1, EmptyIsPage, Facts
    <2>5. {thread'[t].frame, thread'[t].victim} \subseteq DOMAIN h \cup {None}
      BY <1>3, <1>11, <2>1
    <2>6. /\ HeapInv' /\ DOMAIN heap' \subseteq DOMAIN h
          /\ \A g \in DOMAIN heap' : heap'[g] = h[g]
          /\ thread'[t].frame \in DOMAIN heap'
      BY <1>0, <1>1, <1>7, <1>8, <1>11, <2>1, <2>2, <2>3, <2>4, <2>5, HeapStep
    <2> QED  BY <1>11, <2>1, <2>6
  <1>13. LocatedPages' = LocatedPages
    BY <1>6 DEF LocatedPages
  <1>14. StoreInv'
    <2>1. memory_used' \in 0..(Modulus - 1)
      <3>1. page_memory_bytes(EmptyPage) \in Nat /\ Modulus \in Nat /\ Modulus > 0
            /\ memory_used \in Nat
        BY <1>1, EmptyIsPage, BytesNat, PageAssumption DEF StoreInv
      <3> QED  BY <1>6, <3>1
    <2>2. next_page_id' \in 0..MaxPages /\ 0..(next_page_id - 1) \subseteq 0..(next_page_id' - 1)
          /\ n \in 0..(next_page_id' - 1)
      BY <1>4, <1>6, <1>8
    <2>3. /\ DOMAIN row_space' \subseteq 0..(next_page_id' - 1)
          /\ \A q \in DOMAIN row_space' : row_space'[q] \in Frames
          /\ \A a, b \in DOMAIN row_space' : row_space'[a] = row_space'[b] => a = b
      BY <1>1, <1>7, <1>10, <2>2 DEF StoreInv
    <2>4. LocatedPages' \subseteq 0..(next_page_id' - 1)
      BY <1>1, <1>13, <2>2 DEF StoreInv
    <2> QED  BY <1>1, <1>6, <2>1, <2>2, <2>3, <2>4 DEF StoreInv
  <1>15. ThreadInv'
    <2>1. n \in 0..(next_page_id' - 1) /\ 0..(next_page_id - 1) \subseteq 0..(next_page_id' - 1)
      BY <1>4, <1>6, <1>8
    <2>2. Steps(thread[t])' /\ Holds(thread[t])' /\ About(thread[t])'
      BY <1>1, <1>2, <1>3, <1>6, <1>7, <1>11, <1>13, <2>1 DEF Steps, Holds, About
    <2>3. \A u \in Threads \ {t} : thread[u].op = "insert" =>
             thread[u].row \notin DOMAIN row_locations' \cup DOMAIN truth'
      BY <1>1, <1>6 DEF ThreadInv, About
    <2>4. \A u \in Threads \ {t} :
            Steps(thread[u])' /\ Holds(thread[u])' /\ About(thread[u])'
      BY <1>0, <1>1, <1>6, <1>8, <1>11, <2>3, OthersKeep
    <2>5. OpsOK(t)
      BY <1>0, <1>1, <1>2, <1>11, OpsKeep
    <2> QED  BY <1>0, <1>1, <1>11, <2>2, <2>4, <2>5, ThreadStep
  <1>16. FrameInv'
    <2>1. \A u \in Threads : /\ thread'[u].victim = thread[u].victim
                             /\ At(u, "install")' => At(u, "install") /\ u # t
                                                    /\ thread'[u].frame = thread[u].frame
      BY <1>11 DEF Others, At
    <2> QED  BY <1>1, <1>7, <1>10, <2>1 DEF FrameInv
  <1>17. (\A q : RowsOf(q)' = RowsOf(q)) /\ (\A r : Wanted(r)' = Wanted(r))
    BY <1>0, <1>6, <1>11, RowsKeep
  <1>18. DataInv'
    <2> SUFFICES ASSUME torn = {} PROVE DataInv'
      BY <1>6 DEF DataInv
    <2>1. DOMAIN truth \subseteq DOMAIN row_locations /\ \A q \in PageIds : PageOK(q)
      BY <1>1 DEF DataInv
    <2>2. SpaceFree'
      BY <1>2, <1>11 DEF SpaceFree, At, Others, Threads
    <2>3. \A u \in Threads : /\ thread'[u].victim = thread[u].victim
                             /\ thread'[u].victim_page = thread[u].victim_page
      BY <1>11 DEF Others
    <2>4. \A q : InFlight(q)' = InFlight(q)
      BY <2>3 DEF InFlight
    <2>5. ASSUME NEW q \in PageIds, q # n PROVE PageOK(q)'
      <3>1. \A u \in InFlight(q) : heap'[thread'[u].victim] = heap[thread[u].victim]
        BY <1>12, <2>3, CopiesKeep DEF InFlight
      <3>2. q \in DOMAIN row_space' <=> q \in DOMAIN row_space
        BY <1>10, <2>5
      <3>3. q \in DOMAIN row_space => heap'[row_space'[q]] = heap[row_space[q]]
        BY <1>10, <1>12, <3>2, CopiesKeep
      <3> QED  BY <1>2, <1>6, <1>17, <2>1, <2>2, <2>4, <2>5, <3>1, <3>2, <3>3, PageKeeps
    <2>6. PageOK(n)'
      <3>1. RowsOf(n)' = {} /\ InFlight(n)' = {} /\ heap'[row_space'[n]] = EmptyPage
        BY <1>9, <1>10, <1>12, <1>17, <2>4
      <3>2. Good(EmptyPage, n)'
        BY <3>1, EmptyIsPage DEF Good
      <3> QED  BY <2>2, <3>1, <3>2 DEF PageOK, ResidentOK, FlyingOK, ElsewhereOK, Clean
    <2> QED  BY <1>6, <2>1, <2>5, <2>6 DEF DataInv
  <1>19. NoLimitInv'
    <2> SUFFICES ASSUME limit = 0 PROVE NoLimitInv'
      BY <1>6 DEF NoLimitInv
    <2>1. \A u \in Threads : u # t => thread'[u] = thread[u]
      BY <1>11 DEF Others
    <2>2. torn' = {} /\ \A u \in Threads : thread'[u].victim = None /\ ~At(u, "install")'
      BY <1>1, <1>3, <1>6, <1>11, <2>1 DEF NoLimitInv, At
    <2>3. \A p \in PageIds : RowsOf(p)' # {} => p \in DOMAIN row_space'
      BY <1>1, <1>10, <1>17 DEF NoLimitInv
    <2>4. \A u \in Workers : thread'[u].frame # None =>
              thread'[u].page \in DOMAIN row_space'
              /\ row_space'[thread'[u].page] = thread'[u].frame
      BY <1>1, <1>10, <1>11, <2>1 DEF NoLimitInv, Threads
    <2> QED  BY <2>2, <2>3, <2>4 DEF NoLimitInv
  <1> QED  BY <1>12, <1>14, <1>15, <1>16, <1>18, <1>19 DEF PageInv

\* What the copies of a row must hold, when the writes on it stay.
LEMMA WantedKeeps ==
  ASSUME NEW t \in Threads, Others(t), NEW s,
         s \in DOMAIN truth' => s \in DOMAIN truth /\ truth'[s] = truth[s],
         thread'[t].head # {} /\ thread'[t].row = s =>
            /\ thread[t].head # {} /\ thread[t].row = s
            /\ thread'[t].txn = thread[t].txn
  PROVE  Wanted(s)' \subseteq Wanted(s)
  <1>1. \A u \in Workers : thread'[u].head # {} /\ thread'[u].row = s =>
            /\ thread[u].head # {} /\ thread[u].row = s
            /\ thread'[u].txn = thread[u].txn
    BY DEF Others, Threads
  <1> SUFFICES ASSUME NEW v \in Wanted(s)' PROVE v \in Wanted(s)
    OBVIOUS
  <1>2. CASE s \in DOMAIN truth' /\ v = truth'[s]
    BY <1>2 DEF Wanted
  <1>3. CASE \E u \in Workers : thread'[u].head # {} /\ thread'[u].row = s
                                /\ v = {thread'[u].txn}
    BY <1>1, <1>3 DEF Wanted
  <1>4. (s \in DOMAIN truth' /\ v = truth'[s])
        \/ \E u \in Workers : thread'[u].head # {} /\ thread'[u].row = s
                                /\ v = {thread'[u].txn}
    BY DEF Wanted
  <1> QED  BY <1>2, <1>3, <1>4

\* A step that changes the resident copy of page p and marks it dirty.
LEMMA ResidentTouched ==
  ASSUME PageInv, torn = {}, NEW t \in Threads, Others(t), NEW p \in DOMAIN row_space,
         row_space' = row_space, disk' = disk, image' = image, unsaved' = unsaved,
         thread'[t].victim = None, thread[t].victim = None,
         SpaceFree' <=> SpaceFree,
         \A q \in DOMAIN row_space : q # p => heap'[row_space[q]] = heap[row_space[q]],
         \A u \in Threads : thread[u].victim # None =>
            heap'[thread[u].victim] = heap[thread[u].victim],
         \A q : q # p => RowsOf(q)' = RowsOf(q),
         \A q : q # p => \A s \in RowsOf(q) : Wanted(s)' \subseteq Wanted(s),
         Good(heap[row_space[p]], p)', heap'[row_space[p]].dirty = TRUE
  PROVE  \A q \in PageIds : PageOK(q)'
  <1>1. DataInv
    BY DEF PageInv
  <1>2. \A q \in PageIds : PageOK(q)
    BY <1>1 DEF DataInv
  <1>3. \A u \in Threads : /\ thread'[u].victim = thread[u].victim
                           /\ thread[u].victim # None => thread'[u] = thread[u]
    BY DEF Others
  <1>4. \A q : InFlight(q)' = InFlight(q)
    BY <1>3 DEF InFlight
  <1>5. ASSUME NEW q \in PageIds, q # p PROVE PageOK(q)'
    <2>1. \A u \in InFlight(q) : heap'[thread'[u].victim] = heap[thread[u].victim]
      BY <1>3 DEF InFlight
    <2>2. q \in DOMAIN row_space => heap'[row_space'[q]] = heap[row_space[q]]
      BY <1>5
    <2> QED  BY <1>2, <1>4, <1>5, <2>1, <2>2, PageKeeps
  <1>6. ASSUME p \in PageIds PROVE PageOK(p)'
    <2>1. InFlight(p)' = {}
      BY <1>2, <1>4, <1>6 DEF PageOK, ResidentOK
    <2>2. heap'[row_space'[p]].dirty = TRUE /\ Good(heap[row_space[p]], p)' /\ p \in DOMAIN row_space'
      OBVIOUS
    <2> QED  BY <2>1, <2>2 DEF PageOK, ResidentOK, FlyingOK, ElsewhereOK, Clean
  <1> QED  BY <1>5, <1>6

\* A thread that ends its operation without having changed anything.
LEMMA GiveUpKeeps ==
  ASSUME PageInv, NEW t \in Threads, thread[t].pc = "write",
         thread' = [thread EXCEPT ![t] = Idle], SetHeap(heap),
         UNCHANGED <<limit, row_space, row_locations, next_page_id, next_row_id,
                     memory_used, disk, on_disk_pages, image, truth, unsaved, torn>>
  PROVE  PageInv'
  <1>1. /\ StoreInv /\ ThreadInv /\ FrameInv /\ thread \in [Threads -> ThreadState]
        /\ Steps(thread[t]) /\ Holds(thread[t]) /\ thread[t] \in ThreadState
    BY Facts
  <1>2. thread[t].op = "write" /\ thread[t].head = {} /\ thread[t].victim = None
    BY <1>1 DEF Steps, Holds, ThreadState
  <1>3. thread' \in [Threads -> ThreadState] /\ Others(t) /\ thread'[t] = Idle
    BY <1>1, IdleFacts DEF Others
  <1>4. /\ thread'[t].frame = None /\ thread'[t].victim = None /\ thread'[t].head = {}
        /\ thread'[t].op = "none" /\ thread'[t].pc = "idle"
    BY <1>3, IdleFacts
  <1>5. HeapInv' /\ \A f \in DOMAIN heap \cap DOMAIN heap' : heap'[f] = heap[f]
    BY <1>3, <1>4, HeapQuiet
  <1>6. Steps(thread[t])' /\ Holds(thread[t])' /\ About(thread[t])'
    BY <1>3, IdleOK
  <1>7. FrameInv'
    BY <1>1, <1>3, <1>4, FramesKeep
  <1>8. OpsOK(t)
    BY <1>1, <1>4, OpsKeep
  <1>9. /\ next_row_id' \in 0..MaxRows /\ next_row_id <= next_row_id'
        /\ ~At(t, "install")' /\ ~At(t, "flush_write")' /\ ~At(t, "flush_write")
    BY <1>4, Facts DEF At
  <1> QED  BY <1>2, <1>3, <1>4, <1>5, <1>6, <1>7, <1>8, <1>9, QuietStep

\* delete_row and update_row change the resident copy, or a row is torn.
LEMMA WriteKeeps ==
  ASSUME PageInv, NEW t \in Workers, Write(t)
  PROVE  PageInv'
  <1> DEFINE w == thread[t]
  <1>0. t \in Threads
    BY DEF Threads
  <1>1. /\ HeapInv /\ StoreInv /\ ThreadInv /\ FrameInv /\ DataInv /\ NoLimitInv
        /\ w \in ThreadState /\ thread \in [Threads -> ThreadState]
        /\ Steps(w) /\ Holds(w) /\ About(w)
    BY <1>0, Facts
  <1>2. w.pc = "write"
    BY DEF Write, At
  <1>3. w.op = "write" /\ w.victim = None /\ w.frame # None /\ w.head = {}
    BY <1>0, <1>1, <1>2 DEF Steps, Holds, ThreadState
  <1>4. PICK p, f, r, x : p = w.page /\ f = w.frame /\ r = w.row /\ x = w.txn
    OBVIOUS
  <1>5. /\ f \in DOMAIN heap /\ heap[f] \in Page /\ f \in Frames
        /\ DOMAIN heap[f].rows \subseteq 1..next_row_id
        /\ r \in DOMAIN row_locations /\ r \in DOMAIN truth /\ row_locations[r] = p
        /\ x \in TxnIds /\ r \in RowsOf(p)
    BY <1>0, <1>1, <1>3, <1>4, Facts, RowsAreSomewhere DEF About
  <1>6. /\ thread' = [thread EXCEPT ![t] = Idle]
        /\ UNCHANGED <<limit, row_space, row_locations, next_page_id, next_row_id,
                       memory_used, disk, on_disk_pages, image, unsaved>>
    BY DEF Write
  <1>7. CASE r \notin DOMAIN heap[f].rows
    <2>1. SetHeap(heap) /\ UNCHANGED <<truth, torn>>
      BY <1>4, <1>7 DEF Write
    <2> QED  BY <1>0, <1>2, <1>6, <2>1, GiveUpKeeps
  <1>8. CASE r \in DOMAIN heap[f].rows
    <2> DEFINE h == [heap EXCEPT ![f].rows[r] = @ \cup {x}, ![f].dirty = TRUE]
    <2>1. /\ SetHeap(h) /\ truth' = [truth EXCEPT ![r] = @ \cup {x}]
          /\ torn' = torn \cup IF p \in DOMAIN row_space /\ row_space[p] = f
                               THEN {} ELSE {r}
      BY <1>4, <1>8 DEF Write, Tear
    <2>2. /\ DOMAIN h = DOMAIN heap /\ \A g \in DOMAIN heap : g # f => h[g] = heap[g]
          /\ h[f] \in Page /\ h[f].dirty = TRUE /\ DOMAIN h[f].rows = DOMAIN heap[f].rows
          /\ h[f].rows[r] = heap[f].rows[r] \cup {x}
          /\ \A s \in DOMAIN heap[f].rows : s # r => h[f].rows[s] = heap[f].rows[s]
      <3> DEFINE R == [heap[f].rows EXCEPT ![r] = @ \cup {x}]
      <3>1. /\ DOMAIN heap[f].rows \in SUBSET RowIds
            /\ heap[f].rows \in [DOMAIN heap[f].rows -> SUBSET TxnIds]
        BY <1>5, PageFacts
      <3>2. R \in [DOMAIN heap[f].rows -> SUBSET TxnIds]
        BY <1>5, <1>8, <3>1
      <3>3. /\ DOMAIN h = DOMAIN heap /\ \A g \in DOMAIN heap : g # f => h[g] = heap[g]
        OBVIOUS
      <3>4. h[f] = [heap[f] EXCEPT !.rows = R, !.dirty = TRUE]
        BY <1>5
      <3>5. /\ DOMAIN R = DOMAIN heap[f].rows /\ R[r] = heap[f].rows[r] \cup {x}
            /\ \A s \in DOMAIN heap[f].rows : s # r => R[s] = heap[f].rows[s]
        BY <1>8
      <3> HIDE DEF R, h
      <3>6. h[f] \in Page /\ h[f].rows = R /\ h[f].dirty = TRUE
        <4>1. PICK P, S, d : P = heap[f] /\ S = DOMAIN heap[f].rows /\ d = TRUE
          OBVIOUS
        <4>2. P \in Page /\ S \in SUBSET RowIds /\ R \in [S -> SUBSET TxnIds] /\ d \in BOOLEAN
          BY <1>5, <3>1, <3>2, <4>1
        <4>3. R \in UNION {[T -> SUBSET TxnIds] : T \in SUBSET RowIds}
          BY <4>2
        <4>4. /\ [P EXCEPT !.rows = R, !.dirty = d] \in Page
              /\ [P EXCEPT !.rows = R, !.dirty = d].rows = R
              /\ [P EXCEPT !.rows = R, !.dirty = d].dirty = d
          BY <4>2, <4>3 DEF Page
        <4>5. h[f] = [P EXCEPT !.rows = R, !.dirty = d]
          BY <3>4, <4>1, Zenon
        <4> QED  BY <4>1, <4>4, <4>5
      <3> QED  BY <3>3, <3>5, <3>6
    <2> HIDE DEF h
    <2>3. /\ DOMAIN truth' = DOMAIN truth /\ truth'[r] = truth[r] \cup {x}
          /\ \A s \in DOMAIN truth : s # r => truth'[s] = truth[s]
      BY <1>5, <2>1
    <2>4. /\ thread' \in [Threads -> ThreadState] /\ Others(t) /\ thread'[t] = Idle
      BY <1>0, <1>1, <1>6, IdleFacts DEF Others
    <2>5. /\ thread'[t].frame = None /\ thread'[t].victim = None /\ thread'[t].head = {}
          /\ thread'[t].op = "none" /\ thread'[t].pc = "idle"
      BY <2>4, IdleFacts
    <2>6. /\ next_row_id \in Nat /\ next_row_id' \in Nat /\ next_row_id <= next_row_id'
          /\ next_page_id' \in Nat /\ next_page_id <= next_page_id'
      BY <1>0, <1>6, Facts
    <2>7. /\ HeapInv' /\ \A g \in DOMAIN heap' : heap'[g] = h[g]
          /\ \A q \in DOMAIN row_space' : row_space'[q] \in DOMAIN heap'
          /\ \A u \in Threads : thread'[u].victim # None => thread'[u].victim \in DOMAIN heap'
          /\ DOMAIN heap' \subseteq DOMAIN heap
      <3>1. \A q \in DOMAIN row_space' : row_space'[q] \in DOMAIN h
        BY <1>0, <1>6, <2>2, Facts
      <3>2. DOMAIN h \subseteq Frames /\ DOMAIN heap \subseteq DOMAIN h
            /\ \A g \in DOMAIN h : h[g] \in Page /\ DOMAIN h[g].rows \subseteq 1..next_row_id'
        BY <1>0, <1>5, <1>6, <2>2, Facts
      <3>3. {thread'[t].frame, thread'[t].victim} \subseteq DOMAIN h \cup {None}
        BY <2>5
      <3> QED  BY <1>0, <1>1, <2>1, <2>2, <2>4, <2>6, <3>1, <3>2, <3>3, HeapStep
    <2>8. StoreInv'
      <3>1. torn' \subseteq RowIds
        BY <1>1, <1>5, <2>1, RowsAreSomewhere DEF StoreInv
      <3> QED  BY <1>1, <1>6, <2>3, <3>1 DEF StoreInv, LocatedPages
    <2>9. ThreadInv'
      <3>1. Steps(thread[t])' /\ Holds(thread[t])' /\ About(thread[t])'
        BY <1>0, <2>4, IdleOK
      <3>2. \A u \in Threads \ {t} : thread[u].op = "insert" =>
               thread[u].row \notin DOMAIN row_locations' \cup DOMAIN truth'
        BY <1>1, <1>6, <2>3 DEF ThreadInv, About
      <3>3. \A u \in Threads \ {t} :
              Steps(thread[u])' /\ Holds(thread[u])' /\ About(thread[u])'
        BY <1>0, <1>1, <1>6, <2>3, <2>4, <2>6, <3>2, OthersKeep
      <3>4. OpsOK(t)
        BY <1>0, <1>1, <1>2, <2>5, OpsKeep
      <3> QED  BY <1>0, <1>1, <2>4, <3>1, <3>3, <3>4, ThreadStep
    <2>10. FrameInv'
      BY <1>0, <1>1, <1>6, <2>4, <2>5, FramesKeep
    <2>11. \A q : RowsOf(q)' = RowsOf(q)
      BY <1>0, <1>3, <1>6, <2>4, <2>5, RowsKeep
    <2>12. DataInv'
      <3> SUFFICES ASSUME torn' = {} PROVE DataInv'
        BY DEF DataInv
      <3>1. torn = {} /\ p \in DOMAIN row_space /\ row_space[p] = f
        BY <2>1
      <3>2. DOMAIN truth \subseteq DOMAIN row_locations /\ \A q \in PageIds : PageOK(q)
        BY <1>1, <3>1 DEF DataInv
      <3>3. SpaceFree' <=> SpaceFree
        BY <1>2, <2>4, <2>5 DEF SpaceFree, At, Others, Threads
      <3>4. \A q \in DOMAIN row_space : q # p => heap'[row_space[q]] = heap[row_space[q]]
        <4> SUFFICES ASSUME NEW q \in DOMAIN row_space, q # p
                     PROVE  heap'[row_space[q]] = heap[row_space[q]]
          OBVIOUS
        <4>1. row_space[q] # f /\ row_space[q] \in DOMAIN heap'
          BY <1>1, <1>6, <2>7, <3>1 DEF StoreInv
        <4> QED  BY <2>2, <2>7, <4>1
      <3>5. \A u \in Threads : thread[u].victim # None =>
               heap'[thread[u].victim] = heap[thread[u].victim]
        <4> SUFFICES ASSUME NEW u \in Threads, thread[u].victim # None
                     PROVE  heap'[thread[u].victim] = heap[thread[u].victim]
          OBVIOUS
        <4>1. thread'[u] = thread[u] /\ thread[u].victim # f
          BY <1>1, <1>3, <2>4, <3>1 DEF Others, FrameInv
        <4>2. thread[u].victim \in DOMAIN heap'
          BY <2>7, <4>1
        <4> QED  BY <2>2, <2>7, <4>1, <4>2
      <3>6. \A s : s # r => Wanted(s)' \subseteq Wanted(s)
        BY <1>0, <2>3, <2>4, <2>5, WantedKeeps
      <3>7. \A q : q # p => \A s \in RowsOf(q) : Wanted(s)' \subseteq Wanted(s)
        BY <1>1, <1>5, <3>6, RowsOnOnePage
      <3>8. p \in PageIds
        BY <1>1, <1>5, RowsAreSomewhere
      <3>9. heap'[row_space[p]] = h[f]
        BY <1>6, <2>7, <3>1
      <3>10. Good(heap[row_space[p]], p)'
        <4>1. Good(heap[f], p)
          BY <3>1, <3>2, <3>8 DEF PageOK, ResidentOK
        <4>2. truth[r] \in Wanted(r)
          BY <1>5 DEF Wanted
        <4>3. heap[f].rows[r] = truth[r]
          BY <1>5, <4>1, <4>2 DEF Good
        <4>4. \A u \in Workers : ~(thread'[u].head # {} /\ thread'[u].row = r)
          <5>1. \A u \in Workers : thread[u].head # {} => thread[u].row # r
            BY <1>1, <1>5 DEF ThreadInv, About, Holds, Threads
          <5> QED  BY <2>4, <2>5, <5>1 DEF Others, Threads
        <4>5. \A v \in Wanted(r)' : v = truth[r] \cup {x}
          BY <1>5, <2>3, <4>4 DEF Wanted
        <4>6. DOMAIN h[f].rows \subseteq RowsOf(p)'
          BY <2>2, <2>11, <4>1 DEF Good
        <4>7. \A s \in RowsOf(p)' : \A v \in Wanted(s)' :
                 s \in DOMAIN h[f].rows /\ h[f].rows[s] = v
          <5> SUFFICES ASSUME NEW s \in RowsOf(p), NEW v \in Wanted(s)'
                       PROVE  s \in DOMAIN h[f].rows /\ h[f].rows[s] = v
            BY <2>11
          <5>1. CASE s = r
            BY <1>8, <2>2, <4>3, <4>5, <5>1
          <5>2. CASE s # r
            BY <2>2, <3>6, <4>1, <5>2 DEF Good
          <5> QED  BY <5>1, <5>2
        <4> QED  BY <3>9, <4>6, <4>7, <1>6 DEF Good
      <3>11. heap'[row_space[p]].dirty = TRUE
        BY <2>2, <3>9
      <3>12. \A q \in PageIds : PageOK(q)'
        BY <1>0, <1>3, <1>6, <2>4, <2>5, <2>11, <3>1, <3>3, <3>4, <3>5, <3>7, <3>10, <3>11,
           ResidentTouched
      <3> QED  BY <1>6, <2>3, <3>2, <3>12 DEF DataInv
    <2>13. NoLimitInv'
      <3>1. CASE limit = 0
        <4>1. torn' = torn /\ ~At(t, "install")'
          BY <1>1, <1>3, <1>4, <2>1, <2>5, <3>1 DEF NoLimitInv, At
        <4> QED  BY <1>0, <1>1, <1>6, <2>4, <2>5, <2>11, <4>1, NoLimitKeeps
      <3>2. CASE limit # 0
        BY <1>6, <3>2 DEF NoLimitInv
      <3> QED  BY <3>1, <3>2
    <2> QED  BY <2>7, <2>8, <2>9, <2>10, <2>12, <2>13 DEF PageInv
  <1> QED  BY <1>7, <1>8

\* The rows of every page when thread t puts its row on a page.
LEMMA RowPut ==
  ASSUME NEW t \in Workers, row_locations' = row_locations, thread[t].head = {},
         \A u \in Workers : u # t => thread'[u] = thread[u]
  PROVE  \A q, s : s \in RowsOf(q)' <=> \/ s \in RowsOf(q)
                                        \/ q \in thread'[t].head /\ s = thread'[t].row
  <1> TAKE q, s
  <1>1. s \in RowsOf(q)' <=>
           \/ s \in DOMAIN row_locations /\ row_locations[s] = q
           \/ \E u \in Workers : q \in thread'[u].head /\ s = thread'[u].row
    BY DEF RowsOf
  <1>2. s \in RowsOf(q) <=>
           \/ s \in DOMAIN row_locations /\ row_locations[s] = q
           \/ \E u \in Workers : q \in thread[u].head /\ s = thread[u].row
    BY DEF RowsOf
  <1>3. ASSUME NEW u \in Workers, q \in thread'[u].head, s = thread'[u].row
        PROVE  \/ \E v \in Workers : q \in thread[v].head /\ s = thread[v].row
               \/ q \in thread'[t].head /\ s = thread'[t].row
    BY <1>3
  <1>4. ASSUME NEW u \in Workers, q \in thread[u].head, s = thread[u].row
        PROVE  \E v \in Workers : q \in thread'[v].head /\ s = thread'[v].row
    BY <1>4
  <1> QED  BY <1>1, <1>2, <1>3, <1>4

\* insert_row puts its row on page p: on the resident copy, or the row is torn.
LEMMA PutRowKeeps ==
  ASSUME PageInv, NEW t \in Workers, NEW p, NEW f, NEW r, NEW x,
         p = thread[t].page, f = thread[t].frame, r = thread[t].row, x = thread[t].txn,
         thread[t].pc \in {"append", "place"}, thread[t].head = {},
         thread' \in [Threads -> ThreadState], Others(t),
         thread'[t].pc \in {"locate", "register"}, thread'[t].frame = None,
         thread'[t].head = {p}, thread'[t].op = thread[t].op, thread'[t].row = r,
         thread'[t].txn = x, thread'[t].victim = thread[t].victim,
         thread'[t].todo = thread[t].todo,
         SetHeap([heap EXCEPT ![f] = append(heap[f], r, x)]), Tear(p, f, r),
         UNCHANGED <<limit, row_space, row_locations, next_page_id, next_row_id,
                     memory_used, disk, on_disk_pages, image, truth, unsaved>>
  PROVE  PageInv'
  <1> DEFINE h == [heap EXCEPT ![f] = append(heap[f], r, x)]
  <1>0. t \in Threads
    BY DEF Threads
  <1>1. /\ HeapInv /\ StoreInv /\ ThreadInv /\ FrameInv /\ DataInv /\ NoLimitInv
        /\ thread[t] \in ThreadState
        /\ Steps(thread[t]) /\ Holds(thread[t]) /\ About(thread[t])
    BY <1>0, Facts
  <1>2. /\ thread[t].op = "insert" /\ thread[t].victim = None /\ f # None
        /\ thread'[t].op = "insert" /\ thread'[t].victim = None
    BY <1>0, <1>1 DEF ThreadInv, Steps, Holds, ThreadState
  <1>3. /\ r \in 1..next_row_id /\ r \notin DOMAIN row_locations /\ r \notin DOMAIN truth
        /\ x \in TxnIds /\ p \in 0..(next_page_id - 1)
    BY <1>1, <1>2 DEF About
  <1>4. p \in PageIds /\ r \in RowIds
    <2>1. next_page_id \in 0..MaxPages /\ next_row_id \in 0..MaxRows
      BY <1>1 DEF StoreInv
    <2>2. MaxPages \in Nat /\ MaxRows \in Nat
      BY PageAssumption
    <2> QED  BY <1>3, <2>1, <2>2 DEF PageIds, RowIds
  <1>5. f \in DOMAIN heap /\ heap[f] \in Page /\ f \in Frames
        /\ DOMAIN heap[f].rows \subseteq 1..next_row_id
    BY <1>0, <1>2, Facts
  <1>6. /\ DOMAIN h = DOMAIN heap /\ \A g \in DOMAIN heap : g # f => h[g] = heap[g]
        /\ h[f] \in Page /\ h[f].dirty = TRUE /\ DOMAIN h[f].rows = DOMAIN heap[f].rows \cup {r}
        /\ h[f].rows[r] = {x}
        /\ \A s \in DOMAIN heap[f].rows : s # r => h[f].rows[s] = heap[f].rows[s]
    <2>1. h[f] = append(heap[f], r, x) /\ DOMAIN h = DOMAIN heap
          /\ \A g \in DOMAIN heap : g # f => h[g] = heap[g]
      BY <1>5
    <2> DEFINE a == append(heap[f], r, x)
    <2>2. /\ a \in Page /\ a.dirty = TRUE /\ DOMAIN a.rows = DOMAIN heap[f].rows \cup {r}
          /\ a.rows[r] = {x}
          /\ \A s \in DOMAIN heap[f].rows : s # r => a.rows[s] = heap[f].rows[s]
      BY <1>3, <1>4, <1>5, AppendIsPage
    <2>3. h[f] = a
      BY <2>1
    <2> HIDE DEF h, a
    <2>4. /\ h[f] \in Page /\ h[f].dirty = TRUE /\ DOMAIN h[f].rows = DOMAIN heap[f].rows \cup {r}
          /\ h[f].rows[r] = {x}
          /\ \A s \in DOMAIN heap[f].rows : s # r => h[f].rows[s] = heap[f].rows[s]
      BY <2>2, <2>3
    <2> QED  BY <2>1, <2>4
  <1>7. SetHeap(h)
    OBVIOUS
  <1> HIDE DEF h
  <1>8. torn' = torn \cup IF p \in DOMAIN row_space /\ row_space[p] = f THEN {} ELSE {r}
    BY DEF Tear
  <1>9. /\ next_row_id \in Nat /\ next_row_id' \in Nat /\ next_row_id <= next_row_id'
        /\ next_page_id \in Nat /\ next_page_id' \in Nat /\ next_page_id <= next_page_id'
    BY <1>0, Facts
  <1>10. /\ HeapInv' /\ \A g \in DOMAIN heap' : heap'[g] = h[g]
         /\ \A q \in DOMAIN row_space' : row_space'[q] \in DOMAIN heap'
         /\ \A u \in Threads : thread'[u].victim # None => thread'[u].victim \in DOMAIN heap'
    <2>1. \A q \in DOMAIN row_space' : row_space'[q] \in DOMAIN h
      BY <1>0, <1>6, Facts
    <2>2. DOMAIN h \subseteq Frames /\ DOMAIN heap \subseteq DOMAIN h
          /\ \A g \in DOMAIN h : h[g] \in Page /\ DOMAIN h[g].rows \subseteq 1..next_row_id'
      BY <1>0, <1>3, <1>5, <1>6, Facts
    <2>3. {thread'[t].frame, thread'[t].victim} \subseteq DOMAIN h \cup {None}
      BY <1>2
    <2> QED  BY <1>0, <1>1, <1>7, <1>9, <2>1, <2>2, <2>3, HeapStep
  <1>11. StoreInv'
    <2>1. torn' \subseteq RowIds
      BY <1>1, <1>4, <1>8 DEF StoreInv
    <2> QED  BY <1>1, <2>1 DEF StoreInv, LocatedPages
  <1>12. ThreadInv'
    <2>1. Steps(thread[t])' /\ Holds(thread[t])' /\ About(thread[t])'
      <3>1. thread'[t].head \subseteq 0..(next_page_id' - 1) /\ \A a, b \in thread'[t].head : a = b
        BY <1>3
      <3> QED  BY <1>1, <1>2, <1>3, <3>1 DEF Steps, Holds, About
    <2>2. \A u \in Threads \ {t} : thread[u].op = "insert" =>
             thread[u].row \notin DOMAIN row_locations' \cup DOMAIN truth'
      BY <1>1 DEF ThreadInv, About
    <2>3. \A u \in Threads \ {t} :
            Steps(thread[u])' /\ Holds(thread[u])' /\ About(thread[u])'
      BY <1>0, <1>1, <1>9, <2>2, OthersKeep
    <2>4. OpsOK(t)
      BY <1>0, <1>1, OpsKeep
    <2> QED  BY <1>0, <1>1, <2>1, <2>3, <2>4, ThreadStep
  <1>13. FrameInv'
    BY <1>0, <1>1, <1>2, FramesKeep
  <1>14. /\ \A u \in Workers : u # t => thread'[u] = thread[u]
         /\ \A u \in Workers : thread[u].head # {} => thread[u].op = "insert"
         /\ \A u \in Workers : u # t /\ thread[u].op = "insert" => thread[u].row # r
    BY <1>1, <1>2 DEF Others, ThreadInv, Holds, Threads
  <1>15. /\ RowsOf(p)' = RowsOf(p) \cup {r}
         /\ \A q : q # p => RowsOf(q)' = RowsOf(q)
    <2>1. \A q, s : s \in RowsOf(q)' <=>
             s \in RowsOf(q) \/ (q \in thread'[t].head /\ s = thread'[t].row)
      BY <1>14, RowPut
    <2>2. \A q, s : s \in RowsOf(q)' <=> s \in RowsOf(q) \/ (q = p /\ s = r)
      BY <2>1
    <2>3. \A s : s \in RowsOf(p)' <=> s \in RowsOf(p) \cup {r}
      BY <2>2
    <2>4. ASSUME NEW q, q # p PROVE RowsOf(q)' = RowsOf(q)
      <3>1. \A s : s \in RowsOf(q)' <=> s \in RowsOf(q)
        BY <2>2, <2>4
      <3> QED  BY <3>1
    <2>5. RowsOf(p)' = RowsOf(p) \cup {r}
      BY <2>3
    <2> QED  BY <2>4, <2>5
  <1>16. \A s : s # r => Wanted(s)' \subseteq Wanted(s)
    BY <1>0, WantedKeeps
  <1>17. \A v \in Wanted(r)' : v = {x}
    BY <1>3, <1>14 DEF Wanted
  <1>18. \A q : r \notin RowsOf(q)
    BY <1>3, <1>14 DEF RowsOf
  <1>19. DataInv'
    <2> SUFFICES ASSUME torn' = {} PROVE DataInv'
      BY DEF DataInv
    <2>1. torn = {} /\ p \in DOMAIN row_space /\ row_space[p] = f
      BY <1>8
    <2>2. DOMAIN truth \subseteq DOMAIN row_locations /\ \A q \in PageIds : PageOK(q)
      BY <1>1, <2>1 DEF DataInv
    <2>3. SpaceFree' <=> SpaceFree
      BY DEF SpaceFree, At, Others, Threads
    <2>4. \A q \in DOMAIN row_space : q # p => heap'[row_space[q]] = heap[row_space[q]]
      <3> SUFFICES ASSUME NEW q \in DOMAIN row_space, q # p
                   PROVE  heap'[row_space[q]] = heap[row_space[q]]
        OBVIOUS
      <3>1. row_space[q] # f /\ row_space[q] \in DOMAIN heap' /\ row_space[q] \in DOMAIN heap
        BY <1>0, <1>1, <1>10, <2>1, Facts DEF StoreInv
      <3> QED  BY <1>6, <1>10, <3>1, ZenonT(40)
    <2>5. \A u \in Threads : thread[u].victim # None =>
             heap'[thread[u].victim] = heap[thread[u].victim]
      <3> SUFFICES ASSUME NEW u \in Threads, thread[u].victim # None
                   PROVE  heap'[thread[u].victim] = heap[thread[u].victim]
        OBVIOUS
      <3>1. thread'[u] = thread[u] /\ thread[u].victim # f
        BY <1>1, <1>2, <2>1 DEF Others, FrameInv
      <3>2. thread[u].victim \in DOMAIN heap' /\ thread[u].victim \in DOMAIN heap
        BY <1>10, <3>1, Facts
      <3> QED  BY <1>6, <1>10, <3>1, <3>2, ZenonT(40)
    <2>6. \A q : q # p => \A s \in RowsOf(q) : Wanted(s)' \subseteq Wanted(s)
      BY <1>16, <1>18
    <2>7. heap'[row_space[p]] = h[f]
      BY <1>10, <2>1
    <2>8. Good(heap[row_space[p]], p)'
      <3>1. Good(heap[f], p)
        BY <1>4, <2>1, <2>2 DEF PageOK, ResidentOK
      <3>2. DOMAIN h[f].rows \subseteq RowsOf(p)'
        BY <1>6, <1>15, <3>1 DEF Good
      <3>3. \A s \in RowsOf(p)' : \A v \in Wanted(s)' :
               s \in DOMAIN h[f].rows /\ h[f].rows[s] = v
        <4> SUFFICES ASSUME NEW s \in RowsOf(p)', NEW v \in Wanted(s)'
                     PROVE  s \in DOMAIN h[f].rows /\ h[f].rows[s] = v
          OBVIOUS
        <4>1. CASE s = r
          BY <1>6, <1>17, <4>1
        <4>2. CASE s # r
          <5>1. s \in RowsOf(p) /\ v \in Wanted(s)
            BY <1>15, <1>16, <4>2
          <5>2. s \in DOMAIN heap[f].rows /\ heap[f].rows[s] = v
            BY <3>1, <5>1 DEF Good
          <5> QED  BY <1>6, <4>2, <5>2
        <4> QED  BY <4>1, <4>2
      <3> QED  BY <2>7, <3>2, <3>3, SMTT(30) DEF Good
    <2>9. heap'[row_space[p]].dirty = TRUE
      BY <1>6, <2>7
    <2>10. \A q \in PageIds : PageOK(q)'
      BY <1>0, <1>2, <1>15, <2>1, <2>3, <2>4, <2>5, <2>6, <2>8, <2>9, ResidentTouched
    <2> QED  BY <2>2, <2>10 DEF DataInv
  <1>20. NoLimitInv'
    <2> SUFFICES ASSUME limit = 0 PROVE NoLimitInv'
      BY DEF NoLimitInv
    <2>1. \A u \in Threads : u # t => thread'[u] = thread[u]
      BY DEF Others
    <2>2. p \in DOMAIN row_space /\ row_space[p] = f
      BY <1>1, <1>2 DEF NoLimitInv
    <2>3. torn' = {} /\ \A u \in Threads : thread'[u].victim = None /\ ~At(u, "install")'
      BY <1>1, <1>2, <1>8, <2>1, <2>2 DEF NoLimitInv, At
    <2>4. \A q \in PageIds : RowsOf(q)' # {} => q \in DOMAIN row_space'
      BY <1>1, <1>15, <2>2 DEF NoLimitInv
    <2>5. \A u \in Workers : thread'[u].frame # None =>
              thread'[u].page \in DOMAIN row_space'
              /\ row_space'[thread'[u].page] = thread'[u].frame
      BY <1>1, <2>1 DEF NoLimitInv, Threads
    <2> QED  BY <2>3, <2>4, <2>5 DEF NoLimitInv
  <1> QED  BY <1>10, <1>11, <1>12, <1>13, <1>19, <1>20 DEF PageInv

\* try_append_to_tail_page appends, or gives the page up.
LEMMA AppendTailKeeps ==
  ASSUME PageInv, NEW t \in Workers, AppendTail(t)
  PROVE  PageInv'
  <1>0. t \in Threads
    BY DEF Threads
  <1>1. PICK w, p, f, r, x : /\ w = thread[t] /\ p = w.page /\ f = w.frame /\ r = w.row
                             /\ x = w.txn
    OBVIOUS
  <1>2. /\ HeapInv /\ StoreInv /\ ThreadInv /\ FrameInv
        /\ w \in ThreadState /\ thread \in [Threads -> ThreadState]
        /\ Steps(w) /\ Holds(w) /\ About(w)
    BY <1>0, <1>1, Facts
  <1>3. w.pc = "append" /\ UNCHANGED row_space
    BY <1>1 DEF AppendTail, At
  <1>4. w.op = "insert" /\ w.victim = None /\ w.frame # None /\ w.head = {}
    BY <1>0, <1>1, <1>2, <1>3 DEF ThreadInv, Steps, Holds, About, ThreadState
  <1>5. UNCHANGED <<limit, row_space, row_locations, next_page_id, next_row_id,
                    memory_used, disk, on_disk_pages, image, truth, unsaved>>
    BY DEF AppendTail
  <1>6. CASE has_room_for(heap[f], RowSize[r])
    <2>1. /\ thread' = [thread EXCEPT ![t].pc = "locate", ![t].head = {p}, ![t].frame = None]
          /\ SetHeap([heap EXCEPT ![f] = append(heap[f], r, x)]) /\ Tear(p, f, r)
      BY <1>1, <1>6 DEF AppendTail
    <2>2. /\ thread' \in [Threads -> ThreadState] /\ Others(t)
          /\ thread'[t].pc = "locate" /\ thread'[t].frame = None /\ thread'[t].head = {p}
          /\ thread'[t].op = w.op /\ thread'[t].row = w.row /\ thread'[t].txn = w.txn
          /\ thread'[t].victim = w.victim /\ thread'[t].todo = w.todo
      <3>1. {p} \in SUBSET Nat
        BY <1>1, <1>2 DEF ThreadState
      <3> QED  BY <1>0, <1>1, <1>2, <2>1, <3>1, ZenonT(40) DEF ThreadState, PCs, Others
    <2> QED  BY <1>1, <1>3, <1>4, <1>5, <2>1, <2>2, PutRowKeeps
  <1>7. CASE ~has_room_for(heap[f], RowSize[r])
    <2>1. thread' = [thread EXCEPT ![t] = TailFailed(w)] /\ SetHeap(heap) /\ torn' = torn
      BY <1>0, <1>1, <1>2, <1>7 DEF AppendTail
    <2>2. thread' \in [Threads -> ThreadState] /\ Others(t) /\ thread'[t] = TailFailed(w)
      BY <1>0, <1>2, <2>1, TailFailedFacts DEF Others
    <2>3. /\ thread'[t].pc \in {"tail", "register"} /\ thread'[t].frame = None
          /\ thread'[t].op = w.op /\ thread'[t].row = w.row /\ thread'[t].txn = w.txn
          /\ thread'[t].victim = w.victim /\ thread'[t].head = w.head
      BY <1>2, <2>2, TailFailedFacts
    <2>4. Steps(thread[t])' /\ Holds(thread[t])' /\ About(thread[t])'
      BY <1>0, <1>1, <1>3, <1>4, <1>5, <2>2, TailFailedOK
    <2>5. HeapInv' /\ \A g \in DOMAIN heap \cap DOMAIN heap' : heap'[g] = heap[g]
      BY <1>0, <1>4, <1>5, <2>1, <2>2, <2>3, HeapQuiet
    <2>6. FrameInv'
      BY <1>0, <1>1, <1>2, <1>5, <2>2, <2>3, FramesKeep
    <2>7. OpsOK(t)
      BY <1>0, <1>1, <1>2, <1>3, <2>3, OpsKeep
    <2>8. /\ ~At(t, "install")' /\ ~At(t, "flush_write")' /\ ~At(t, "flush_write")
          /\ next_row_id' \in 0..MaxRows /\ next_row_id <= next_row_id'
      BY <1>0, <1>1, <1>3, <1>5, <2>3, Facts DEF At
    <2> QED  BY <1>0, <1>1, <1>4, <1>5, <2>1, <2>2, <2>3, <2>4, <2>5, <2>6, <2>7, <2>8,
                QuietStep
  <1> QED  BY <1>6, <1>7

\* A step that keeps the rows of every copy of a page, and at most marks it dirty.
LEMMA PageKeepsRows ==
  ASSUME NEW p, PageOK(p), RowsOf(p)' = RowsOf(p),
         \A r \in RowsOf(p) : Wanted(r)' \subseteq Wanted(r),
         p \in DOMAIN row_space' <=> p \in DOMAIN row_space,
         p \in DOMAIN row_space =>
            /\ heap'[row_space'[p]].rows = heap[row_space[p]].rows
            /\ heap[row_space[p]].dirty => heap'[row_space'[p]].dirty,
         InFlight(p)' = InFlight(p),
         \A t \in InFlight(p) :
            /\ heap'[thread'[t].victim].rows = heap[thread[t].victim].rows
            /\ heap[thread[t].victim].dirty => heap'[thread'[t].victim].dirty,
         disk' = disk, unsaved' = unsaved, SpaceFree' <=> SpaceFree, image' = image
  PROVE  PageOK(p)'
  <1>1. \A P : Good(P, p) => Good(P, p)'
    BY GoodKeeps
  <1>2. \A P, Q : P.rows = Q.rows /\ Good(P, p) => Good(Q, p)
    BY DEF Good
  <1>3. OnDisk(p) => OnDisk(p)'
    BY <1>1 DEF OnDisk
  <1>4. ResidentOK(p)'
    <2> SUFFICES ASSUME p \in DOMAIN row_space PROVE ResidentOK(p)'
      BY DEF ResidentOK
    <2>1. PICK P, Q : P = heap[row_space[p]] /\ Q = heap'[row_space'[p]]
      OBVIOUS
    <2>2. Q.rows = P.rows /\ (P.dirty => Q.dirty)
      BY <2>1
    <2>3. /\ InFlight(p) = {} /\ Good(P, p)
          /\ SpaceFree /\ Clean(P, p) => OnDisk(p)
          /\ ~SpaceFree /\ ~P.dirty => p \in DOMAIN image /\ Good(image[p], p)
      BY <2>1 DEF PageOK, ResidentOK
    <2>4. Good(Q, p)'
      BY <1>1, <1>2, <2>2, <2>3
    <2>5. Clean(Q, p)' => Clean(P, p)
      BY <2>2 DEF Clean
    <2> QED  BY <1>1, <1>3, <2>1, <2>2, <2>3, <2>4, <2>5 DEF ResidentOK
  <1>5. FlyingOK(p)'
    <2> SUFFICES ASSUME NEW t \in InFlight(p)
                 PROVE  /\ InFlight(p)' = {t}
                        /\ Good(heap[thread[t].victim], p)'
                        /\ Clean(heap[thread[t].victim], p)' => OnDisk(p)'
      BY DEF FlyingOK
    <2>1. PICK P, Q : P = heap[thread[t].victim] /\ Q = heap'[thread'[t].victim]
      OBVIOUS
    <2>2. Q.rows = P.rows /\ (P.dirty => Q.dirty)
      BY <2>1
    <2>3. InFlight(p) = {t} /\ Good(P, p) /\ (Clean(P, p) => OnDisk(p))
      BY <2>1 DEF PageOK, FlyingOK
    <2>4. Good(Q, p)'
      BY <1>1, <1>2, <2>2, <2>3
    <2>5. Clean(Q, p)' => Clean(P, p)
      BY <2>2 DEF Clean
    <2> QED  BY <1>3, <2>1, <2>3, <2>4, <2>5
  <1>6. ElsewhereOK(p)'
    BY <1>3 DEF PageOK, ElsewhereOK
  <1> QED  BY <1>4, <1>5, <1>6 DEF PageOK

\* The page in frame f becomes a continuation page.
LEMMA MarkedPage ==
  ASSUME NEW P \in Page
  PROVE  LET Q == [P EXCEPT !.overflow = TRUE, !.used = PageSize, !.dirty = TRUE]
         IN  Q \in Page /\ Q.rows = P.rows /\ Q.dirty = TRUE
  <1>1. PageSize \in Nat
    BY PageAssumption
  <1>2. PICK d : d = TRUE
    OBVIOUS
  <1>3. d \in BOOLEAN
    BY <1>2
  <1> DEFINE Q == [P EXCEPT !.overflow = d, !.used = PageSize, !.dirty = d]
  <1>4. Q \in Page /\ Q.rows = P.rows /\ Q.dirty = d
    BY <1>1, <1>3 DEF Page
  <1> QED  BY <1>2, <1>4, Zenon

\* The end of insert_row: what was the row of an insert is a located row.
LEMMA LocateKeeps ==
  ASSUME PageInv, NEW t \in Workers, Locate(t)
  PROVE  PageInv'
  <1>0. t \in Threads
    BY DEF Threads
  <1>1. PICK w, r, x : w = thread[t] /\ r = w.row /\ x = w.txn
    OBVIOUS
  <1>2. /\ HeapInv /\ StoreInv /\ ThreadInv /\ FrameInv /\ DataInv /\ NoLimitInv
        /\ w \in ThreadState /\ thread \in [Threads -> ThreadState]
        /\ Steps(w) /\ Holds(w) /\ About(w)
    BY <1>0, <1>1, Facts
  <1>3. w.pc = "locate"
    BY <1>1 DEF Locate, At
  <1>4. w.op = "insert" /\ w.victim = None /\ w.frame = None
    BY <1>0, <1>1, <1>2, <1>3 DEF ThreadInv, Steps, Holds, ThreadState
  <1>5. PICK p \in w.head : row_locations' = Put(row_locations, r, p)
    BY <1>1 DEF Locate
  <1>6. /\ truth' = Put(truth, r, {x}) /\ thread' = [thread EXCEPT ![t] = Idle]
        /\ UNCHANGED <<limit, heap, row_space, next_page_id, next_row_id, memory_used,
                       disk, on_disk_pages, image, unsaved, torn>>
    BY <1>1 DEF Locate
  <1>7. /\ r \in 1..next_row_id /\ r \notin DOMAIN row_locations /\ r \notin DOMAIN truth
        /\ x \in TxnIds /\ p \in 0..(next_page_id - 1) /\ \A q \in w.head : q = p
    BY <1>1, <1>2, <1>4, <1>5 DEF About
  <1>8. /\ DOMAIN row_locations' = DOMAIN row_locations \cup {r} /\ row_locations'[r] = p
        /\ \A s \in DOMAIN row_locations : row_locations'[s] = row_locations[s]
        /\ DOMAIN truth' = DOMAIN truth \cup {r} /\ truth'[r] = {x}
        /\ \A s \in DOMAIN truth : truth'[s] = truth[s]
    BY <1>5, <1>6, <1>7 DEF Put
  <1>9. thread' \in [Threads -> ThreadState] /\ Others(t) /\ thread'[t] = Idle
    BY <1>0, <1>2, <1>6, IdleFacts DEF Others
  <1>10. /\ thread'[t].frame = None /\ thread'[t].victim = None /\ thread'[t].head = {}
         /\ thread'[t].op = "none" /\ thread'[t].pc = "idle"
    BY <1>9, IdleFacts
  <1>11. /\ next_row_id \in Nat /\ next_row_id' \in Nat /\ next_row_id <= next_row_id'
         /\ next_page_id \in Nat /\ next_page_id' \in Nat /\ next_page_id <= next_page_id'
    BY <1>0, <1>6, Facts
  <1>12. HeapInv'
    BY <1>0, <1>1, <1>2, <1>4, <1>6, <1>9, <1>10, <1>11, HeapSame
  <1>13. StoreInv'
    <2>1. LocatedPages' \subseteq 0..(next_page_id' - 1)
      BY <1>2, <1>6, <1>7, <1>8 DEF StoreInv, LocatedPages
    <2> QED  BY <1>2, <1>6, <1>7, <1>8, <2>1 DEF StoreInv
  <1>14. /\ \A u \in Workers : u # t => thread'[u] = thread[u]
         /\ \A u \in Workers : u # t /\ thread[u].op = "insert" => thread[u].row # r
         /\ \A u \in Threads \ {t} : thread[u].op = "insert" => u \in Workers
    BY <1>1, <1>2, <1>4, <1>9 DEF Others, ThreadInv, Threads
  <1>15. ThreadInv'
    <2>1. Steps(thread[t])' /\ Holds(thread[t])' /\ About(thread[t])'
      BY <1>0, <1>9, IdleOK
    <2>2. \A u \in Threads \ {t} : thread[u].op = "insert" =>
             thread[u].row \notin DOMAIN row_locations' \cup DOMAIN truth'
      BY <1>2, <1>8, <1>14 DEF ThreadInv, About
    <2>3. \A u \in Threads \ {t} :
            Steps(thread[u])' /\ Holds(thread[u])' /\ About(thread[u])'
      BY <1>0, <1>2, <1>8, <1>9, <1>11, <2>2, OthersKeep
    <2>4. OpsOK(t)
      BY <1>0, <1>1, <1>2, <1>3, <1>10, OpsKeep
    <2> QED  BY <1>0, <1>2, <1>9, <2>1, <2>3, <2>4, ThreadStep
  <1>16. FrameInv'
    BY <1>0, <1>1, <1>2, <1>6, <1>9, <1>10, FramesKeep
  <1>17. \A q : RowsOf(q)' = RowsOf(q)
    <2> TAKE q
    <2>1. \A s : s \in RowsOf(q)' <=>
             \/ s \in DOMAIN row_locations /\ row_locations[s] = q
             \/ s = r /\ q = p
             \/ \E u \in Workers : q \in thread'[u].head /\ s = thread'[u].row
      BY <1>7, <1>8 DEF RowsOf
    <2>2. \A s : s \in RowsOf(q) <=>
             \/ s \in DOMAIN row_locations /\ row_locations[s] = q
             \/ \E u \in Workers : q \in thread[u].head /\ s = thread[u].row
      BY DEF RowsOf
    <2>3. ASSUME NEW s, NEW u \in Workers, q \in thread'[u].head, s = thread'[u].row
          PROVE  \E v \in Workers : q \in thread[v].head /\ s = thread[v].row
      BY <1>10, <1>14, <2>3
    <2>4. ASSUME NEW s, NEW u \in Workers, q \in thread[u].head, s = thread[u].row
          PROVE  \/ s = r /\ q = p
                 \/ \E v \in Workers : q \in thread'[v].head /\ s = thread'[v].row
      BY <1>1, <1>7, <1>14, <2>4
    <2>5. ASSUME q = p PROVE \E v \in Workers : q \in thread[v].head /\ r = thread[v].row
      BY <1>1, <1>5, <2>5
    <2>6. \A s : s \in RowsOf(q)' <=> s \in RowsOf(q)
      BY <2>1, <2>2, <2>3, <2>4, <2>5
    <2> QED  BY <2>6
  <1>18. \A s : Wanted(s)' \subseteq Wanted(s)
    <2> TAKE s
    <2>1. CASE s # r
      BY <1>0, <1>8, <1>9, <1>10, <2>1, WantedKeeps
    <2>2. CASE s = r
      <3>1. {x} \in Wanted(r)
        BY <1>1, <1>5 DEF Wanted
      <3>2. \A u \in Workers : thread[u].head # {} => thread[u].op = "insert"
        BY <1>2 DEF ThreadInv, Holds, Threads
      <3>3. \A u \in Workers : ~(thread'[u].head # {} /\ thread'[u].row = r)
        BY <1>10, <1>14, <3>2
      <3>4. \A v \in Wanted(r)' : v = {x}
        BY <1>8, <3>3 DEF Wanted
      <3> QED  BY <2>2, <3>1, <3>4
    <2> QED  BY <2>1, <2>2
  <1>19. DataInv'
    <2>1. SpaceFree' <=> SpaceFree
      BY <1>1, <1>3, <1>9, <1>10 DEF SpaceFree, At, Others, Threads
    <2> QED  BY <1>0, <1>1, <1>2, <1>4, <1>6, <1>8, <1>9, <1>10, <1>17, <1>18, <2>1, DataKeeps
  <1>20. NoLimitInv'
    <2>1. ~At(t, "install")'
      BY <1>10 DEF At
    <2> QED  BY <1>0, <1>1, <1>2, <1>6, <1>9, <1>10, <1>17, <2>1, NoLimitKeeps
  <1> QED  BY <1>12, <1>13, <1>15, <1>16, <1>19, <1>20 DEF PageInv

\* insert_overflow_row marks a continuation page, which holds no rows of its own.
LEMMA PlaceKeeps ==
  ASSUME PageInv, NEW t \in Workers, Place(t)
  PROVE  PageInv'
  <1>0. t \in Threads
    BY DEF Threads
  <1>1. PICK w, p, f, r, x : /\ w = thread[t] /\ p = w.page /\ f = w.frame /\ r = w.row
                             /\ x = w.txn
    OBVIOUS
  <1>2. /\ HeapInv /\ StoreInv /\ ThreadInv /\ FrameInv /\ DataInv /\ NoLimitInv
        /\ w \in ThreadState /\ thread \in [Threads -> ThreadState]
        /\ Steps(w) /\ Holds(w) /\ About(w)
    BY <1>0, <1>1, Facts
  <1>3. w.pc = "place"
    BY <1>1 DEF Place, At
  <1>4. w.op = "insert" /\ w.victim = None /\ f # None
    BY <1>0, <1>1, <1>2, <1>3 DEF ThreadInv, Steps, Holds, ThreadState
  <1>5. PICK c, l, H : /\ c = (IF w.left = 1 THEN "locate" ELSE "register")
                       /\ l = w.left - 1
                       /\ H = (IF w.head = {} THEN {p} ELSE w.head)
    OBVIOUS
  <1>6. /\ thread' = [thread EXCEPT ![t].pc = c, ![t].left = l, ![t].frame = None,
                                    ![t].head = H]
        /\ UNCHANGED <<limit, row_space, row_locations, next_page_id, next_row_id,
                       memory_used, disk, on_disk_pages, image, truth, unsaved>>
    BY <1>1, <1>5 DEF Place
  <1>7. c \in {"locate", "register"} /\ l \in Int /\ H \in SUBSET Nat
    <2>1. w.left \in Int /\ p \in Nat /\ w.head \in SUBSET Nat
      BY <1>1, <1>2 DEF ThreadState
    <2> QED  BY <1>5, <2>1
  <1>8. /\ thread' \in [Threads -> ThreadState] /\ Others(t)
        /\ thread'[t].pc = c /\ thread'[t].frame = None /\ thread'[t].head = H
        /\ thread'[t].op = w.op /\ thread'[t].row = w.row /\ thread'[t].txn = w.txn
        /\ thread'[t].victim = w.victim /\ thread'[t].todo = w.todo
        /\ thread'[t].page = w.page
    <2>1. PICK v : v = [w EXCEPT !.pc = c, !.left = l, !.frame = None, !.head = H]
      OBVIOUS
    <2>2. /\ v \in ThreadState /\ v.pc = c /\ v.frame = None /\ v.head = H
          /\ v.op = w.op /\ v.row = w.row /\ v.txn = w.txn
          /\ v.victim = w.victim /\ v.todo = w.todo /\ v.page = w.page
      BY <1>2, <1>7, <2>1 DEF ThreadState, PCs
    <2>3. thread' = [thread EXCEPT ![t] = v]
      BY <1>0, <1>1, <1>2, <1>6, <2>1
    <2> QED  BY <1>0, <1>2, <2>2, <2>3 DEF Others
  <1>9. CASE w.head = {}
    <2>1. SetHeap([heap EXCEPT ![f] = append(heap[f], r, x)]) /\ Tear(p, f, r)
      BY <1>1, <1>9 DEF Place
    <2>2. H = {p}
      BY <1>5, <1>9
    <2> QED  BY <1>1, <1>3, <1>6, <1>7, <1>8, <1>9, <2>1, <2>2, PutRowKeeps
  <1>10. CASE w.head # {}
    <2> DEFINE h == [heap EXCEPT ![f].overflow = TRUE, ![f].used = PageSize,
                                 ![f].dirty = TRUE]
    <2>1. SetHeap(h) /\ torn' = torn /\ H = w.head
      BY <1>1, <1>5, <1>10 DEF Place
    <2>2. f \in DOMAIN heap /\ heap[f] \in Page /\ DOMAIN heap[f].rows \subseteq 1..next_row_id
      BY <1>0, <1>1, <1>4, Facts
    <2>3. /\ DOMAIN h = DOMAIN heap /\ \A g \in DOMAIN heap : g # f => h[g] = heap[g]
          /\ h[f] \in Page /\ h[f].rows = heap[f].rows /\ h[f].dirty = TRUE
      <3>1. /\ DOMAIN h = DOMAIN heap /\ \A g \in DOMAIN heap : g # f => h[g] = heap[g]
        OBVIOUS
      <3>2. PICK P : P = heap[f]
        OBVIOUS
      <3> DEFINE Q == [P EXCEPT !.overflow = TRUE, !.used = PageSize, !.dirty = TRUE]
      <3>3. Q \in Page /\ Q.rows = P.rows /\ Q.dirty = TRUE
        BY <2>2, <3>2, MarkedPage
      <3>4. h[f] = Q
        BY <2>2, <3>2
      <3> HIDE DEF h, Q
      <3> QED  BY <3>1, <3>2, <3>3, <3>4
    <2> HIDE DEF h
    <2>4. /\ next_row_id \in Nat /\ next_row_id' \in Nat /\ next_row_id <= next_row_id'
          /\ next_page_id \in Nat /\ next_page_id' \in Nat /\ next_page_id <= next_page_id'
      BY <1>0, <1>6, Facts
    <2>5. /\ HeapInv' /\ \A g \in DOMAIN heap' : heap'[g] = h[g]
          /\ \A q \in DOMAIN row_space' : row_space'[q] \in DOMAIN heap'
          /\ \A u \in Threads : thread'[u].victim # None => thread'[u].victim \in DOMAIN heap'
          /\ DOMAIN heap' \subseteq DOMAIN heap
      <3>1. \A q \in DOMAIN row_space' : row_space'[q] \in DOMAIN h
        BY <1>0, <1>6, <2>3, Facts
      <3>2. DOMAIN h \subseteq Frames /\ DOMAIN heap \subseteq DOMAIN h
            /\ \A g \in DOMAIN h : h[g] \in Page /\ DOMAIN h[g].rows \subseteq 1..next_row_id'
        BY <1>0, <1>6, <2>2, <2>3, Facts
      <3>3. {thread'[t].frame, thread'[t].victim} \subseteq DOMAIN h \cup {None}
        BY <1>4, <1>8
      <3> QED  BY <1>0, <1>2, <1>8, <2>1, <2>3, <2>4, <3>1, <3>2, <3>3, HeapStep
    <2>6. StoreInv'
      BY <1>2, <1>6, <2>1 DEF StoreInv, LocatedPages
    <2>7. ThreadInv'
      <3>1. Steps(thread[t])' /\ Holds(thread[t])' /\ About(thread[t])'
        BY <1>1, <1>2, <1>4, <1>6, <1>7, <1>8, <2>1 DEF Steps, Holds, About
      <3>2. \A u \in Threads \ {t} : thread[u].op = "insert" =>
               thread[u].row \notin DOMAIN row_locations' \cup DOMAIN truth'
        BY <1>2, <1>6 DEF ThreadInv, About
      <3>3. \A u \in Threads \ {t} :
              Steps(thread[u])' /\ Holds(thread[u])' /\ About(thread[u])'
        BY <1>0, <1>2, <1>6, <1>8, <2>4, <3>2, OthersKeep
      <3>4. OpsOK(t)
        BY <1>0, <1>1, <1>2, <1>3, <1>8, OpsKeep
      <3> QED  BY <1>0, <1>2, <1>8, <3>1, <3>3, <3>4, ThreadStep
    <2>8. FrameInv'
      BY <1>0, <1>1, <1>2, <1>6, <1>7, <1>8, FramesKeep
    <2>9. (\A q : RowsOf(q)' = RowsOf(q)) /\ (\A s : Wanted(s)' = Wanted(s))
      BY <1>0, <1>1, <1>6, <1>8, <2>1, RowsKeep
    <2>10. DataInv'
      <3> SUFFICES ASSUME torn = {} PROVE DataInv'
        BY <2>1 DEF DataInv
      <3>1. DOMAIN truth \subseteq DOMAIN row_locations /\ \A q \in PageIds : PageOK(q)
        BY <1>2 DEF DataInv
      <3>2. SpaceFree' <=> SpaceFree
        BY <1>1, <1>3, <1>7, <1>8 DEF SpaceFree, At, Others, Threads
      <3>3. \A g \in DOMAIN heap' : /\ heap'[g].rows = heap[g].rows
                                    /\ heap[g].dirty => heap'[g].dirty
        BY <2>3, <2>5
      <3>4. \A u \in Threads : /\ thread'[u].victim = thread[u].victim
                               /\ thread[u].victim # None => thread'[u] = thread[u]
        BY <1>1, <1>4, <1>8 DEF Others
      <3>5. \A q : InFlight(q)' = InFlight(q)
        BY <3>4 DEF InFlight
      <3>6. ASSUME NEW q \in PageIds PROVE PageOK(q)'
        <4>1. \A u \in InFlight(q) :
                 /\ heap'[thread'[u].victim].rows = heap[thread[u].victim].rows
                 /\ heap[thread[u].victim].dirty => heap'[thread'[u].victim].dirty
          <5>1. \A u \in InFlight(q) : thread'[u].victim = thread[u].victim
                                       /\ thread'[u].victim \in DOMAIN heap'
            BY <2>5, <3>4 DEF InFlight
          <5> QED  BY <3>3, <5>1
        <4>2. q \in DOMAIN row_space =>
                 /\ heap'[row_space'[q]].rows = heap[row_space[q]].rows
                 /\ heap[row_space[q]].dirty => heap'[row_space'[q]].dirty
          BY <1>6, <2>5, <3>3
        <4> QED  BY <1>6, <2>9, <3>1, <3>2, <3>5, <3>6, <4>1, <4>2, PageKeepsRows
      <3> QED  BY <1>6, <3>1, <3>6 DEF DataInv
    <2>11. NoLimitInv'
      <3>1. ~At(t, "install")'
        BY <1>7, <1>8 DEF At
      <3> QED  BY <1>0, <1>1, <1>2, <1>6, <1>8, <2>1, <2>9, <3>1, NoLimitKeeps
    <2> QED  BY <2>5, <2>6, <2>7, <2>8, <2>10, <2>11 DEF PageInv
  <1> QED  BY <1>9, <1>10

\* flush_all_pages marks the resident pages clean once it has serialized them.
LEMMA FlushReadKeeps ==
  ASSUME PageInv, FlushRead
  PROVE  PageInv'
  <1> DEFINE resident(f) == \E p \in DOMAIN row_space : row_space[p] = f
             cleaned == [f \in DOMAIN heap |->
                           IF resident(f) THEN [heap[f] EXCEPT !.dirty = FALSE] ELSE heap[f]]
  <1>0. Vacuum \in Threads
    BY DEF Threads
  <1>1. PICK w : w = thread[Vacuum]
    OBVIOUS
  <1>2. /\ HeapInv /\ StoreInv /\ ThreadInv /\ FrameInv /\ DataInv /\ NoLimitInv
        /\ w \in ThreadState /\ thread \in [Threads -> ThreadState]
        /\ Steps(w) /\ Holds(w) /\ About(w)
    BY <1>0, <1>1, Facts
  <1>3. w.pc = "flush_read" /\ thread' = [thread EXCEPT ![Vacuum].pc = "flush_write"]
    BY <1>1 DEF FlushRead, At, Goto
  <1>4. /\ heap' = cleaned
        /\ image' = [p \in DOMAIN disk \cup DOMAIN row_space |->
                       IF p \in DOMAIN row_space THEN cleaned[row_space[p]] ELSE disk[p]]
        /\ UNCHANGED <<limit, row_space, row_locations, next_page_id, next_row_id,
                       memory_used, disk, on_disk_pages, truth, unsaved, torn>>
    BY DEF FlushRead
  <1>5. w.op \in {"vacuum", "flush"} /\ w.victim = None /\ w.frame = None
    BY <1>0, <1>1, <1>2, <1>3 DEF Steps, Holds, ThreadInv
  <1>6. /\ thread' \in [Threads -> ThreadState] /\ Others(Vacuum)
        /\ thread'[Vacuum].pc = "flush_write" /\ thread'[Vacuum].frame = w.frame
        /\ thread'[Vacuum].op = w.op /\ thread'[Vacuum].row = w.row
        /\ thread'[Vacuum].txn = w.txn /\ thread'[Vacuum].page = w.page
        /\ thread'[Vacuum].victim = w.victim /\ thread'[Vacuum].head = w.head
        /\ thread'[Vacuum].victim_page = w.victim_page /\ thread'[Vacuum].todo = w.todo
    BY <1>0, <1>1, <1>2, <1>3, ZenonT(40) DEF ThreadState, PCs, Others
  <1>7. /\ DOMAIN cleaned = DOMAIN heap
        /\ \A f \in DOMAIN heap : /\ cleaned[f] \in Page /\ cleaned[f].rows = heap[f].rows
                                  /\ ~resident(f) => cleaned[f] = heap[f]
    <2>1. \A f \in DOMAIN heap :
             cleaned[f] = IF resident(f) THEN [heap[f] EXCEPT !.dirty = FALSE] ELSE heap[f]
      OBVIOUS
    <2>2. \A f \in DOMAIN heap : heap[f] \in Page
      BY <1>2 DEF HeapInv
    <2>3. ASSUME NEW f \in DOMAIN heap
          PROVE  cleaned[f] \in Page /\ cleaned[f].rows = heap[f].rows
      <3>1. PICK P \in Page : P = heap[f]
        BY <2>2
      <3>2. CASE resident(f)
        <4>1. cleaned[f] = [P EXCEPT !.dirty = FALSE]
          BY <2>1, <3>1, <3>2
        <4> HIDE DEF cleaned
        <4>2. [P EXCEPT !.dirty = FALSE] \in Page /\ [P EXCEPT !.dirty = FALSE].rows = P.rows
          BY DEF Page
        <4> QED  BY <3>1, <4>1, <4>2
      <3>3. CASE ~resident(f)
        BY <2>1, <2>2, <3>3
      <3> QED  BY <3>2, <3>3
    <2> QED  BY <2>1, <2>3
  <1> HIDE DEF cleaned
  <1>8. HeapInv'
    <2>1. \A u \in Threads : thread'[u].frame = thread[u].frame /\ thread'[u].victim = thread[u].victim
      BY <1>1, <1>6 DEF Others
    <2>2. Live(row_space, thread)' = Live(row_space, thread)
      BY <1>4, <2>1 DEF Live
    <2> QED  BY <1>2, <1>4, <1>7, <2>2 DEF HeapInv
  <1>9. StoreInv'
    <2>1. \A p \in DOMAIN row_space : row_space[p] \in DOMAIN heap
      BY <1>0, Facts
    <2>2. \A p \in DOMAIN image' :
             image'[p] \in Page /\ DOMAIN image'[p].rows \subseteq 1..next_row_id
      BY <1>2, <1>4, <1>7, <2>1 DEF StoreInv, HeapInv
    <2> QED  BY <1>2, <1>4, <2>2 DEF StoreInv, LocatedPages
  <1>10. /\ next_row_id \in Nat /\ next_row_id' \in Nat /\ next_row_id <= next_row_id'
         /\ next_page_id \in Nat /\ next_page_id' \in Nat /\ next_page_id <= next_page_id'
    BY <1>0, <1>4, Facts
  <1>11. ThreadInv'
    <2>1. LocatedPages' = LocatedPages
      BY <1>4 DEF LocatedPages
    <2>2. Steps(thread[Vacuum])' /\ Holds(thread[Vacuum])' /\ About(thread[Vacuum])'
      BY <1>1, <1>2, <1>3, <1>4, <1>5, <1>6, <2>1 DEF Steps, Holds, About
    <2>3. \A u \in Threads \ {Vacuum} : thread[u].op = "insert" =>
             thread[u].row \notin DOMAIN row_locations' \cup DOMAIN truth'
      BY <1>2, <1>4 DEF ThreadInv, About
    <2>4. \A u \in Threads \ {Vacuum} :
            Steps(thread[u])' /\ Holds(thread[u])' /\ About(thread[u])'
      BY <1>0, <1>2, <1>4, <1>6, <1>10, <2>3, OthersKeep
    <2>5. OpsOK(Vacuum)
      BY <1>0, <1>1, <1>2, <1>3, <1>6, OpsKeep
    <2> QED  BY <1>0, <1>2, <1>6, <2>2, <2>4, <2>5, ThreadStep
  <1>12. FrameInv'
    BY <1>0, <1>1, <1>2, <1>4, <1>6, FramesKeep
  <1>13. (\A q : RowsOf(q)' = RowsOf(q)) /\ (\A s : Wanted(s)' = Wanted(s))
    BY <1>0, <1>1, <1>4, <1>6, RowsKeep
  <1>14. DataInv'
    <2> SUFFICES ASSUME torn = {} PROVE DataInv'
      BY <1>4 DEF DataInv
    <2>1. DOMAIN truth \subseteq DOMAIN row_locations /\ \A q \in PageIds : PageOK(q)
      BY <1>2 DEF DataInv
    <2>2. ~SpaceFree'
      BY <1>6 DEF SpaceFree
    <2>3. \A u \in Threads : /\ thread'[u].victim = thread[u].victim
                             /\ thread'[u].victim_page = thread[u].victim_page
      BY <1>1, <1>6 DEF Others
    <2>4. \A q : InFlight(q)' = InFlight(q)
      BY <2>3 DEF InFlight
    <2>5. ASSUME NEW q \in PageIds PROVE PageOK(q)'
      <3>1. \A P : Good(P, q) => Good(P, q)'
        BY <1>13, GoodKeeps
      <3>2. OnDisk(q) => OnDisk(q)'
        BY <1>4, <3>1 DEF OnDisk
      <3>3. ResidentOK(q)'
        <4> SUFFICES ASSUME q \in DOMAIN row_space PROVE ResidentOK(q)'
          BY <1>4 DEF ResidentOK
        <4>1. InFlight(q) = {} /\ Good(heap[row_space[q]], q)
          BY <2>1, <2>5 DEF PageOK, ResidentOK
        <4>2. row_space[q] \in DOMAIN heap
          BY <1>0, Facts
        <4>3. PICK P : P = cleaned[row_space[q]]
          OBVIOUS
        <4>4. P.rows = heap[row_space[q]].rows
          BY <1>7, <4>2, <4>3
        <4>5. Good(P, q)
          BY <4>1, <4>4 DEF Good
        <4>6. heap'[row_space'[q]] = P /\ image'[q] = P /\ q \in DOMAIN image' /\ q \in DOMAIN row_space'
          BY <1>4, <4>2, <4>3
        <4>7. Good(P, q)'
          BY <3>1, <4>5
        <4> QED  BY <2>2, <2>4, <4>1, <4>6, <4>7 DEF ResidentOK
      <3>4. FlyingOK(q)'
        <4> SUFFICES ASSUME NEW u \in InFlight(q)
                     PROVE  /\ InFlight(q)' = {u}
                            /\ Good(heap[thread[u].victim], q)'
                            /\ Clean(heap[thread[u].victim], q)' => OnDisk(q)'
          BY <2>4 DEF FlyingOK
        <4>1. u \in Threads /\ thread[u].victim # None
          BY DEF InFlight
        <4>2. thread[u].victim \in DOMAIN heap
          BY <4>1, Facts
        <4>3. ~resident(thread[u].victim)
          BY <1>2, <4>1 DEF FrameInv
        <4>4. PICK P : P = heap[thread[u].victim]
          OBVIOUS
        <4>5. heap'[thread'[u].victim] = P
          BY <1>4, <1>7, <2>3, <4>1, <4>2, <4>3, <4>4
        <4>6. InFlight(q) = {u} /\ Good(P, q) /\ (Clean(P, q) => OnDisk(q))
          BY <2>1, <2>5, <4>4 DEF PageOK, FlyingOK
        <4>7. Clean(P, q)' <=> Clean(P, q)
          BY <1>4, <1>13 DEF Clean
        <4> QED  BY <2>4, <3>1, <3>2, <4>5, <4>6, <4>7
      <3>5. ElsewhereOK(q)'
        BY <1>4, <1>13, <2>1, <2>4, <2>5, <3>2 DEF PageOK, ElsewhereOK
      <3> QED  BY <3>3, <3>4, <3>5 DEF PageOK
    <2> QED  BY <1>4, <2>1, <2>5 DEF DataInv
  <1>15. NoLimitInv'
    <2>1. ~At(Vacuum, "install")' /\ Vacuum \notin Workers
      BY <1>6, PageAssumption DEF At
    <2> QED  BY <1>0, <1>1, <1>2, <1>4, <1>6, <1>13, <2>1, NoLimitKeeps
  <1> QED  BY <1>8, <1>9, <1>11, <1>12, <1>14, <1>15 DEF PageInv

\* flush_all_pages returns and lets go of row_space.
LEMMA FlushEnds ==
  ASSUME PageInv, At(Vacuum, "flush_write"), thread' = [thread EXCEPT ![Vacuum] = Idle],
         UNCHANGED <<limit, heap, row_space, row_locations, next_page_id, next_row_id,
                     memory_used, truth>>
  PROVE  /\ HeapInv' /\ ThreadInv' /\ FrameInv' /\ ~SpaceFree /\ SpaceFree'
         /\ torn' = torn => NoLimitInv'
         /\ \A q : RowsOf(q)' = RowsOf(q) /\ InFlight(q)' = InFlight(q)
         /\ \A s : Wanted(s)' = Wanted(s)
         /\ \A u \in Threads : thread'[u].victim = thread[u].victim
  <1>0. Vacuum \in Threads
    BY DEF Threads
  <1>1. PICK w : w = thread[Vacuum]
    OBVIOUS
  <1>2. /\ HeapInv /\ StoreInv /\ ThreadInv /\ FrameInv /\ NoLimitInv
        /\ w \in ThreadState /\ thread \in [Threads -> ThreadState]
        /\ Steps(w) /\ Holds(w) /\ About(w)
    BY <1>0, <1>1, Facts
  <1>3. w.pc = "flush_write"
    BY <1>1 DEF At
  <1>4. w.op \in {"vacuum", "flush"} /\ w.victim = None /\ w.frame = None /\ w.head = {}
    BY <1>0, <1>1, <1>2, <1>3 DEF Steps, Holds, ThreadInv
  <1>5. thread' \in [Threads -> ThreadState] /\ Others(Vacuum) /\ thread'[Vacuum] = Idle
    BY <1>0, <1>2, IdleFacts DEF Others
  <1>6. /\ thread'[Vacuum].frame = None /\ thread'[Vacuum].victim = None
        /\ thread'[Vacuum].head = {} /\ thread'[Vacuum].op = "none"
        /\ thread'[Vacuum].pc = "idle"
    BY <1>5, IdleFacts
  <1>7. /\ next_row_id \in Nat /\ next_row_id' \in Nat /\ next_row_id <= next_row_id'
        /\ next_page_id \in Nat /\ next_page_id' \in Nat /\ next_page_id <= next_page_id'
    BY <1>0, Facts
  <1>8. HeapInv'
    BY <1>0, <1>1, <1>2, <1>4, <1>5, <1>6, <1>7, HeapSame
  <1>9. ThreadInv'
    <2>1. Steps(thread[Vacuum])' /\ Holds(thread[Vacuum])' /\ About(thread[Vacuum])'
      BY <1>0, <1>5, IdleOK
    <2>2. \A u \in Threads \ {Vacuum} : thread[u].op = "insert" =>
             thread[u].row \notin DOMAIN row_locations' \cup DOMAIN truth'
      BY <1>2 DEF ThreadInv, About
    <2>3. \A u \in Threads \ {Vacuum} :
            Steps(thread[u])' /\ Holds(thread[u])' /\ About(thread[u])'
      BY <1>0, <1>2, <1>5, <1>7, <2>2, OthersKeep
    <2>4. OpsOK(Vacuum)
      BY <1>0, <1>1, <1>2, <1>3, <1>6, OpsKeep
    <2> QED  BY <1>0, <1>2, <1>5, <2>1, <2>3, <2>4, ThreadStep
  <1>10. FrameInv'
    BY <1>0, <1>1, <1>2, <1>5, <1>6, FramesKeep
  <1>11. (\A q : RowsOf(q)' = RowsOf(q)) /\ (\A s : Wanted(s)' = Wanted(s))
    BY <1>0, <1>1, <1>4, <1>5, <1>6, RowsKeep
  <1>12. \A u \in Threads : /\ thread'[u].victim = thread[u].victim
                            /\ thread[u].victim # None => thread'[u] = thread[u]
    BY <1>1, <1>4, <1>5, <1>6 DEF Others
  <1>13. \A q : InFlight(q)' = InFlight(q)
    BY <1>12 DEF InFlight
  <1>14. ~SpaceFree /\ SpaceFree'
    BY <1>1, <1>3, <1>6 DEF SpaceFree
  <1>15. ASSUME torn' = torn PROVE NoLimitInv'
    <2>1. ~At(Vacuum, "install")' /\ Vacuum \notin Workers
      BY <1>6, PageAssumption DEF At
    <2> QED  BY <1>0, <1>1, <1>2, <1>5, <1>6, <1>11, <1>15, <2>1, NoLimitKeeps
  <1> QED  BY <1>8, <1>9, <1>10, <1>11, <1>12, <1>13, <1>14, <1>15

\* A failed flush leaves clean flags behind; the rows count as unsaved.
LEMMA FlushFailKeeps ==
  ASSUME PageInv, FlushFail
  PROVE  PageInv'
  <1>1. /\ At(Vacuum, "flush_write") /\ thread' = [thread EXCEPT ![Vacuum] = Idle]
        /\ unsaved' = unsaved \cup UNION {RowsOf(p) : p \in DOMAIN row_space}
        /\ image' = Empty
        /\ UNCHANGED <<limit, heap, row_space, row_locations, next_page_id, next_row_id,
                       memory_used, disk, on_disk_pages, truth, torn>>
    BY DEF FlushFail, pagevars
  <1>2. /\ HeapInv' /\ ThreadInv' /\ FrameInv' /\ ~SpaceFree /\ SpaceFree' /\ NoLimitInv'
        /\ \A q : RowsOf(q)' = RowsOf(q) /\ InFlight(q)' = InFlight(q)
        /\ \A s : Wanted(s)' = Wanted(s)
        /\ \A u \in Threads : thread'[u].victim = thread[u].victim
    BY <1>1, FlushEnds
  <1>3. StoreInv /\ ThreadInv /\ DataInv
    BY DEF PageInv
  <1>4. StoreInv'
    <2>1. unsaved' \subseteq RowIds
      BY <1>1, <1>3, RowsAreSomewhere DEF StoreInv
    <2>2. DOMAIN image' = {}
      BY <1>1 DEF Empty
    <2> QED  BY <1>1, <1>3, <2>1, <2>2 DEF StoreInv, LocatedPages
  <1>5. DataInv'
    <2> SUFFICES ASSUME torn = {} PROVE DataInv'
      BY <1>1 DEF DataInv
    <2>1. DOMAIN truth \subseteq DOMAIN row_locations /\ \A q \in PageIds : PageOK(q)
      BY <1>3 DEF DataInv
    <2>2. ASSUME NEW q \in PageIds PROVE PageOK(q)'
      <3>1. \A P : Good(P, q) => Good(P, q)'
        BY <1>2, GoodKeeps
      <3>2. OnDisk(q) => OnDisk(q)'
        BY <1>1, <3>1 DEF OnDisk
      <3>3. \A P : Clean(P, q)' => Clean(P, q)
        BY <1>1, <1>2 DEF Clean
      <3>4. ASSUME q \in DOMAIN row_space PROVE \A P : ~Clean(P, q)'
        BY <1>1, <1>2, <3>4 DEF Clean
      <3>5. ResidentOK(q)'
        BY <1>1, <1>2, <2>1, <2>2, <3>1, <3>4 DEF PageOK, ResidentOK
      <3>6. FlyingOK(q)'
        <4> SUFFICES ASSUME NEW u \in InFlight(q)
                     PROVE  /\ InFlight(q)' = {u}
                            /\ Good(heap[thread[u].victim], q)'
                            /\ Clean(heap[thread[u].victim], q)' => OnDisk(q)'
          BY <1>2 DEF FlyingOK
        <4>1. PICK P : P = heap[thread[u].victim]
          OBVIOUS
        <4>2. heap'[thread'[u].victim] = P
          BY <1>1, <1>2, <4>1 DEF InFlight
        <4>3. InFlight(q) = {u} /\ Good(P, q) /\ (Clean(P, q) => OnDisk(q))
          BY <2>1, <2>2, <4>1 DEF PageOK, FlyingOK
        <4> QED  BY <1>2, <3>1, <3>2, <3>3, <4>2, <4>3
      <3>7. ElsewhereOK(q)'
        BY <1>1, <1>2, <2>1, <2>2, <3>2 DEF PageOK, ElsewhereOK
      <3> QED  BY <3>5, <3>6, <3>7 DEF PageOK
    <2> QED  BY <1>1, <2>1, <2>2 DEF DataInv
  <1> QED  BY <1>2, <1>4, <1>5 DEF PageInv

\* The page file is replaced: what eviction wrote to it meanwhile is undone, and
\* the rows of such a page are torn.
LEMMA FlushWriteKeeps ==
  ASSUME PageInv, FlushWrite
  PROVE  PageInv'
  <1> DEFINE undone(p) == /\ p \in DOMAIN disk \ DOMAIN row_space
                          /\ p \notin DOMAIN image \/ image[p] # disk[p]
  <1>1. /\ At(Vacuum, "flush_write") /\ thread' = [thread EXCEPT ![Vacuum] = Idle]
        /\ unsaved' = unsaved \ UNION {RowsOf(p) : p \in DOMAIN row_space}
        /\ disk' = image /\ on_disk_pages' = DOMAIN image /\ image' = Empty
        /\ UNCHANGED <<limit, heap, row_space, row_locations, next_page_id, next_row_id,
                       memory_used, truth>>
    BY DEF FlushWrite
  <1>2. torn' = torn \cup UNION {RowsOf(p) : p \in {q \in DOMAIN disk \ DOMAIN row_space :
                                    q \notin DOMAIN image \/ image[q] # disk[q]}}
    BY DEF FlushWrite
  <1>3. /\ HeapInv' /\ ThreadInv' /\ FrameInv' /\ ~SpaceFree /\ SpaceFree'
        /\ torn' = torn => NoLimitInv'
        /\ \A q : RowsOf(q)' = RowsOf(q) /\ InFlight(q)' = InFlight(q)
        /\ \A s : Wanted(s)' = Wanted(s)
        /\ \A u \in Threads : thread'[u].victim = thread[u].victim
    BY <1>1, FlushEnds
  <1>4. StoreInv /\ ThreadInv /\ DataInv /\ NoLimitInv
    BY DEF PageInv
  <1>5. StoreInv'
    <2>1. torn' \subseteq RowIds /\ unsaved' \subseteq RowIds
      BY <1>1, <1>2, <1>4, RowsAreSomewhere DEF StoreInv
    <2>2. DOMAIN image' = {}
      BY <1>1 DEF Empty
    <2> QED  BY <1>1, <1>4, <2>1, <2>2 DEF StoreInv, LocatedPages
  <1>6. NoLimitInv'
    <2> SUFFICES ASSUME limit = 0 PROVE NoLimitInv'
      BY <1>1 DEF NoLimitInv
    <2>1. \A p : RowsOf(p) # {} => p \in DOMAIN row_space
      BY <1>4, RowsAreSomewhere DEF NoLimitInv
    <2>2. torn' = torn
      BY <1>2, <2>1
    <2> QED  BY <1>3, <2>2
  <1>7. DataInv'
    <2> SUFFICES ASSUME torn' = {} PROVE DataInv'
      BY DEF DataInv
    <2>1. torn = {} /\ \A p : undone(p) => RowsOf(p) = {}
      BY <1>2
    <2>2. DOMAIN truth \subseteq DOMAIN row_locations /\ \A q \in PageIds : PageOK(q)
      BY <1>4, <2>1 DEF DataInv
    <2>3. ASSUME NEW q \in PageIds PROVE PageOK(q)'
      <3>1. \A P : Good(P, q) => Good(P, q)'
        BY <1>3, GoodKeeps
      <3>2. ASSUME q \notin DOMAIN row_space, RowsOf(q) # {}, OnDisk(q) PROVE OnDisk(q)'
        <4>1. q \in DOMAIN image /\ image[q] = disk[q] /\ Good(disk[q], q)
          BY <2>1, <3>2 DEF OnDisk
        <4> QED  BY <1>1, <3>1, <4>1 DEF OnDisk
      <3>3. ResidentOK(q)'
        <4> SUFFICES ASSUME q \in DOMAIN row_space PROVE ResidentOK(q)'
          BY <1>1 DEF ResidentOK
        <4>1. PICK P : P = heap[row_space[q]]
          OBVIOUS
        <4>2. /\ InFlight(q) = {} /\ Good(P, q)
              /\ ~P.dirty => q \in DOMAIN image /\ Good(image[q], q)
          BY <1>3, <2>2, <2>3, <4>1 DEF PageOK, ResidentOK
        <4>3. Clean(P, q)' => OnDisk(q)'
          BY <1>1, <3>1, <4>2 DEF Clean, OnDisk
        <4>4. heap'[row_space'[q]] = P
          BY <1>1, <4>1
        <4> QED  BY <1>3, <3>1, <4>2, <4>3, <4>4 DEF ResidentOK
      <3>4. FlyingOK(q)'
        <4> SUFFICES ASSUME NEW u \in InFlight(q)
                     PROVE  /\ InFlight(q)' = {u}
                            /\ Good(heap[thread[u].victim], q)'
                            /\ Clean(heap[thread[u].victim], q)' => OnDisk(q)'
          BY <1>3 DEF FlyingOK
        <4>1. PICK P : P = heap[thread[u].victim]
          OBVIOUS
        <4>2. heap'[thread'[u].victim] = P
          BY <1>1, <1>3, <4>1 DEF InFlight
        <4>3. InFlight(q) = {u} /\ Good(P, q) /\ (Clean(P, q) => OnDisk(q))
          BY <2>2, <2>3, <4>1 DEF PageOK, FlyingOK
        <4>4. q \notin DOMAIN row_space
          BY <2>2, <2>3 DEF PageOK, ResidentOK
        <4>5. \A p \in DOMAIN row_space : RowsOf(p) \cap RowsOf(q) = {}
          BY <1>4, <4>4, RowsOnOnePage
        <4>6. RowsOf(q) \cap unsaved \subseteq unsaved'
          BY <1>1, <4>5
        <4>7. Clean(P, q)' => Clean(P, q) /\ RowsOf(q) # {}
          BY <1>3, <4>6 DEF Clean
        <4> QED  BY <1>3, <3>1, <3>2, <4>2, <4>3, <4>4, <4>7
      <3>5. ElsewhereOK(q)'
        BY <1>1, <1>3, <2>2, <2>3, <3>2 DEF PageOK, ElsewhereOK
      <3> QED  BY <3>3, <3>4, <3>5 DEF PageOK
    <2> QED  BY <1>1, <2>2, <2>3 DEF DataInv
  <1> QED  BY <1>3, <1>5, <1>6, <1>7 DEF PageInv

\* A table on which nothing runs: no page is on its way, no row half inserted.
LEMMA QuietFacts ==
  ASSUME PageInv, \A u \in Workers : At(u, "idle"),
         thread[Vacuum].victim = None
  PROVE  /\ \A q : InFlight(q) = {}
         /\ \A q, r : r \in RowsOf(q) <=> r \in DOMAIN row_locations /\ row_locations[r] = q
         /\ \A r, v : v \in Wanted(r) <=> r \in DOMAIN truth /\ v = truth[r]
  <1>1. \A u \in Workers : thread[u].victim = None /\ thread[u].head = {}
    BY IdleHolds DEF Threads
  <1>2. \A q : InFlight(q) = {}
    BY <1>1 DEF InFlight, Threads
  <1>3. \A q, r : r \in RowsOf(q) <=> r \in DOMAIN row_locations /\ row_locations[r] = q
    BY <1>1 DEF RowsOf
  <1>4. \A r : {v \in Workers : thread[v].head # {} /\ thread[v].row = r} = {}
    BY <1>1
  <1>5. \A r, v : v \in Wanted(r) <=> r \in DOMAIN truth /\ v = truth[r]
    BY <1>4 DEF Wanted
  <1> QED  BY <1>2, <1>3, <1>5

\* Table::rollback_transaction undoes the writes on the resident pages; the rows
\* it does not reach are torn, those behind a clean flag unsaved.
LEMMA RollbackKeeps ==
  ASSUME PageInv, NEW x \in TxnIds, rollback_transaction(x)
  PROVE  PageInv'
  <1> DEFINE touched(r) == r \in DOMAIN truth /\ x \in truth[r]
             resident(r) == r \in DOMAIN row_locations /\ row_locations[r] \in DOMAIN row_space
  <1>1. \A u \in Threads : At(u, "idle")
    BY DEF rollback_transaction, Quiet
  <1>2. /\ heap' = [f \in DOMAIN heap |->
                      [heap[f] EXCEPT !.rows = [r \in DOMAIN @ |-> @[r] \ {x}]]]
        /\ truth' = [r \in DOMAIN truth |-> truth[r] \ {x}]
        /\ UNCHANGED <<limit, row_space, row_locations, next_page_id, next_row_id,
                       memory_used, disk, on_disk_pages, thread, image>>
    BY DEF rollback_transaction
  <1>3. /\ torn' = torn \cup {r \in {s \in DOMAIN truth : x \in truth[s]} : ~resident(r)}
        /\ unsaved' = unsaved \cup
              {r \in {s \in DOMAIN truth : x \in truth[s]} :
                  resident(r) /\ ~heap[row_space[row_locations[r]]].dirty}
    BY DEF rollback_transaction
  <1>4. HeapInv /\ StoreInv /\ ThreadInv /\ FrameInv /\ DataInv /\ NoLimitInv
    BY DEF PageInv
  <1>5. /\ DOMAIN heap' = DOMAIN heap
        /\ \A f \in DOMAIN heap :
              /\ heap'[f] \in Page /\ DOMAIN heap'[f].rows = DOMAIN heap[f].rows
              /\ heap'[f].dirty = heap[f].dirty
              /\ \A r \in DOMAIN heap[f].rows : heap'[f].rows[r] = heap[f].rows[r] \ {x}
    <2>1. DOMAIN heap' = DOMAIN heap
      BY <1>2
    <2>2. ASSUME NEW f \in DOMAIN heap
          PROVE  /\ heap'[f] \in Page /\ DOMAIN heap'[f].rows = DOMAIN heap[f].rows
                 /\ heap'[f].dirty = heap[f].dirty
                 /\ \A r \in DOMAIN heap[f].rows : heap'[f].rows[r] = heap[f].rows[r] \ {x}
      <3>1. PICK P \in Page : P = heap[f]
        BY <1>4 DEF HeapInv
      <3>2. PICK R : R = [r \in DOMAIN P.rows |-> P.rows[r] \ {x}]
        OBVIOUS
      <3>3. heap'[f] = [P EXCEPT !.rows = R]
        BY <1>2, <3>1, <3>2
      <3>4. DOMAIN P.rows \in SUBSET RowIds /\ P.rows \in [DOMAIN P.rows -> SUBSET TxnIds]
        BY PageFacts
      <3>5. R \in [DOMAIN P.rows -> SUBSET TxnIds]
        BY <3>2, <3>4
      <3>6. R \in UNION {[T -> SUBSET TxnIds] : T \in SUBSET RowIds}
        BY <3>4, <3>5
      <3>7. /\ [P EXCEPT !.rows = R] \in Page /\ [P EXCEPT !.rows = R].rows = R
            /\ [P EXCEPT !.rows = R].dirty = P.dirty
        BY <3>6 DEF Page
      <3>8. DOMAIN R = DOMAIN P.rows /\ \A r \in DOMAIN P.rows : R[r] = P.rows[r] \ {x}
        BY <3>2
      <3> QED  BY <3>1, <3>3, <3>7, <3>8
    <2> QED  BY <2>1, <2>2
  <1>6. HeapInv'
    <2>1. Live(row_space, thread)' = Live(row_space, thread)
      BY <1>2 DEF Live
    <2> QED  BY <1>2, <1>4, <1>5, <2>1 DEF HeapInv
  <1>7. DOMAIN truth' = DOMAIN truth /\ \A r \in DOMAIN truth : truth'[r] = truth[r] \ {x}
    BY <1>2
  <1>8. StoreInv'
    <2>1. DOMAIN truth \subseteq RowIds
      BY <1>4, PageAssumption DEF StoreInv, RowIds
    <2>2. torn' \subseteq RowIds /\ unsaved' \subseteq RowIds
      BY <1>3, <1>4, <2>1 DEF StoreInv
    <2> QED  BY <1>2, <1>4, <1>7, <2>2 DEF StoreInv, LocatedPages
  <1>9. ThreadInv' /\ FrameInv'
    <2>1. \A u \in Threads : Steps(thread[u])' /\ Holds(thread[u])' /\ About(thread[u])'
      BY <1>1, <1>2, <1>4, IdleKeeps
    <2> QED  BY <1>2, <1>4, <2>1 DEF ThreadInv, FrameInv, At, Exclusive
  <1>10. /\ \A q : InFlight(q) = {} /\ InFlight(q)' = {} /\ RowsOf(q)' = RowsOf(q)
         /\ \A q, r : r \in RowsOf(q) <=> r \in DOMAIN row_locations /\ row_locations[r] = q
         /\ \A r, v : v \in Wanted(r) <=> r \in DOMAIN truth /\ v = truth[r]
         /\ \A r, v : v \in Wanted(r)' <=> r \in DOMAIN truth /\ v = truth[r] \ {x}
    <2>1. \A u \in Workers : At(u, "idle")
      BY <1>1 DEF Threads
    <2>2. \A u \in Threads : thread[u].victim = None /\ thread[u].head = {}
      BY <1>1, IdleHolds
    <2>3. /\ \A q : InFlight(q) = {}
          /\ \A q, r : r \in RowsOf(q) <=> r \in DOMAIN row_locations /\ row_locations[r] = q
          /\ \A r, v : v \in Wanted(r) <=> r \in DOMAIN truth /\ v = truth[r]
      BY <2>1, <2>2, QuietFacts DEF Threads
    <2>4. \A q : InFlight(q)' = InFlight(q) /\ RowsOf(q)' = RowsOf(q)
      BY <1>2 DEF InFlight, RowsOf
    <2>5. \A r : {v \in Workers : thread'[v].head # {} /\ thread'[v].row = r} = {}
      BY <1>2, <2>2 DEF Threads
    <2>6. \A r, v : v \in Wanted(r)' <=> r \in DOMAIN truth /\ v = truth[r] \ {x}
      BY <1>7, <2>5 DEF Wanted
    <2> QED  BY <2>3, <2>4, <2>6
  <1>11. SpaceFree /\ SpaceFree'
    BY <1>1, <1>2 DEF SpaceFree, At, Threads
  <1>12. DataInv'
    <2> SUFFICES ASSUME torn' = {} PROVE DataInv'
      BY DEF DataInv
    <2>1. torn = {} /\ \A r : touched(r) => resident(r)
      <3>1. \A r \in DOMAIN truth : x \in truth[r] /\ ~resident(r) => r \in torn'
        BY <1>3
      <3> QED  BY <1>3, <3>1
    <2>2. DOMAIN truth \subseteq DOMAIN row_locations /\ \A q \in PageIds : PageOK(q)
      BY <1>4, <2>1 DEF DataInv
    <2>3. ASSUME NEW q \in PageIds PROVE PageOK(q)'
      <3>1. ASSUME \A r \in RowsOf(q) : ~touched(r), OnDisk(q) PROVE OnDisk(q)'
        <4>1. \A r \in RowsOf(q) : Wanted(r)' \subseteq Wanted(r)
          <5>1. \A S : x \notin S => S \ {x} = S
            OBVIOUS
          <5> QED  BY <1>10, <3>1, <5>1
        <4> QED  BY <1>2, <1>10, <3>1, <4>1, GoodKeeps DEF OnDisk
      <3>2. ResidentOK(q)'
        <4> SUFFICES ASSUME q \in DOMAIN row_space PROVE ResidentOK(q)'
          BY <1>2 DEF ResidentOK
        <4>1. PICK P, Q : P = heap[row_space[q]] /\ Q = heap'[row_space'[q]]
          OBVIOUS
        <4>2. row_space[q] \in DOMAIN heap
          BY Facts DEF Threads
        <4>3. /\ DOMAIN Q.rows = DOMAIN P.rows /\ Q.dirty = P.dirty
              /\ \A r \in DOMAIN P.rows : Q.rows[r] = P.rows[r] \ {x}
          BY <1>2, <1>5, <4>1, <4>2, ZenonT(40)
        <4>4. Good(P, q) /\ (Clean(P, q) => OnDisk(q))
          BY <1>11, <2>2, <2>3, <4>1 DEF PageOK, ResidentOK
        <4>5. Good(Q, q)'
          <5>1. DOMAIN Q.rows \subseteq RowsOf(q)'
            BY <1>10, <4>3, <4>4 DEF Good
          <5>2. \A r \in RowsOf(q)' : \A v \in Wanted(r)' : r \in DOMAIN Q.rows /\ Q.rows[r] = v
            <6> SUFFICES ASSUME NEW r \in RowsOf(q), NEW v \in Wanted(r)'
                         PROVE  r \in DOMAIN Q.rows /\ Q.rows[r] = v
              BY <1>10
            <6>1. r \in DOMAIN truth /\ v = truth[r] \ {x} /\ truth[r] \in Wanted(r)
              BY <1>10
            <6>2. r \in DOMAIN P.rows /\ P.rows[r] = truth[r]
              BY <4>4, <6>1 DEF Good
            <6> QED  BY <4>3, <6>1, <6>2
          <5> QED  BY <5>1, <5>2 DEF Good
        <4>6. ASSUME Clean(Q, q)' PROVE OnDisk(q)'
          <5>1. ~P.dirty /\ RowsOf(q) # {} /\ RowsOf(q) \cap unsaved' = {}
            BY <1>10, <4>3, <4>6 DEF Clean
          <5>2. Clean(P, q)
            BY <1>3, <5>1 DEF Clean
          <5>3. \A r \in RowsOf(q) : ~touched(r)
            <6>1. \A r \in DOMAIN truth : x \in truth[r] /\ resident(r)
                     /\ ~heap[row_space[row_locations[r]]].dirty => r \in unsaved'
              BY <1>3
            <6>2. \A r \in RowsOf(q) : resident(r) /\ ~heap[row_space[row_locations[r]]].dirty
              BY <1>10, <4>1, <5>1
            <6> QED  BY <5>1, <6>1, <6>2
          <5> QED  BY <3>1, <4>4, <5>2, <5>3
        <4> QED  BY <1>2, <1>10, <1>11, <4>1, <4>5, <4>6 DEF ResidentOK
      <3>3. FlyingOK(q)'
        BY <1>10 DEF FlyingOK
      <3>4. ElsewhereOK(q)'
        <4> SUFFICES ASSUME RowsOf(q) # {}, q \notin DOMAIN row_space PROVE OnDisk(q)'
          BY <1>2, <1>10 DEF ElsewhereOK
        <4>1. OnDisk(q)
          BY <1>10, <2>2, <2>3 DEF PageOK, ElsewhereOK
        <4>2. \A r \in RowsOf(q) : ~touched(r)
          BY <1>10, <2>1
        <4> QED  BY <3>1, <4>1, <4>2
      <3> QED  BY <3>2, <3>3, <3>4 DEF PageOK
    <2> QED  BY <1>2, <1>7, <2>2, <2>3 DEF DataInv
  <1>13. NoLimitInv'
    <2> SUFFICES ASSUME limit = 0 PROVE NoLimitInv'
      BY <1>2 DEF NoLimitInv
    <2>1. torn = {} /\ \A p \in PageIds : RowsOf(p) # {} => p \in DOMAIN row_space
      BY <1>4 DEF NoLimitInv
    <2>2. DOMAIN truth \subseteq DOMAIN row_locations
      BY <1>4, <2>1 DEF DataInv
    <2>3. \A r \in DOMAIN truth : resident(r)
      BY <1>4, <2>1, <2>2, RowsAreSomewhere
    <2>4. torn' = {}
      BY <1>3, <2>1, <2>3
    <2> QED  BY <1>2, <1>4, <1>10, <2>4 DEF NoLimitInv, At
  <1> QED  BY <1>6, <1>8, <1>9, <1>12, <1>13 DEF PageInv

\* prune_versions takes dead rows off the resident pages, and off nothing else.
LEMMA PruneKeeps ==
  ASSUME PageInv, NEW dead \in SUBSET RowIds, prune_versions(dead)
  PROVE  PageInv'
  <1> DEFINE keep(rows) == {r \in DOMAIN rows : ~(r \in dead /\ rows[r] = {})}
             h == [f \in DOMAIN heap |->
                     [heap[f] EXCEPT !.rows = [r \in keep(@) |-> @[r]]]]
  <1>0. Vacuum \in Threads /\ Vacuum \notin Workers
    BY PageAssumption DEF Threads
  <1>1. PICK w : w = thread[Vacuum]
    OBVIOUS
  <1>2. /\ HeapInv /\ StoreInv /\ ThreadInv /\ FrameInv /\ DataInv /\ NoLimitInv
        /\ w \in ThreadState /\ thread \in [Threads -> ThreadState]
        /\ Steps(w) /\ Holds(w) /\ About(w)
    BY <1>0, <1>1, Facts
  <1>3. w.pc = "vacuum"
    BY <1>1 DEF prune_versions, At
  <1>4. w.op = "vacuum" /\ w.victim = None /\ w.head = {}
    BY <1>0, <1>1, <1>2, <1>3 DEF Steps, Holds, ThreadInv
  <1>5. \A u \in Workers : At(u, "idle")
    BY <1>1, <1>2, <1>4 DEF ThreadInv, Exclusive
  <1>6. PICK indexed \in BOOLEAN :
          thread' = [thread EXCEPT ![Vacuum].left = 2, ![Vacuum].frame = None,
                        ![Vacuum].todo = IF indexed THEN LocatedPages ELSE {}]
    BY DEF prune_versions
  <1>7. /\ SetHeap(h) /\ truth' = [r \in DOMAIN truth \ dead |-> truth[r]]
        /\ UNCHANGED <<limit, row_space, row_locations, next_page_id, next_row_id,
                       memory_used, disk, on_disk_pages, image, unsaved, torn>>
    BY DEF prune_versions
  <1>8. PICK l, T : l = 2 /\ T = IF indexed THEN LocatedPages ELSE {}
    OBVIOUS
  <1>9. l \in Int /\ T \subseteq LocatedPages /\ T \in SUBSET Nat
    <2>1. LocatedPages \subseteq Nat
      BY <1>2 DEF StoreInv
    <2> QED  BY <1>8, <2>1
  <1>10. /\ thread' \in [Threads -> ThreadState] /\ Others(Vacuum)
         /\ thread'[Vacuum].pc = "vacuum" /\ thread'[Vacuum].frame = None
         /\ thread'[Vacuum].op = w.op /\ thread'[Vacuum].row = w.row
         /\ thread'[Vacuum].txn = w.txn /\ thread'[Vacuum].page = w.page
         /\ thread'[Vacuum].victim = w.victim /\ thread'[Vacuum].head = w.head
         /\ thread'[Vacuum].victim_page = w.victim_page /\ thread'[Vacuum].todo = T
    <2>1. PICK v : v = [w EXCEPT !.left = l, !.frame = None, !.todo = T]
      OBVIOUS
    <2>2. /\ v \in ThreadState /\ v.pc = w.pc /\ v.frame = None /\ v.todo = T
          /\ v.op = w.op /\ v.row = w.row /\ v.txn = w.txn /\ v.head = w.head
          /\ v.victim = w.victim /\ v.page = w.page /\ v.victim_page = w.victim_page
      BY <1>2, <1>9, <2>1 DEF ThreadState
    <2>3. thread' = [thread EXCEPT ![Vacuum] = v]
      BY <1>0, <1>1, <1>2, <1>6, <1>8, <2>1
    <2> QED  BY <1>0, <1>2, <1>3, <2>2, <2>3 DEF Others
  <1>11. /\ DOMAIN h = DOMAIN heap
         /\ \A f \in DOMAIN heap :
               /\ h[f] \in Page /\ DOMAIN h[f].rows \subseteq DOMAIN heap[f].rows
               /\ h[f].dirty = heap[f].dirty
               /\ \A r \in DOMAIN heap[f].rows : r \notin dead =>
                     r \in DOMAIN h[f].rows /\ h[f].rows[r] = heap[f].rows[r]
    <2>1. DOMAIN h = DOMAIN heap
      OBVIOUS
    <2>2. ASSUME NEW f \in DOMAIN heap
          PROVE  /\ h[f] \in Page /\ DOMAIN h[f].rows \subseteq DOMAIN heap[f].rows
                 /\ h[f].dirty = heap[f].dirty
                 /\ \A r \in DOMAIN heap[f].rows : r \notin dead =>
                       r \in DOMAIN h[f].rows /\ h[f].rows[r] = heap[f].rows[r]
      <3>1. PICK P \in Page : P = heap[f]
        BY <1>2 DEF HeapInv
      <3>2. PICK K : K = keep(P.rows)
        OBVIOUS
      <3>3. PICK R : R = [r \in K |-> P.rows[r]]
        OBVIOUS
      <3>4. h[f] = [P EXCEPT !.rows = R]
        BY <3>1, <3>2, <3>3
      <3> HIDE DEF h
      <3>5. DOMAIN P.rows \in SUBSET RowIds /\ P.rows \in [DOMAIN P.rows -> SUBSET TxnIds]
        BY PageFacts
      <3>6. K \subseteq DOMAIN P.rows /\ \A r \in DOMAIN P.rows : r \notin dead => r \in K
        BY <3>2
      <3>7. R \in [K -> SUBSET TxnIds] /\ K \in SUBSET RowIds
        BY <3>3, <3>5, <3>6
      <3>8. R \in UNION {[S -> SUBSET TxnIds] : S \in SUBSET RowIds}
        BY <3>7
      <3>9. /\ [P EXCEPT !.rows = R] \in Page /\ [P EXCEPT !.rows = R].rows = R
            /\ [P EXCEPT !.rows = R].dirty = P.dirty
        BY <3>8 DEF Page
      <3>10. DOMAIN R = K /\ \A r \in K : R[r] = P.rows[r]
        BY <3>3
      <3> QED  BY <3>1, <3>4, <3>6, <3>9, <3>10
    <2> QED  BY <2>1, <2>2
  <1> HIDE DEF h
  <1>12. /\ next_row_id \in Nat /\ next_row_id' \in Nat /\ next_row_id <= next_row_id'
    BY <1>0, <1>7, Facts
  <1>13. /\ HeapInv' /\ \A g \in DOMAIN heap' : heap'[g] = h[g]
         /\ \A q \in DOMAIN row_space' : row_space'[q] \in DOMAIN heap'
    <2>1. \A q \in DOMAIN row_space' : row_space'[q] \in DOMAIN h
      BY <1>0, <1>7, <1>11, Facts
    <2>2. DOMAIN h \subseteq Frames /\ DOMAIN heap \subseteq DOMAIN h
          /\ \A g \in DOMAIN h : h[g] \in Page /\ DOMAIN h[g].rows \subseteq 1..next_row_id'
      BY <1>0, <1>7, <1>11, Facts
    <2>3. {thread'[Vacuum].frame, thread'[Vacuum].victim} \subseteq DOMAIN h \cup {None}
      BY <1>4, <1>10
    <2> QED  BY <1>0, <1>2, <1>7, <1>10, <1>11, <1>12, <2>1, <2>2, <2>3, HeapStep
  <1>14. /\ DOMAIN truth' = DOMAIN truth \ dead
         /\ \A r \in DOMAIN truth \ dead : truth'[r] = truth[r]
    BY <1>7
  <1>15. StoreInv'
    BY <1>2, <1>7, <1>14 DEF StoreInv, LocatedPages
  <1>16. ThreadInv'
    <2>1. LocatedPages' = LocatedPages
      BY <1>7 DEF LocatedPages
    <2>2. Steps(thread[Vacuum])' /\ Holds(thread[Vacuum])' /\ About(thread[Vacuum])'
      BY <1>1, <1>2, <1>4, <1>7, <1>9, <1>10, <2>1 DEF Steps, Holds, About
    <2>3. \A u \in Threads \ {Vacuum} : u \in Workers /\ thread'[u] = thread[u]
      BY <1>10 DEF Threads, Others
    <2>4. \A u \in Threads \ {Vacuum} :
            Steps(thread[u])' /\ Holds(thread[u])' /\ About(thread[u])'
      BY <1>2, <1>5, <2>3, IdleKeeps
    <2>5. OpsOK(Vacuum)
      BY <1>0, <1>1, <1>2, <1>3, <1>4, <1>10, OpsKeep
    <2> QED  BY <1>0, <1>2, <1>10, <2>2, <2>4, <2>5, ThreadStep
  <1>17. FrameInv'
    BY <1>0, <1>1, <1>2, <1>7, <1>10, FramesKeep
  <1>18. \A q : RowsOf(q)' = RowsOf(q)
    BY <1>0, <1>1, <1>4, <1>7, <1>10, RowsKeep
  <1>19. DataInv'
    <2> SUFFICES ASSUME torn = {} PROVE DataInv'
      BY <1>7 DEF DataInv
    <2>1. DOMAIN truth \subseteq DOMAIN row_locations /\ \A q \in PageIds : PageOK(q)
      BY <1>2 DEF DataInv
    <2>2. SpaceFree /\ SpaceFree'
      BY <1>1, <1>3, <1>10 DEF SpaceFree
    <2>3. /\ \A q : InFlight(q) = {}
          /\ \A r, v : v \in Wanted(r) <=> r \in DOMAIN truth /\ v = truth[r]
      BY <1>1, <1>4, <1>5, QuietFacts
    <2>4. \A u \in Threads : thread'[u].victim = None /\ (u \in Workers => thread'[u].head = {})
      BY <1>0, <1>4, <1>5, <1>10, IdleHolds DEF Threads, Others
    <2>5. \A q : InFlight(q)' = {}
      BY <2>4 DEF InFlight
    <2>6. \A r : \A v \in Wanted(r)' : r \notin dead /\ v \in Wanted(r)
      <3>1. \A r, v : v \in Wanted(r)' => r \in DOMAIN truth' /\ v = truth'[r]
        BY <2>4 DEF Wanted, Threads
      <3> QED  BY <1>14, <2>3, <3>1
    <2>7. ASSUME NEW q \in PageIds PROVE PageOK(q)'
      <3>1. OnDisk(q) => OnDisk(q)'
        <4>1. \A r \in RowsOf(q) : Wanted(r)' \subseteq Wanted(r)
          BY <2>6
        <4> QED  BY <1>7, <1>18, <4>1, GoodKeeps DEF OnDisk
      <3>2. ResidentOK(q)'
        <4> SUFFICES ASSUME q \in DOMAIN row_space PROVE ResidentOK(q)'
          BY <1>7 DEF ResidentOK
        <4>1. PICK P, Q : P = heap[row_space[q]] /\ Q = heap'[row_space'[q]]
          OBVIOUS
        <4>2. row_space[q] \in DOMAIN heap /\ row_space[q] \in DOMAIN heap'
          BY <1>0, <1>7, <1>13, Facts
        <4>3. /\ DOMAIN Q.rows \subseteq DOMAIN P.rows /\ Q.dirty = P.dirty
              /\ \A r \in DOMAIN P.rows : r \notin dead =>
                    r \in DOMAIN Q.rows /\ Q.rows[r] = P.rows[r]
          BY <1>7, <1>11, <1>13, <4>1, <4>2
        <4>4. Good(P, q) /\ (Clean(P, q) => OnDisk(q))
          BY <2>1, <2>2, <2>7, <4>1 DEF PageOK, ResidentOK
        <4>5. Good(Q, q)'
          BY <1>18, <2>6, <4>3, <4>4 DEF Good
        <4>6. Clean(Q, q)' => Clean(P, q)
          BY <1>7, <1>18, <4>3 DEF Clean
        <4> QED  BY <1>7, <2>2, <2>5, <3>1, <4>1, <4>4, <4>5, <4>6 DEF ResidentOK
      <3>3. FlyingOK(q)'
        BY <2>5 DEF FlyingOK
      <3>4. ElsewhereOK(q)'
        BY <1>7, <1>18, <2>1, <2>3, <2>7, <3>1 DEF PageOK, ElsewhereOK
      <3> QED  BY <3>2, <3>3, <3>4 DEF PageOK
    <2> QED  BY <1>7, <1>14, <2>1, <2>7 DEF DataInv
  <1>20. NoLimitInv'
    <2>1. ~At(Vacuum, "install")'
      BY <1>10 DEF At
    <2> QED  BY <1>0, <1>1, <1>2, <1>7, <1>10, <1>18, <2>1, NoLimitKeeps
  <1> QED  BY <1>13, <1>15, <1>16, <1>17, <1>19, <1>20 DEF PageInv

\* A fresh page of a packing holds the rows located there.
LEMMA PackedIsPage ==
  ASSUME NEW S \in SUBSET RowIds, NEW loc, DOMAIN loc = S, NEW C \in [S -> SUBSET TxnIds]
  PROVE  \A p : /\ PackedPage(p, loc, C) \in Page
                /\ DOMAIN PackedPage(p, loc, C).rows = {r \in S : loc[r] = p}
                /\ \A r \in S : loc[r] = p => PackedPage(p, loc, C).rows[r] = C[r]
                /\ (\E r \in S : loc[r] = p) => PackedPage(p, loc, C).dirty
  <1> TAKE p
  <1>1. PICK here : here = {r \in DOMAIN loc : loc[r] = p}
    OBVIOUS
  <1>2. PICK u, b, d, R : /\ u = (IF here = {} THEN PageSize ELSE SumFunctionOnSet(RowSize, here))
                          /\ b = (here = {}) /\ d = (here # {})
                          /\ R = [r \in here |-> C[r]]
    OBVIOUS
  <1>3. here \in SUBSET RowIds /\ here \subseteq S
    BY <1>1
  <1>4. u \in Nat
    BY <1>2, <1>3, SumOfRows, PageAssumption
  <1>5. b \in BOOLEAN /\ d \in BOOLEAN
    BY <1>2
  <1>6. R \in [here -> SUBSET TxnIds] /\ DOMAIN R = here /\ \A r \in here : R[r] = C[r]
    BY <1>2, <1>3
  <1>7. PICK P : P = [used |-> u, overflow |-> b, dirty |-> d, rows |-> R]
    OBVIOUS
  <1>8. P \in Page /\ P.rows = R /\ P.dirty = d
    BY <1>3, <1>4, <1>5, <1>6, <1>7, PageMade
  <1>9. PackedPage(p, loc, C) = P
    BY <1>1, <1>2, <1>7, Zenon DEF PackedPage
  <1>10. here # {} => P.dirty
    BY <1>2, <1>8, Zenon
  <1> QED  BY <1>1, <1>6, <1>8, <1>9, <1>10

\* The memory counter after a compaction.
LEMMA PackedSize ==
  ASSUME NEW n \in Nat, NEW g, DOMAIN g = 0..(n - 1), \A p \in 0..(n - 1) : g[p] \in Nat
  PROVE  SumFunction(g) % Modulus \in 0..(Modulus - 1)
  <1>1. IsFiniteSet(0..(n - 1))
    BY FS_Interval
  <1>2. SumFunctionOnSet(g, 0..(n - 1)) \in Nat
    BY <1>1, SumIsNat
  <1>3. Modulus \in Nat /\ Modulus > 0
    BY PageAssumption
  <1> QED  BY <1>2, <1>3 DEF SumFunction

\* Table::compact moves every row of a resident page to a fresh page; the rows it
\* does not meet are torn.
LEMMA CompactKeeps ==
  ASSUME PageInv, compact
  PROVE  PageInv'
  <1> DEFINE at(r) == {p \in DOMAIN row_space : r \in DOMAIN heap[row_space[p]].rows}
             live == {r \in RowIds : at(r) # {}}
             content == [r \in live |-> heap[row_space[Max(at(r))]].rows[r]]
  <1>0. Vacuum \in Threads /\ Vacuum \notin Workers
    BY PageAssumption DEF Threads
  <1>1. PICK w, L, C, k : w = thread[Vacuum] /\ L = live /\ C = content /\ k = Packed(L)
    OBVIOUS
  <1>2. PICK n, loc : n = k.n /\ loc = k.loc
    OBVIOUS
  <1>3. /\ HeapInv /\ StoreInv /\ ThreadInv /\ FrameInv /\ DataInv /\ NoLimitInv
        /\ w \in ThreadState /\ thread \in [Threads -> ThreadState]
        /\ Steps(w) /\ Holds(w) /\ About(w)
    BY <1>0, <1>1, Facts
  <1>4. /\ w.pc = "vacuum" /\ w.todo = {} /\ n <= MaxPages
        /\ row_space' = [p \in 0..(n - 1) |-> p + 1]
        /\ heap' = [f \in {p + 1 : p \in 0..(n - 1)} |-> PackedPage(f - 1, loc, C)]
        /\ row_locations' = loc /\ next_page_id' = n /\ on_disk_pages' = {}
        /\ memory_used' = SumFunction([p \in 0..(n - 1) |->
                             page_memory_bytes(PackedPage(p, loc, C))]) % Modulus
        /\ thread' = [thread EXCEPT ![Vacuum].pc = "flush_read", ![Vacuum].frame = None,
                                    ![Vacuum].left = 0]
        /\ unsaved' = {}
        /\ UNCHANGED <<limit, next_row_id, disk, image, truth>>
    BY <1>1, <1>2 DEF compact, At
  <1>5. torn' = torn \cup (DOMAIN truth \ L)
                     \cup UNION {DOMAIN truth \cap RowsOf(p) :
                                    p \in LocatedPages \ DOMAIN row_space}
    BY <1>1 DEF compact
  <1>6. /\ w.op = "vacuum" /\ w.victim = None /\ w.head = {}
    BY <1>0, <1>1, <1>3, <1>4 DEF Steps, Holds, ThreadInv
  <1>7. \A u \in Workers : At(u, "idle")
    BY <1>1, <1>3, <1>6 DEF ThreadInv, Exclusive
  <1>8. /\ thread' \in [Threads -> ThreadState] /\ Others(Vacuum)
        /\ thread'[Vacuum].pc = "flush_read" /\ thread'[Vacuum].frame = None
        /\ thread'[Vacuum].op = w.op /\ thread'[Vacuum].head = w.head
        /\ thread'[Vacuum].victim = w.victim /\ thread'[Vacuum].todo = w.todo
    <2>1. PICK l : l = 0
      OBVIOUS
    <2>2. PICK v : v = [w EXCEPT !.pc = "flush_read", !.frame = None, !.left = l]
      OBVIOUS
    <2>3. l \in Int
      BY <2>1
    <2>4. /\ v \in ThreadState /\ v.pc = "flush_read" /\ v.frame = None /\ v.todo = w.todo
          /\ v.op = w.op /\ v.head = w.head /\ v.victim = w.victim
      BY <1>3, <2>2, <2>3 DEF ThreadState, PCs
    <2>5. thread' = [thread EXCEPT ![Vacuum] = v]
      BY <1>0, <1>1, <1>3, <1>4, <2>1, <2>2
    <2> QED  BY <1>0, <1>3, <2>4, <2>5 DEF Others
  <1>9. \A u \in Threads : /\ thread'[u].victim = None /\ thread'[u].frame = None
                           /\ thread'[u].pc # "install"
                           /\ u \in Workers => thread'[u].head = {}
    BY <1>0, <1>6, <1>7, <1>8, IdleHolds DEF Threads, Others, At
  <1>10. /\ L \in SUBSET RowIds /\ L \subseteq 1..next_row_id
         /\ \A r \in L : \E m \in DOMAIN row_space :
               r \in DOMAIN heap[row_space[m]].rows /\ C[r] = heap[row_space[m]].rows[r]
         /\ \A r \in RowIds, p \in DOMAIN row_space :
               r \in DOMAIN heap[row_space[p]].rows => r \in L
         /\ DOMAIN C = L
    <2>1. L \in SUBSET RowIds /\ DOMAIN C = L
      BY <1>1
    <2>2. \A r \in RowIds, p \in DOMAIN row_space :
             r \in DOMAIN heap[row_space[p]].rows => r \in L
      BY <1>1
    <2>3. ASSUME NEW r \in L
          PROVE  \E m \in DOMAIN row_space :
                    r \in DOMAIN heap[row_space[m]].rows /\ C[r] = heap[row_space[m]].rows[r]
      <3>1. PICK A : A = at(r)
        OBVIOUS
      <3>2. A # {} /\ A \subseteq DOMAIN row_space
        BY <1>1, <3>1
      <3>3. next_page_id \in Nat /\ A \in SUBSET Nat /\ \A q \in A : q <= next_page_id
        <4>1. next_page_id \in Nat /\ DOMAIN row_space \subseteq 0..(next_page_id - 1)
          BY <1>0, <1>3, Facts DEF StoreInv
        <4> QED  BY <3>2, <4>1
      <3>4. Max(A) \in A
        BY <3>2, <3>3, MaxOf
      <3>5. C[r] = heap[row_space[Max(A)]].rows[r]
        BY <1>1, <3>1
      <3> QED  BY <3>1, <3>2, <3>4, <3>5
    <2>4. \A m \in DOMAIN row_space : DOMAIN heap[row_space[m]].rows \subseteq 1..next_row_id
      BY <1>0, Facts
    <2>5. L \subseteq 1..next_row_id
      BY <2>3, <2>4
    <2> QED  BY <2>1, <2>2, <2>3, <2>5
  <1> HIDE DEF at, live, content
  <1>11. C \in [L -> SUBSET TxnIds]
    <2>1. \A m \in DOMAIN row_space : heap[row_space[m]] \in Page
      BY <1>0, Facts
    <2>2. \A r \in L : C[r] \in SUBSET TxnIds
      <3> SUFFICES ASSUME NEW r \in L PROVE C[r] \in SUBSET TxnIds
        OBVIOUS
      <3>1. PICK m \in DOMAIN row_space :
              r \in DOMAIN heap[row_space[m]].rows /\ C[r] = heap[row_space[m]].rows[r]
        BY <1>10
      <3>2. PICK P \in Page : P = heap[row_space[m]]
        BY <2>1
      <3>3. P.rows \in [DOMAIN P.rows -> SUBSET TxnIds]
        BY PageFacts
      <3> QED  BY <3>1, <3>2, <3>3
    <2>3. C = [r \in L |-> C[r]]
      BY <1>1 DEF content
    <2> QED  BY <2>2, <2>3
  <1>12. n \in Nat /\ DOMAIN loc = L /\ \A r \in L : loc[r] \in 0..(n - 1)
    <2>1. PackedOK(k, L)
      BY <1>1, <1>10, PackingIsSound
    <2> QED  BY <1>2, <2>1 DEF PackedOK
  <1>13. \A p : /\ PackedPage(p, loc, C) \in Page
                /\ DOMAIN PackedPage(p, loc, C).rows = {r \in L : loc[r] = p}
                /\ \A r \in L : loc[r] = p => PackedPage(p, loc, C).rows[r] = C[r]
                /\ (\E r \in L : loc[r] = p) => PackedPage(p, loc, C).dirty
    BY <1>10, <1>11, <1>12, PackedIsPage
  <1>14. /\ DOMAIN row_space' = 0..(n - 1) /\ DOMAIN heap' = {p + 1 : p \in 0..(n - 1)}
         /\ \A p \in 0..(n - 1) : /\ row_space'[p] = p + 1
                                  /\ heap'[row_space'[p]] = PackedPage(p, loc, C)
                                  /\ p \in PageIds /\ p + 1 \in Frames
    <2>1. \A p \in 0..(n - 1) : p \in PageIds /\ p + 1 \in Frames /\ p + 1 - 1 = p
      <3>1. \A p \in 0..(n - 1) : p \in PageIds /\ p + 1 - 1 = p
        BY <1>4, <1>12, PageAssumption DEF PageIds
      <3> QED  BY <3>1, FrameFacts
    <2>2. DOMAIN row_space' = 0..(n - 1) /\ DOMAIN heap' = {p + 1 : p \in 0..(n - 1)}
          /\ \A p \in 0..(n - 1) : row_space'[p] = p + 1
      BY <1>4
    <2>3. \A f \in {p + 1 : p \in 0..(n - 1)} : heap'[f] = PackedPage(f - 1, loc, C)
      BY <1>4
    <2>4. \A p \in 0..(n - 1) : heap'[p + 1] = PackedPage(p + 1 - 1, loc, C)
      BY <2>3
    <2>5. \A p \in 0..(n - 1) : heap'[p + 1] = PackedPage(p, loc, C)
      <3> SUFFICES ASSUME NEW p \in 0..(n - 1) PROVE heap'[p + 1] = PackedPage(p, loc, C)
        OBVIOUS
      <3>1. PICK q : q = p + 1 - 1
        OBVIOUS
      <3>2. q = p
        BY <2>1, <3>1
      <3>3. heap'[p + 1] = PackedPage(q, loc, C)
        BY <2>4, <3>1
      <3> QED  BY <3>2, <3>3
    <2> QED  BY <2>1, <2>2, <2>5
  <1>15. HeapInv'
    <2>1. {row_space'[p] : p \in DOMAIN row_space'} = DOMAIN heap'
      BY <1>14
    <2>2. UNION {{thread'[u].frame, thread'[u].victim} : u \in Threads} = {None}
      BY <1>0, <1>9
    <2>3. DOMAIN heap' \subseteq Frames /\ None \notin DOMAIN heap'
      BY <1>14, FrameFacts
    <2>4. DOMAIN heap' = Live(row_space', thread') \ {None}
      BY <2>1, <2>2, <2>3 DEF Live
    <2>5. \A p \in 0..(n - 1) : /\ heap'[p + 1] \in Page
                                /\ DOMAIN heap'[p + 1].rows \subseteq 1..next_row_id
      <3> SUFFICES ASSUME NEW p \in 0..(n - 1)
                   PROVE  /\ heap'[p + 1] \in Page
                          /\ DOMAIN heap'[p + 1].rows \subseteq 1..next_row_id
        OBVIOUS
      <3>1. PICK P : P = PackedPage(p, loc, C)
        OBVIOUS
      <3>2. P \in Page /\ DOMAIN P.rows = {r \in L : loc[r] = p}
        BY <1>13, <3>1
      <3>3. heap'[p + 1] = P
        BY <1>14, <3>1
      <3> QED  BY <1>10, <3>2, <3>3
    <2>6. \A f \in DOMAIN heap' : heap'[f] \in Page /\ DOMAIN heap'[f].rows \subseteq 1..next_row_id
      BY <1>14, <2>5
    <2> QED  BY <1>4, <2>3, <2>4, <2>6 DEF HeapInv
  <1>16. StoreInv'
    <2>1. memory_used' \in 0..(Modulus - 1)
      <3>1. PICK g : g = [p \in 0..(n - 1) |-> page_memory_bytes(PackedPage(p, loc, C))]
        OBVIOUS
      <3>2. DOMAIN g = 0..(n - 1) /\ \A p \in 0..(n - 1) : g[p] \in Nat
        BY <1>13, <3>1, BytesNat
      <3>3. memory_used' = SumFunction(g) % Modulus
        BY <1>4, <3>1
      <3> QED  BY <1>12, <3>2, <3>3, PackedSize
    <2>2. next_page_id' \in 0..MaxPages
      BY <1>4, <1>12, PageAssumption
    <2>3. /\ DOMAIN row_space' \subseteq 0..(next_page_id' - 1)
          /\ \A p \in DOMAIN row_space' : row_space'[p] \in Frames
      BY <1>4, <1>14
    <2>4. \A p, q \in DOMAIN row_space' : row_space'[p] = row_space'[q] => p = q
      <3>1. \A p, q \in 0..(n - 1) : p + 1 = q + 1 => p = q
        BY <1>12
      <3> QED  BY <1>14, <3>1
    <2>5. DOMAIN row_locations' \subseteq 1..next_row_id' /\ LocatedPages' \subseteq 0..(next_page_id' - 1)
      BY <1>4, <1>10, <1>12 DEF LocatedPages
    <2>6. torn' \subseteq RowIds
      <3>1. DOMAIN truth \subseteq RowIds /\ torn \subseteq RowIds
        BY <1>3, PageAssumption DEF StoreInv, RowIds
      <3> QED  BY <1>5, <3>1
    <2> QED  BY <1>3, <1>4, <2>1, <2>2, <2>3, <2>4, <2>5, <2>6 DEF StoreInv
  <1>17. ThreadInv'
    <2>1. Steps(thread[Vacuum])' /\ Holds(thread[Vacuum])' /\ About(thread[Vacuum])'
      BY <1>4, <1>6, <1>8 DEF Steps, Holds, About
    <2>2. \A u \in Threads \ {Vacuum} : u \in Workers /\ thread'[u] = thread[u]
      BY <1>8 DEF Threads, Others
    <2>3. \A u \in Threads \ {Vacuum} :
            Steps(thread[u])' /\ Holds(thread[u])' /\ About(thread[u])'
      BY <1>3, <1>7, <2>2, IdleKeeps
    <2>4. OpsOK(Vacuum)
      BY <1>0, <1>1, <1>3, <1>4, <1>6, <1>8, OpsKeep
    <2> QED  BY <1>0, <1>3, <1>8, <2>1, <2>3, <2>4, ThreadStep
  <1>18. FrameInv'
    <2>1. \A p \in DOMAIN row_space' : row_space'[p] # None
      BY <1>14, FrameFacts
    <2> QED  BY <1>9, <2>1 DEF FrameInv, At
  <1>19. \A q, r : r \in RowsOf(q)' <=> r \in L /\ loc[r] = q
    BY <1>4, <1>9, <1>12 DEF RowsOf, Threads
  <1>20. /\ \A q : InFlight(q)' = {}
         /\ \A r, v : v \in Wanted(r) <=> r \in DOMAIN truth /\ v = truth[r]
         /\ \A r, v : v \in Wanted(r)' <=> r \in DOMAIN truth /\ v = truth[r]
         /\ \A q, r : r \in RowsOf(q) <=> r \in DOMAIN row_locations /\ row_locations[r] = q
    <2>1. \A q : InFlight(q)' = {}
      BY <1>9 DEF InFlight
    <2>2. \A r, v : v \in Wanted(r)' <=> r \in DOMAIN truth /\ v = truth[r]
      BY <1>4, <1>9 DEF Wanted, Threads
    <2> QED  BY <1>1, <1>6, <1>7, <2>1, <2>2, QuietFacts
  <1>21. DataInv'
    <2> SUFFICES ASSUME torn' = {} PROVE DataInv'
      BY DEF DataInv
    <2>1. torn = {} /\ DOMAIN truth \subseteq L
      BY <1>5
    <2>2. \A q \in PageIds : PageOK(q)
      BY <1>3, <2>1 DEF DataInv
    <2>3. \A r \in L : r \in DOMAIN truth => C[r] = truth[r]
      <3> SUFFICES ASSUME NEW r \in L, r \in DOMAIN truth PROVE C[r] = truth[r]
        OBVIOUS
      <3>1. PICK m \in DOMAIN row_space :
              r \in DOMAIN heap[row_space[m]].rows /\ C[r] = heap[row_space[m]].rows[r]
        BY <1>10
      <3>2. m \in PageIds
        BY <1>3, PageAssumption DEF StoreInv, PageIds
      <3>3. Good(heap[row_space[m]], m)
        BY <2>2, <3>2 DEF PageOK, ResidentOK
      <3> QED  BY <1>20, <3>1, <3>3 DEF Good
    <2>4. ASSUME NEW q \in PageIds PROVE PageOK(q)'
      <3>1. ResidentOK(q)'
        <4> SUFFICES ASSUME q \in 0..(n - 1) PROVE ResidentOK(q)'
          BY <1>14 DEF ResidentOK
        <4>1. PICK P : P = PackedPage(q, loc, C)
          OBVIOUS
        <4>2. heap'[row_space'[q]] = P
          BY <1>14, <4>1
        <4>3. /\ DOMAIN P.rows = {r \in L : loc[r] = q}
              /\ \A r \in L : loc[r] = q => P.rows[r] = C[r]
              /\ (\E r \in L : loc[r] = q) => P.dirty
          BY <1>13, <4>1
        <4>4. Good(P, q)'
          <5>1. DOMAIN P.rows \subseteq RowsOf(q)'
            BY <1>19, <4>3
          <5>2. \A r \in RowsOf(q)' : \A v \in Wanted(r)' : r \in DOMAIN P.rows /\ P.rows[r] = v
            BY <1>19, <1>20, <2>3, <4>3
          <5> QED  BY <5>1, <5>2 DEF Good
        <4>5. ~Clean(P, q)'
          BY <1>19, <4>3 DEF Clean
        <4>6. SpaceFree'
          BY <1>8 DEF SpaceFree
        <4> QED  BY <1>20, <4>2, <4>4, <4>5, <4>6 DEF ResidentOK
      <3>2. FlyingOK(q)'
        BY <1>20 DEF FlyingOK
      <3>3. ElsewhereOK(q)'
        BY <1>12, <1>14, <1>19 DEF ElsewhereOK
      <3> QED  BY <3>1, <3>2, <3>3 DEF PageOK
    <2> QED  BY <1>4, <1>12, <2>1, <2>4 DEF DataInv
  <1>22. NoLimitInv'
    <2> SUFFICES ASSUME limit = 0 PROVE NoLimitInv'
      BY <1>4 DEF NoLimitInv
    <2>1. torn = {} /\ \A p \in PageIds : RowsOf(p) # {} => p \in DOMAIN row_space
      BY <1>3 DEF NoLimitInv
    <2>2. DOMAIN truth \subseteq DOMAIN row_locations /\ \A q \in PageIds : PageOK(q)
      BY <1>3, <2>1 DEF DataInv
    <2>3. \A r \in DOMAIN row_locations :
             /\ row_locations[r] \in PageIds /\ row_locations[r] \in DOMAIN row_space
             /\ r \in RowsOf(row_locations[r]) /\ r \in RowIds
      BY <1>3, <2>1, RowsAreSomewhere
    <2>4. DOMAIN truth \subseteq L
      <3> SUFFICES ASSUME NEW r \in DOMAIN truth PROVE r \in L
        OBVIOUS
      <3>1. PICK p : p = row_locations[r]
        OBVIOUS
      <3>2. p \in PageIds /\ p \in DOMAIN row_space /\ r \in RowsOf(p) /\ r \in RowIds
        BY <2>2, <2>3, <3>1
      <3>3. Good(heap[row_space[p]], p)
        BY <2>2, <3>2 DEF PageOK, ResidentOK
      <3>4. r \in DOMAIN heap[row_space[p]].rows
        BY <1>20, <3>2, <3>3 DEF Good
      <3> QED  BY <1>10, <3>2, <3>4
    <2>5. LocatedPages \subseteq DOMAIN row_space
      BY <2>3 DEF LocatedPages
    <2>6. torn' = {}
      BY <1>5, <2>1, <2>4, <2>5
    <2>7. \A p \in PageIds : RowsOf(p)' # {} => p \in DOMAIN row_space'
      BY <1>12, <1>14, <1>19
    <2> QED  BY <1>9, <2>6, <2>7 DEF NoLimitInv, At, Threads
  <1> QED  BY <1>15, <1>16, <1>17, <1>18, <1>21, <1>22 DEF PageInv

-----------------------------------------------------------------------------
(* Results                                                                 *)

\* An empty table satisfies the invariant.
LEMMA InitOK == Init => PageInv
  <1> SUFFICES ASSUME Init PROVE PageInv
    OBVIOUS
  <1>1. /\ limit \in MemoryLimits /\ next_page_id = 0 /\ next_row_id = 0 /\ memory_used = 0
        /\ on_disk_pages = {} /\ unsaved = {} /\ torn = {}
        /\ thread = [t \in Threads |-> Idle]
    BY DEF Init
  <1>2. /\ DOMAIN heap = {} /\ DOMAIN row_space = {} /\ DOMAIN row_locations = {}
        /\ DOMAIN disk = {} /\ DOMAIN image = {} /\ DOMAIN truth = {}
    BY DEF Init, Empty
  <1>3. /\ \A t \in Threads : thread[t] = Idle
        /\ thread \in [Threads -> ThreadState]
    BY <1>1, IdleFacts
  <1>4. \A t \in Threads : /\ thread[t].pc = "idle" /\ thread[t].op = "none"
                           /\ thread[t].frame = None /\ thread[t].victim = None
                           /\ thread[t].head = {} /\ thread[t].todo = {}
    BY <1>3, IdleFacts
  <1>5. Vacuum \in Threads /\ Workers \subseteq Threads
    BY DEF Threads
  <1>6. MaxPages \in Nat /\ MaxRows \in Nat /\ Modulus \in Nat /\ Modulus > 0
    BY PageAssumption
  <1>7. LocatedPages = {} /\ (\A p : RowsOf(p) = {}) /\ (\A p : InFlight(p) = {})
    BY <1>2, <1>4, <1>5 DEF LocatedPages, RowsOf, InFlight
  <1>8. HeapInv
    <2>1. Live(row_space, thread) \subseteq {None}
      BY <1>2, <1>4 DEF Live
    <2> QED  BY <1>2, <2>1 DEF HeapInv
  <1>9. StoreInv
    BY <1>1, <1>2, <1>6, <1>7 DEF StoreInv
  <1>10. ThreadInv
    <2>1. \A t \in Threads : Steps(thread[t]) /\ Holds(thread[t]) /\ About(thread[t])
      BY <1>4 DEF Steps, Holds, About
    <2> QED  BY <1>3, <1>4, <1>5, <2>1 DEF ThreadInv, Exclusive, At
  <1>11. FrameInv
    BY <1>2, <1>4 DEF FrameInv, At
  <1>12. DataInv
    BY <1>2, <1>7 DEF DataInv, PageOK, ResidentOK, FlyingOK, ElsewhereOK
  <1>13. NoLimitInv
    BY <1>1, <1>4, <1>5, <1>7 DEF NoLimitInv, At
  <1> QED  BY <1>8, <1>9, <1>10, <1>11, <1>12, <1>13 DEF PageInv

\* Every step of every thread preserves it.
LEMMA NextKeeps == PageInv /\ [Next]_vars => PageInv'
  <1> SUFFICES ASSUME PageInv, [Next]_vars PROVE PageInv'
    OBVIOUS
  <1>1. CASE \E t \in Threads :
               \/ FetchHit(t) \/ FetchRead(t) \/ FetchFail(t) \/ Install(t)
               \/ EvictDone(t) \/ EvictTake(t) \/ flush_and_evict_page(t)
    BY <1>1, FetchHitKeeps, FetchReadKeeps, FetchFailKeeps, InstallKeeps,
       EvictDoneKeeps, EvictTakeKeeps, FlushEvictKeeps
  <1>2. CASE \E t \in Workers :
               \/ \E r \in RowIds, x \in TxnIds : BeginWrite(t, r, x)
               \/ Write(t)
               \/ \E x \in TxnIds : BeginInsert(t, x)
               \/ FindTail(t) \/ AppendTail(t) \/ register_page(t)
               \/ Place(t) \/ Locate(t)
    BY <1>2, BeginWriteKeeps, WriteKeeps, BeginInsertKeeps, FindTailKeeps,
       AppendTailKeeps, RegisterKeeps, PlaceKeeps, LocateKeeps
  <1>3. CASE \E x \in TxnIds : Commit(x) \/ rollback_transaction(x)
    BY <1>3, CommitKeeps, RollbackKeeps
  <1>4. CASE BeginVacuum \/ VacuumNext \/ compact
             \/ \E dead \in SUBSET RowIds : prune_versions(dead)
    BY <1>4, BeginVacuumKeeps, VacuumNextKeeps, CompactKeeps, PruneKeeps
  <1>5. CASE BeginFlush \/ FlushRead \/ FlushWrite \/ FlushFail
    BY <1>5, BeginFlushKeeps, FlushReadKeeps, FlushWriteKeeps, FlushFailKeeps
  <1>6. CASE UNCHANGED vars
    BY <1>6, StutterKeeps DEF vars
  <1> QED  BY <1>1, <1>2, <1>3, <1>4, <1>5, <1>6 DEF Next

\* The inductive invariant holds of every behaviour: of any number of workers,
\* rows, pages and transactions, whatever the sizes of rows and pages, with or
\* without a memory limit, with or without the background task.
THEOREM PageInvariance == Spec => []PageInv
  <1> QED  BY InitOK, NextKeeps, PTL DEF Spec

\* Every variable has its type; a page has one resident frame, and a frame is
\* freed when row_space and the threads have let it go, as Arcs are (table.rs
\* 463-595).
THEOREM PageTypes == Spec => []TypeOK
  <1>1. PageInv => TypeOK
    BY DEF PageInv, HeapInv, StoreInv, TypeOK
  <1> QED  BY <1>1, PageInvariance, PTL

\* The newest copy of a page that holds rows is an up-to-date one.
LEMMA CurrentIsGood ==
  ASSUME PageInv, torn = {}, NEW p, RowsOf(p) # {}
  PROVE  Good(Current(p), p)
  <1>1. StoreInv /\ ThreadInv /\ DataInv
    BY DEF PageInv
  <1>2. p \in PageIds
    BY <1>1, RowsAreSomewhere
  <1>3. ResidentOK(p) /\ FlyingOK(p) /\ ElsewhereOK(p)
    BY <1>1, <1>2 DEF DataInv, PageOK
  <1>4. CASE p \in DOMAIN row_space
    BY <1>3, <1>4 DEF Current, ResidentOK
  <1>5. CASE p \notin DOMAIN row_space /\ InFlight(p) # {}
    <2>1. PICK t : t = CHOOSE u \in InFlight(p) : TRUE
      OBVIOUS
    <2>2. t \in InFlight(p)
      BY <1>5, <2>1
    <2>3. Current(p) = heap[thread[t].victim]
      BY <1>5, <2>1 DEF Current
    <2> QED  BY <1>3, <2>2, <2>3 DEF FlyingOK
  <1>6. CASE p \notin DOMAIN row_space /\ InFlight(p) = {}
    BY <1>3, <1>6 DEF Current, ElsewhereOK, OnDisk
  <1> QED  BY <1>4, <1>5, <1>6

\* No write is lost through evictions, reloads, flushes and vacuums, until a row
\* meets one of the hazards that torn records (table.rs:498-595, 622-671,
\* 1117-1262, 1883-2006).
THEOREM RowsAreIntact == Spec => []RowsIntact
  <1>1. PageInv => RowsIntact
    <2> SUFFICES ASSUME PageInv, torn = {}, NEW r \in DOMAIN truth
                 PROVE  /\ r \in DOMAIN row_locations
                        /\ r \in DOMAIN Current(row_locations[r]).rows
                        /\ Current(row_locations[r]).rows[r] = truth[r]
      BY DEF RowsIntact
    <2>1. StoreInv /\ ThreadInv /\ r \in DOMAIN row_locations
      BY DEF PageInv, DataInv
    <2>2. r \in RowsOf(row_locations[r])
      BY <2>1, RowsAreSomewhere
    <2>3. Good(Current(row_locations[r]), row_locations[r])
      BY <2>2, CurrentIsGood
    <2>4. truth[r] \in Wanted(r)
      BY DEF Wanted
    <2> QED  BY <2>1, <2>2, <2>3, <2>4 DEF Good
  <1> QED  BY <1>1, PageInvariance, PTL

\* Until then a scan of the located pages meets no row twice: a page holds only
\* the rows that row_locations or an insert about to end has for it
\* (table.rs:815-833).
THEOREM ScansMeetRowsOnce == Spec => []ScanMeetsRowsOnce
  <1>1. PageInv => ScanMeetsRowsOnce
    <2> SUFFICES ASSUME PageInv, torn = {}, NEW p \in LocatedPages
                 PROVE  DOMAIN Current(p).rows \subseteq RowsOf(p)
      BY DEF ScanMeetsRowsOnce
    <2>1. StoreInv /\ ThreadInv
      BY DEF PageInv
    <2>2. RowsOf(p) # {}
      BY <2>1, RowsAreSomewhere DEF LocatedPages
    <2>3. Good(Current(p), p)
      BY <2>2, CurrentIsGood
    <2> QED  BY <2>3 DEF Good
  <1> QED  BY <1>1, PageInvariance, PTL

\* A table without a memory limit meets none of the hazards, so that the two
\* results above hold of it for good (config.rs:31-36).
THEOREM SafeWithoutMemoryLimit == Spec => []SafeWithoutLimit
  <1>1. PageInv => SafeWithoutLimit
    BY DEF PageInv, NoLimitInv, SafeWithoutLimit
  <1> QED  BY <1>1, PageInvariance, PTL

\* Without a memory limit every write that a statement completed stays, on the
\* resident copy of the page that row_locations names.
THEOREM UnlimitedKeepsEveryWrite ==
  Spec => [](limit = 0 =>
               \A r \in DOMAIN truth :
                  /\ r \in DOMAIN row_locations
                  /\ row_locations[r] \in DOMAIN row_space
                  /\ r \in DOMAIN heap[row_space[row_locations[r]]].rows
                  /\ heap[row_space[row_locations[r]]].rows[r] = truth[r])
  <1>1. PageInv => (limit = 0 =>
               \A r \in DOMAIN truth :
                  /\ r \in DOMAIN row_locations
                  /\ row_locations[r] \in DOMAIN row_space
                  /\ r \in DOMAIN heap[row_space[row_locations[r]]].rows
                  /\ heap[row_space[row_locations[r]]].rows[r] = truth[r])
    <2> SUFFICES ASSUME PageInv, limit = 0, NEW r \in DOMAIN truth
                 PROVE  /\ r \in DOMAIN row_locations
                        /\ row_locations[r] \in DOMAIN row_space
                        /\ r \in DOMAIN heap[row_space[row_locations[r]]].rows
                        /\ heap[row_space[row_locations[r]]].rows[r] = truth[r]
      OBVIOUS
    <2>1. StoreInv /\ ThreadInv /\ DataInv /\ NoLimitInv
      BY DEF PageInv
    <2>2. torn = {} /\ \A q \in PageIds : RowsOf(q) # {} => q \in DOMAIN row_space
      BY <2>1 DEF NoLimitInv
    <2>3. r \in DOMAIN row_locations /\ \A q \in PageIds : PageOK(q)
      BY <2>1, <2>2 DEF DataInv
    <2>4. PICK p : p = row_locations[r]
      OBVIOUS
    <2>5. r \in RowsOf(p) /\ p \in PageIds /\ p \in DOMAIN row_space
      BY <2>1, <2>2, <2>3, <2>4, RowsAreSomewhere
    <2>6. Good(heap[row_space[p]], p)
      BY <2>3, <2>5 DEF PageOK, ResidentOK
    <2>7. truth[r] \in Wanted(r)
      BY DEF Wanted
    <2> QED  BY <2>3, <2>4, <2>5, <2>6, <2>7 DEF Good
  <1> QED  BY <1>1, PageInvariance, PTL

=============================================================================
