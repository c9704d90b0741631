-------------------------- MODULE UniqueIndexProofs --------------------------
(***************************************************************************)
(* Proofs about the hash index, for every number of transactions, rows,    *)
(* keys and versions.  Every step of ISpec is a step of Mvcc or leaves its *)
(* variables alone, so MvccInv holds; IndexInv is inductive on top of it,  *)
(* and the four properties of the index follow.                            *)
(***************************************************************************)
EXTENDS UniqueIndex, MvccProofs, WellFoundedInduction

\* A set of naturals below a bound has a greatest member.
LEMMA GreatestExists ==
  ASSUME NEW S \in SUBSET Nat, NEW n \in Nat, S # {}, \A x \in S : x <= n
  PROVE  \E x \in S : \A y \in S : y <= x
  <1> DEFINE T == {n - x : x \in S}
         Less == {ss \in Nat \X Nat : ss[1] < ss[2]}
  <1>1. T \subseteq Nat /\ T # {}
    <2>1. \A x \in S : n - x \in Nat
      OBVIOUS
    <2>2. \E x \in S : n - x \in T
      OBVIOUS
    <2> QED  BY <2>1, <2>2
  <1>2. IsWellFoundedOn(Less, Nat)
    BY NatLessThanWellFounded DEF OpToRel
  <1>3. PICK m \in T : \A y \in T : ~(<<y, m>> \in Less)
    <2> HIDE DEF T, Less
    <2> QED  BY <1>1, <1>2, WFMin
  <1>4. \A y \in T : ~(y < m)
    <2> HIDE DEF T
    <2> QED  BY <1>1, <1>3
  <1>5. PICK x \in S : m = n - x
    OBVIOUS
  <1>6. \A y \in S : n - y \in T
    OBVIOUS
  <1> QED
    <2> SUFFICES ASSUME NEW y \in S PROVE y <= x
      BY <1>5
    <2>1. ~(n - y < n - x)
      BY <1>4, <1>5, <1>6
    <2> QED  BY <2>1

\* Every step of the table with its index is a step of the version chains.
LEMMA StepIsMvccStep == [INext]_ivars => [Next]_vars
  BY DEF INext, ivars, vars, snapshot, Next, Begin, Vacuum, Commit, Rollback, CreateIndex,
         Insert, PlaceLate, IndexLate, Delete, Update

\* So the invariant of the version chains holds.
LEMMA MvccHolds == ISpec => []MvccInv
  <1>1. IInit => Init
    BY DEF IInit
  <1>2. ISpec => Spec
    BY <1>1, StepIsMvccStep, PTL DEF ISpec, Spec
  <1> QED  BY <1>2, Invariance, PTL

\* Marking a version keeps its place, its data and its creator, and takes no
\* version away (row.rs:206-236).
LEMMA MarkContents ==
  ASSUME NEW v \in versions, versions \subseteq Version, NEW t \in Nat
  PROVE  /\ \A w \in MarkDeleted(v, t) : \E u \in versions :
               /\ u.row = w.row /\ u.data = w.data
               /\ u.created_by = w.created_by /\ u.pos = w.pos
         /\ \A u \in versions : \E w \in MarkDeleted(v, t) : u.row = w.row
  <1> DEFINE m == [v EXCEPT !.deleted_by = t]
  <1>1. /\ m.row = v.row /\ m.data = v.data /\ m.created_by = v.created_by
        /\ m.pos = v.pos /\ m \in MarkDeleted(v, t)
    BY DEF MarkDeleted, Version
  <1>2. \A w \in MarkDeleted(v, t) : w \in versions \/ w = m
    BY DEF MarkDeleted
  <1>3. \A u \in versions : u = v \/ u \in MarkDeleted(v, t)
    BY DEF MarkDeleted
  <1> HIDE DEF m
  <1> QED  BY <1>1, <1>2, <1>3

\* Rolling back keeps a version's place, data and creator (row.rs:245-259).
LEMMA RolledBackContents ==
  ASSUME NEW v \in Version, NEW t \in Nat
  PROVE  /\ RolledBack(v, t).row = v.row /\ RolledBack(v, t).pos = v.pos
         /\ RolledBack(v, t).data = v.data
         /\ RolledBack(v, t).created_by = v.created_by
  BY DEF RolledBack, Version

\* The intended relation between a version and a reader when no data has come
\* too late.
Plain(v, t) == /\ v.created_by \in committed \cup {t}
               /\ v.deleted_by \notin committed \cup {t}

LEMMA PlainFor ==
  ASSUME SerialState, ~overlapped, NEW v, NEW t
  PROVE  Intended(v, t) <=> Plain(v, t)
  BY DEF SerialState, Late, Intended, Plain

\* With one transaction at a time, what it sees carries no mark.
LEMMA SerialUnmarked ==
  ASSUME CoreInv, SerialState, ~overlapped,
         NEW v \in versions, NEW t \in active_transaction, is_visible(v, t)
  PROVE  v.deleted_by = None
  <1>1. t \in Readers /\ WatermarkCurrent
    BY DEF Readers, SerialState
  <1>2. Plain(v, t)
    BY <1>1, ExactFor, PlainFor
  <1>3. \A a \in active_transaction : a = t
    BY DEF SerialState
  <1> QED
    BY <1>2, <1>3 DEF Plain, CoreInv, HeadersConsistent, Aborted

\* IndexInv holds initially.
LEMMA InitIndexInv == IInit => IndexInv
  BY DEF IInit, Init, IndexInv, IndexTypeOK, NoDanglingEntry, TagsNotAborted,
         EntriesTagged, SerialState, WatermarkCurrent

\* What update_index does to the index (column.rs:168-200).
LEMMA UpdateIndexFacts ==
  ASSUME IndexTypeOK, NEW k \in Values, NEW r \in Nat, NEW t \in Nat,
         update_index(k, r, t)
  PROVE  /\ index' \subseteq Entry
         /\ retagged \subseteq retagged' /\ retagged' \subseteq Nat
         /\ \A e, f \in index' : e.key = f.key /\ e.row = f.row => e = f
         /\ \E e \in index' : e.key = Key[k] /\ e.row = r /\ e.added_by = t
         /\ \A e \in index' : e \in index \/ (e.row = r /\ e.added_by = t)
         /\ \A e \in index :
               \/ e \in index'
               \/ e.key = Key[k] /\ e.row = r /\ (e.added_by = t \/ r \in retagged')
  <1> DEFINE n == [key |-> Key[k], row |-> r, added_by |-> t]
  <1>1. /\ index' = {e \in index : ~(e.key = Key[k] /\ e.row = r)} \cup {n}
        /\ retagged' = retagged \cup
              {e.row : e \in {f \in index : f.key = Key[k] /\ f.row = r /\ f.added_by # t}}
    BY DEF update_index
  <1>2. n.key = Key[k] /\ n.row = r /\ n.added_by = t /\ n \in Entry
    BY KeyAssumption DEF Entry
  <1>3. index \subseteq Entry /\ retagged \subseteq Nat
    BY DEF IndexTypeOK
  <1>4. \A e \in index : e.row \in Nat
    BY <1>3 DEF Entry
  <1> HIDE DEF n
  <1>5. index' \subseteq Entry
    BY <1>1, <1>2, <1>3
  <1>6. retagged \subseteq retagged' /\ retagged' \subseteq Nat
    BY <1>1, <1>3, <1>4
  <1>7. \A e, f \in index' : e.key = f.key /\ e.row = f.row => e = f
    BY <1>1, <1>2 DEF IndexTypeOK
  <1>8. \A e \in index : e.key = Key[k] /\ e.row = r /\ e.added_by # t => r \in retagged'
    BY <1>1
  <1> QED  BY <1>1, <1>2, <1>5, <1>6, <1>7, <1>8

\* A write leaves the bookkeeping alone, whichever row operation it is.
Untouched == UNCHANGED <<next_transaction_id, active_transaction, last_possible,
                         smallest_active, committed>>

\* Every step keeps IndexInv, action by action.
LEMMA StepIndexInv == MvccInv /\ IndexInv /\ [INext]_ivars => IndexInv'
  <1> SUFFICES ASSUME MvccInv, IndexInv, [INext]_ivars PROVE IndexInv'
    OBVIOUS
  <1>0. /\ CoreInv /\ versions \subseteq Version
        /\ active_transaction \subseteq Nat \ {0}
        /\ next_row_id \in Nat
        /\ \A v \in versions : /\ v.row \in Nat /\ v.data \in Values
                               /\ v.row <= next_row_id
                               /\ v.created_by \in Begun
    BY DEF MvccInv, CoreInv, TypeOK, Version, Bookkeeping, Begun, PlacesUnique,
           HeadersConsistent
  <1> USE DEF IndexInv
  <1>1. CASE Begin
    <2>1. /\ UNCHANGED <<index, unindexed, retagged, versions, last_possible, committed,
                         clobbered, late>>
          /\ active_transaction' = active_transaction \cup {next_transaction_id}
          /\ next_transaction_id' = next_transaction_id + 1
          /\ overlapped' = (overlapped \/ active_transaction # {})
      BY <1>1 DEF Begin, create_transaction
    <2>2. Aborted' = Aborted
      BY <2>1 DEF Aborted, Begun, MvccInv, TypeOK
    <2>3. IndexTypeOK' /\ NoDanglingEntry' /\ TagsNotAborted' /\ EntriesTagged'
      BY <2>1, <2>2 DEF IndexTypeOK, NoDanglingEntry, TagsNotAborted, EntriesTagged,
                        Undone, Late, Pending
    <2>4. SerialState'
      <3>1. ~overlapped' => ~overlapped /\ active_transaction = {}
        BY <2>1
      <3>2. active_transaction = {} =>
              \A a \in active_transaction' : a = next_transaction_id' - 1
        BY <2>1 DEF MvccInv, TypeOK
      <3> QED  BY <2>1, <3>1, <3>2 DEF SerialState, WatermarkCurrent
    <2> QED  BY <2>3, <2>4
  <1>2. CASE Vacuum
    <2>1. /\ versions' \subseteq versions
          /\ index' = {e \in index : \E v \in versions' : v.row = e.row}
          /\ UNCHANGED <<next_transaction_id, active_transaction, last_possible,
                         committed, clobbered, late, unindexed, retagged, overlapped>>
      BY <1>2 DEF Vacuum, auto_vacuum, prune_index, snapshot
    <2>2. Aborted' = Aborted
      BY <2>1 DEF Aborted, Begun
    <2>3. IndexTypeOK' /\ NoDanglingEntry' /\ TagsNotAborted'
      BY <2>1, <2>2 DEF IndexTypeOK, NoDanglingEntry, TagsNotAborted
    <2>4. EntriesTagged'
      BY <2>1, <2>2 DEF EntriesTagged, Undone, Late, Pending
    <2>5. SerialState'
      BY <2>1 DEF SerialState, WatermarkCurrent
    <2> QED  BY <2>3, <2>4, <2>5
  <1>3. ASSUME NEW t \in TxnIds, Commit(t) PROVE IndexInv'
    <2>1. /\ UNCHANGED <<index, unindexed, retagged, overlapped, versions, clobbered,
                         late, next_transaction_id>>
          /\ t \in active_transaction
          /\ active_transaction' = active_transaction \ {t}
          /\ last_possible' = t
          /\ committed' = committed \cup {t}
      BY <1>3 DEF Commit, commit_transaction
    <2>2. Aborted' = Aborted
      BY <2>1 DEF Aborted, Begun
    <2>3. IndexTypeOK' /\ NoDanglingEntry' /\ TagsNotAborted' /\ EntriesTagged'
      BY <2>1, <2>2 DEF IndexTypeOK, NoDanglingEntry, TagsNotAborted, EntriesTagged,
                        Undone, Late, Pending
    <2>4. SerialState'
      BY <2>1 DEF SerialState, WatermarkCurrent, MvccInv, TypeOK, Bookkeeping, Begun
    <2> QED  BY <2>3, <2>4
  <1>4. ASSUME NEW t \in TxnIds, Rollback(t) PROVE IndexInv'
    <2>1. /\ UNCHANGED <<unindexed, retagged, overlapped, committed, clobbered, late,
                         last_possible, next_transaction_id>>
          /\ t \in active_transaction
          /\ active_transaction' = active_transaction \ {t}
          /\ versions' = {RolledBack(v, t) : v \in versions}
          /\ index' = {e \in index : e.added_by # t}
      BY <1>4 DEF Rollback, rollback_transaction, rollback_index_transaction
    <2>2. Aborted' = Aborted \cup {t}
      BY <2>1 DEF Aborted, Begun, MvccInv, Bookkeeping
    <2>3. \A v \in versions : /\ RolledBack(v, t).row = v.row
                              /\ RolledBack(v, t).pos = v.pos
                              /\ RolledBack(v, t).data = v.data
                              /\ RolledBack(v, t).created_by = v.created_by
      BY <1>0, <2>1, RolledBackContents
    <2>4. IndexTypeOK'
      BY <2>1 DEF IndexTypeOK
    <2>5. NoDanglingEntry'
      BY <2>1, <2>3 DEF NoDanglingEntry
    <2>6. TagsNotAborted'
      BY <2>1, <2>2 DEF TagsNotAborted
    <2>7. EntriesTagged'
      <3>1. \A v \in versions : ~Undone(RolledBack(v, t))' => ~Undone(v) /\ v.created_by # t
        BY <2>1, <2>2, <2>3 DEF Undone, Late, MvccInv, HeadersConsistent
      <3> QED  BY <2>1, <2>3, <3>1 DEF EntriesTagged, Pending
    <2>8. SerialState'
      BY <2>1 DEF SerialState, WatermarkCurrent
    <2> QED  BY <2>4, <2>5, <2>6, <2>7, <2>8
  <1>5. ASSUME NEW t \in TxnIds, CreateIndex(t) PROVE IndexInv'
    <2>1. /\ UNCHANGED <<next_transaction_id, active_transaction, last_possible,
                         versions, committed, clobbered, late, unindexed, retagged,
                         overlapped>>
          /\ t \in active_transaction /\ index = {}
          /\ index' = build_column_index_from_rows(t)
      BY <1>5 DEF CreateIndex, vars, snapshot
    <2>2. Aborted' = Aborted /\ None \notin Aborted
      BY <2>1 DEF Aborted, Begun, None
    <2>3. \A e \in index' : /\ e \in Entry /\ e.added_by = None
                            /\ \E v \in versions : /\ get_versioned_row(v, v.row, t)
                                                   /\ v.row = e.row /\ Key[v.data] = e.key
      BY <1>0, <2>1, KeyAssumption DEF build_column_index_from_rows, Entry, None
    <2>4. IndexTypeOK'
      <3>1. \A e, f \in index' : e.key = f.key /\ e.row = f.row => e = f
        BY <2>3 DEF Entry
      <3> QED  BY <2>1, <2>3, <3>1 DEF IndexTypeOK
    <2>5. NoDanglingEntry' /\ TagsNotAborted'
      BY <2>1, <2>2, <2>3 DEF NoDanglingEntry, TagsNotAborted
    <2>6. EntriesTagged'
      BY <2>1, <2>2 DEF EntriesTagged, Undone, Late, Pending
    <2>7. SerialState'
      BY <2>1 DEF SerialState, WatermarkCurrent
    <2> QED  BY <2>4, <2>5, <2>6, <2>7
  <1>6. ASSUME NEW t \in TxnIds, NEW k \in Values, Insert(t, k) PROVE IndexInv'
    <2>0. PICK n : n = NewVersion(next_row_id + 1, 1, t, k)
      OBVIOUS
    <2>1. /\ versions' = versions \cup {n}
          /\ Untouched /\ UNCHANGED <<clobbered, late, unindexed, overlapped>>
          /\ t \in active_transaction
          /\ update_index(k, next_row_id + 1, t)
      BY <1>6, <2>0 DEF Insert, insert_row, snapshot, Untouched
    <2>2. Aborted' = Aborted /\ t \notin Aborted
      BY <2>1 DEF Aborted, Begun, Untouched
    <2>3. n.row = next_row_id + 1 /\ n.data = k /\ n.created_by = t
      BY <2>0 DEF NewVersion
    <2>4. t \in Nat
      BY DEF TxnIds
    <2>5. IndexTypeOK'
      BY <1>0, <2>1, <2>4, UpdateIndexFacts DEF IndexTypeOK
    <2>6. NoDanglingEntry'
      BY <1>0, <2>1, <2>3, <2>4, UpdateIndexFacts DEF NoDanglingEntry
    <2>7. TagsNotAborted'
      BY <1>0, <2>1, <2>2, <2>4, UpdateIndexFacts DEF TagsNotAborted
    <2>8. EntriesTagged'
      <3> SUFFICES ASSUME NEW v \in versions', ~Undone(v)', ~Pending(v)',
                          v.row \notin retagged'
                   PROVE  \E e \in index' : /\ e.key = Key[v.data] /\ e.row = v.row
                                            /\ e.added_by = v.created_by
        BY DEF EntriesTagged
      <3>1. CASE v = n
        BY <1>0, <2>1, <2>3, <2>4, <3>1, UpdateIndexFacts
      <3>2. CASE v \in versions
        <4>1. v.row \notin retagged /\ v.row # next_row_id + 1
          BY <1>0, <2>1, <2>4, <3>2, UpdateIndexFacts
        <4>2. ~Undone(v) /\ ~Pending(v)
          BY <2>1, <2>2 DEF Undone, Late, Pending
        <4>3. PICK e \in index : /\ e.key = Key[v.data] /\ e.row = v.row
                                 /\ e.added_by = v.created_by
          BY <3>2, <4>1, <4>2 DEF EntriesTagged
        <4>4. e \in index'
          BY <1>0, <2>1, <2>4, <4>1, <4>3, UpdateIndexFacts
        <4> QED  BY <4>3, <4>4
      <3> QED  BY <2>1, <3>1, <3>2
    <2>9. SerialState'
      BY <2>1 DEF SerialState, WatermarkCurrent, Untouched
    <2> QED  BY <2>5, <2>6, <2>7, <2>8, <2>9
  <1>7. ASSUME NEW t \in active_transaction, NEW v \in versions, is_visible(v, t),
               NoteClobber(v), Untouched, UNCHANGED <<overlapped, late>>
        PROVE  SerialState'
    <2>1. ~overlapped => clobbered' = clobbered
      BY <1>0, <1>7, SerialUnmarked DEF NoteClobber
    <2> QED  BY <1>7, <2>1 DEF SerialState, WatermarkCurrent, Untouched
  <1>8. ASSUME NEW t \in TxnIds, NEW r \in RowIds, Delete(t, r) PROVE IndexInv'
    <2>1. PICK v \in versions : /\ is_visible(v, t)
                                /\ versions' = MarkDeleted(v, t)
                                /\ NoteClobber(v)
      BY <1>8 DEF Delete, delete_row, get_versioned_row, VisibleVersions
    <2>2. /\ Untouched /\ UNCHANGED <<index, unindexed, retagged, overlapped, late>>
          /\ t \in active_transaction
      BY <1>8 DEF Delete, delete_row, snapshot, Untouched
    <2>3. Aborted' = Aborted
      BY <2>2 DEF Aborted, Begun, Untouched
    <2>4. t \in Nat
      BY <1>0, <2>2
    <2>5. IndexTypeOK' /\ TagsNotAborted'
      BY <2>2, <2>3 DEF IndexTypeOK, TagsNotAborted
    <2>6. NoDanglingEntry' /\ EntriesTagged'
      <3>1. \A u \in versions : \E w \in versions' : u.row = w.row
        BY <1>0, <2>1, <2>4, MarkContents
      <3>2. \A w \in versions' : \E u \in versions :
               /\ u.row = w.row /\ u.data = w.data /\ u.created_by = w.created_by
               /\ u.pos = w.pos
        BY <1>0, <2>1, <2>4, MarkContents
      <3> QED
        BY <2>2, <2>3, <3>1, <3>2
           DEF NoDanglingEntry, EntriesTagged, Undone, Late, Pending
    <2>7. SerialState'
      BY <1>7, <2>1, <2>2
    <2> QED  BY <2>5, <2>6, <2>7
  <1>9. ASSUME NEW t \in TxnIds, NEW r \in RowIds, NEW k \in Values, Update(t, r, k)
        PROVE  IndexInv'
    <2>1. PICK v \in versions, p \in 1..MaxVersions :
              /\ is_visible(v, t)
              /\ versions' = MarkDeleted(v, t) \cup {NewVersion(r, p, t, k)}
              /\ NoteClobber(v)
      BY <1>9 DEF Update, update_row, get_versioned_row, VisibleVersions
    <2> DEFINE n == NewVersion(r, p, t, k)
    <2>2. /\ Untouched /\ UNCHANGED <<unindexed, overlapped, late>>
          /\ t \in active_transaction
          /\ update_index(k, r, t)
      BY <1>9 DEF Update, update_row, snapshot, Untouched
    <2>3. Aborted' = Aborted /\ t \notin Aborted
      BY <2>2 DEF Aborted, Begun, Untouched
    <2>4. t \in Nat /\ r \in Nat
      BY <1>0, <2>2 DEF RowIds
    <2>5. n.row = r /\ n.data = k /\ n.created_by = t
      BY DEF NewVersion
    <2>6. IndexTypeOK'
      BY <2>2, <2>4, UpdateIndexFacts DEF IndexTypeOK
    <2> HIDE DEF n
    <2>7. NoDanglingEntry'
      <3> SUFFICES ASSUME NEW e \in index' PROVE \E w \in versions' : w.row = e.row
        BY DEF NoDanglingEntry
      <3>1. e \in index \/ e.row = r
        BY <2>2, <2>4, UpdateIndexFacts
      <3>2. \A u \in versions : \E w \in versions' : u.row = w.row
        BY <1>0, <2>1, <2>4, MarkContents
      <3>3. n \in versions'
        BY <2>1 DEF n
      <3> QED  BY <2>5, <3>1, <3>2, <3>3 DEF NoDanglingEntry
    <2>8. TagsNotAborted'
      BY <2>2, <2>3, <2>4, UpdateIndexFacts DEF TagsNotAborted
    <2>9. EntriesTagged'
      <3> SUFFICES ASSUME NEW w \in versions', ~Undone(w)', ~Pending(w)',
                          w.row \notin retagged'
                   PROVE  \E e \in index' : /\ e.key = Key[w.data] /\ e.row = w.row
                                            /\ e.added_by = w.created_by
        BY DEF EntriesTagged
      <3>1. CASE w = n
        BY <2>2, <2>4, <2>5, <3>1, UpdateIndexFacts
      <3>2. CASE w \in MarkDeleted(v, t)
        <4>1. PICK u \in versions : /\ u.row = w.row /\ u.data = w.data
                                    /\ u.created_by = w.created_by /\ u.pos = w.pos
          BY <1>0, <2>4, <3>2, MarkContents
        <4>2. u.row \notin retagged /\ ~Undone(u) /\ ~Pending(u)
          BY <2>2, <2>3, <2>4, <4>1, UpdateIndexFacts DEF Undone, Late, Pending
        <4>3. PICK e \in index : /\ e.key = Key[u.data] /\ e.row = u.row
                                 /\ e.added_by = u.created_by
          BY <4>1, <4>2 DEF EntriesTagged
        <4>4. CASE e \in index'
          BY <4>1, <4>3, <4>4
        <4>5. CASE e.key = Key[k] /\ e.row = r /\ (e.added_by = t \/ r \in retagged')
          BY <2>2, <2>4, <4>1, <4>3, <4>5, UpdateIndexFacts
        <4> QED  BY <2>2, <2>4, <4>4, <4>5, UpdateIndexFacts
      <3> QED  BY <2>1, <3>1, <3>2 DEF n
    <2>10. SerialState'
      BY <1>7, <2>1, <2>2
    <2> QED  BY <2>6, <2>7, <2>8, <2>9, <2>10
  <1>10. ASSUME NEW t \in TxnIds, NEW k \in Values, PlaceLate(t, k) PROVE IndexInv'
    <2>0. PICK n : n = NewVersion(next_row_id + 1, 1, t, k)
      OBVIOUS
    <2>1. /\ versions' = versions \cup {n}
          /\ Untouched /\ UNCHANGED <<index, retagged>>
          /\ unindexed' = unindexed \cup {next_row_id + 1}
          /\ late' = late \cup {next_row_id + 1}
          /\ overlapped'
      BY <1>10, <2>0 DEF PlaceLate, insert_row, snapshot, Untouched
    <2>2. Aborted' = Aborted
      BY <2>1 DEF Aborted, Begun, Untouched
    <2>3. n.row = next_row_id + 1 /\ n.pos = 1
      BY <2>0 DEF NewVersion
    <2>4. IndexTypeOK' /\ NoDanglingEntry' /\ TagsNotAborted'
      BY <2>1, <2>2 DEF IndexTypeOK, NoDanglingEntry, TagsNotAborted
    <2>5. EntriesTagged'
      <3>1. \A v \in versions : /\ v.row # next_row_id + 1
                                /\ Undone(v) => Undone(v)'
                                /\ Pending(v) => Pending(v)'
        BY <1>0, <2>1, <2>2 DEF Undone, Late, Pending
      <3>2. Pending(n)'
        BY <2>1, <2>3 DEF Pending
      <3> QED  BY <2>1, <3>1, <3>2 DEF EntriesTagged
    <2>6. SerialState'
      BY <2>1 DEF SerialState
    <2> QED  BY <2>4, <2>5, <2>6
  <1>11. ASSUME NEW r \in RowIds, IndexLate(r) PROVE IndexInv'
    <2>1. PICK v \in versions : /\ v.row = r /\ v.pos = 1
                                /\ update_index(v.data, r, v.created_by)
      BY <1>11 DEF IndexLate
    <2>2. /\ UNCHANGED <<versions, late, clobbered, overlapped>> /\ Untouched
          /\ unindexed' = unindexed \ {r}
          /\ r \in late
      BY <1>11 DEF IndexLate, vars, snapshot, Untouched, IndexTypeOK
    <2>3. Aborted' = Aborted
      BY <2>2 DEF Aborted, Begun, Untouched
    <2>4. r \in Nat /\ v.data \in Values /\ v.created_by \in Nat
      BY <1>0, <2>1 DEF Version, RowIds
    <2>5. IndexTypeOK'
      BY <2>1, <2>2, <2>4, UpdateIndexFacts DEF IndexTypeOK
    <2>6. NoDanglingEntry' /\ TagsNotAborted'
      BY <2>1, <2>2, <2>3, <2>4, UpdateIndexFacts DEF NoDanglingEntry, TagsNotAborted
    <2>7. EntriesTagged'
      <3> SUFFICES ASSUME NEW w \in versions, ~Undone(w), ~Pending(w)',
                          w.row \notin retagged'
                   PROVE  \E e \in index' : /\ e.key = Key[w.data] /\ e.row = w.row
                                            /\ e.added_by = w.created_by
        BY <2>2, <2>3 DEF EntriesTagged, Undone, Late
      <3>1. CASE w = v
        BY <2>1, <2>4, <3>1, UpdateIndexFacts
      <3>2. CASE w # v
        <4>1. ~(w.row = r /\ w.pos = 1)
          BY <2>1, <3>2 DEF MvccInv, PlacesUnique
        <4>2. ~Pending(w) /\ w.row \notin retagged
          BY <2>1, <2>2, <2>4, <4>1, UpdateIndexFacts DEF Pending
        <4>3. PICK e \in index : /\ e.key = Key[w.data] /\ e.row = w.row
                                 /\ e.added_by = w.created_by
          BY <4>2 DEF EntriesTagged
        <4>4. CASE e \in index'
          BY <4>3, <4>4
        <4>5. CASE e.key = Key[v.data] /\ e.row = r /\ (e.added_by = v.created_by \/ r \in retagged')
          BY <2>1, <2>4, <4>3, <4>5, UpdateIndexFacts
        <4> QED  BY <2>1, <2>4, <4>4, <4>5, UpdateIndexFacts
      <3> QED  BY <3>1, <3>2
    <2>8. SerialState'
      BY <2>2 DEF SerialState, WatermarkCurrent, Untouched
    <2> QED  BY <2>5, <2>6, <2>7, <2>8
  <1>12. CASE UNCHANGED ivars
    BY <1>12 DEF ivars, vars, snapshot, IndexTypeOK, NoDanglingEntry, TagsNotAborted,
                 EntriesTagged, SerialState, WatermarkCurrent, Aborted, Begun,
                 Undone, Late, Pending
  <1> QED
    BY <1>1, <1>2, <1>3, <1>4, <1>5, <1>6, <1>8, <1>9, <1>10, <1>11, <1>12 DEF INext

\* The index stays well formed, whatever transactions, vacuum and CREATE INDEX
\* do (column.rs:168-265): IndexInv holds in every reachable state.
THEOREM IndexInvariance == ISpec => []IndexInv
  <1>1. MvccInv /\ IndexInv /\ [INext]_ivars => IndexInv'
    BY StepIndexInv
  <1> QED  BY <1>1, InitIndexInv, MvccHolds, PTL DEF ISpec

\* Every version that no rollback has undone is found under its key once its
\* insert is over, re-tagged rows excepted: no rollback of another transaction
\* and no vacuum takes its entry away (column.rs:168-265).
THEOREM LiveVersionsAreIndexed == ISpec => []LiveVersionsIndexed
  <1>1. IndexInv => LiveVersionsIndexed
    BY DEF IndexInv, EntriesTagged, LiveVersionsIndexed
  <1> QED  BY <1>1, IndexInvariance, PTL

\* What a transaction sees is in the index, unsettled rows excepted.
LEMMA SeenIsIndexed ==
  ASSUME MvccInv, IndexInv, NEW t \in Readers, NEW v \in versions,
         is_visible(v, t), v.row \notin Unsettled
  PROVE  \E e \in index : e.key = Key[v.data] /\ e.row = v.row
  <1>1. ~Undone(v)
    BY VisibleFate DEF MvccInv, CoreInv
  <1> QED  BY <1>1 DEF IndexInv, EntriesTagged, Pending, Unsettled

\* A row of which t sees some version has a youngest visible version
\* (Row::get_versioned_row, row.rs:190-204).
LEMMA YoungestExists ==
  ASSUME MvccInv, NEW r, NEW t, VisibleVersions(r, t) # {}
  PROVE  \E v \in versions : get_versioned_row(v, r, t)
  <1> DEFINE P == {v.pos : v \in VisibleVersions(r, t)}
  <1>1. \A v \in VisibleVersions(r, t) :
           v \in versions /\ v.pos \in Nat /\ v.pos <= MaxVersions
    BY BoundsAssumption DEF VisibleVersions, MvccInv, WithinBounds
  <1>2. P \in SUBSET Nat /\ P # {} /\ \A x \in P : x <= MaxVersions
    BY <1>1
  <1>3. PICK x \in P : \A y \in P : y <= x
    <2> HIDE DEF P
    <2> QED  BY <1>2, GreatestExists, BoundsAssumption
  <1>4. PICK v \in VisibleVersions(r, t) : x = v.pos
    OBVIOUS
  <1>5. \A w \in VisibleVersions(r, t) : w.pos \in P
    OBVIOUS
  <1> QED  BY <1>1, <1>3, <1>4, <1>5 DEF get_versioned_row

\* A row that t sees with a value of the same key as k is found under k.
LEMMA SeenIsFound ==
  ASSUME MvccInv, IndexInv, NEW t \in active_transaction, NEW k, NEW d, Key[d] = Key[k],
         NEW r \in RowIds, r \notin Unsettled, Sees(t, r, d)
  PROVE  r \in lookup_rows_by_column_value(k, t)
  <1> DEFINE candidates == {e.row : e \in {f \in index : f.key = Key[k]}}
  <1>1. PICK v \in versions : /\ v.row = r /\ is_visible(v, t) /\ v.data = d
                              /\ v \in VisibleVersions(r, t)
    BY DEF Sees, get_versioned_row, VisibleVersions
  <1>2. \E e \in index : e.key = Key[k] /\ e.row = r
    BY <1>1, SeenIsIndexed DEF Readers
  <1>3. r \in candidates
    BY <1>2
  <1> QED
    BY <1>1, <1>3 DEF lookup_rows_by_column_value, filter_visible_index_candidates

\* A search by index finds the rows that a scan finds, except for rows with an
\* overwritten tag and rows that a COPY is just inserting for a transaction that
\* has ended (table.rs:1264-1293, 1551-1577, 1733-1817).
THEOREM IndexSearchIsScan == ISpec => []SearchAgrees
  <1>1. MvccInv /\ IndexInv => SearchAgrees
    <2> SUFFICES ASSUME MvccInv, IndexInv, NEW t \in active_transaction, NEW k \in Values,
                        NEW r, r \notin Unsettled
                 PROVE  r \in index_search(k, t) <=> r \in RowIds /\ Sees(t, r, k)
      BY DEF SearchAgrees
    <2>1. Sees(t, r, k) => r \in RowIds
      BY DEF Sees, get_versioned_row, VisibleVersions, MvccInv, WithinBounds
    <2> QED
      BY <2>1, SeenIsFound DEF index_search
  <1> QED  BY <1>1, IndexInvariance, MvccHolds, PTL

\* A foreign key lookup is right about the key of every row that is indexed under
\* one key only, and misses no row that holds the value looked up, unsettled rows
\* excepted (table.rs:985-1004, 1470-1499, database.rs:177-200).
THEOREM ForeignKeysExact == ISpec => []ForeignKeyExact
  <1>1. MvccInv /\ IndexInv => ForeignKeyExact
    <2> SUFFICES ASSUME MvccInv, IndexInv, NEW t \in active_transaction, NEW k \in Values
                 PROVE  /\ \A r \in RowIds \ Unsettled :
                              (\A e, f \in index : e.row = r /\ f.row = r => e.key = f.key) =>
                                (r \in lookup_rows_by_column_value(k, t) <=>
                                   \E d \in Values : Key[d] = Key[k] /\ Sees(t, r, d))
                        /\ (\E r \in RowIds \ Unsettled : Sees(t, r, k)) =>
                              referenced_value_exists(k, t)
      BY DEF ForeignKeyExact
    <2>1. ASSUME NEW r \in RowIds \ Unsettled,
                 \A e, f \in index : e.row = r /\ f.row = r => e.key = f.key,
                 r \in lookup_rows_by_column_value(k, t)
          PROVE  \E d \in Values : Key[d] = Key[k] /\ Sees(t, r, d)
      <3> DEFINE candidates == {e.row : e \in {f \in index : f.key = Key[k]}}
      <3>1. CASE candidates = {}
        BY <2>1, <3>1 DEF lookup_rows_by_column_value
      <3>2. CASE candidates # {}
        <4>1. r \in candidates /\ VisibleVersions(r, t) # {}
          BY <2>1, <3>2
             DEF lookup_rows_by_column_value, filter_visible_index_candidates
        <4>2. PICK e \in index : e.key = Key[k] /\ e.row = r
          BY <4>1
        <4>3. PICK v \in versions : get_versioned_row(v, r, t)
          BY <4>1, YoungestExists
        <4>4. v.row = r /\ is_visible(v, t) /\ v.data \in Values
          BY <4>3 DEF get_versioned_row, VisibleVersions, MvccInv, TypeOK, Version
        <4>5. PICK f \in index : f.key = Key[v.data] /\ f.row = r
          BY <2>1, <4>4, SeenIsIndexed DEF Readers
        <4>6. Key[v.data] = Key[k]
          BY <2>1, <4>2, <4>5
        <4> QED  BY <4>3, <4>4, <4>6 DEF Sees
      <3> QED  BY <3>1, <3>2
    <2>2. ASSUME NEW r \in RowIds \ Unsettled, NEW d \in Values,
                 Key[d] = Key[k], Sees(t, r, d)
          PROVE  r \in lookup_rows_by_column_value(k, t)
      BY <2>2, SeenIsFound
    <2> QED  BY <2>1, <2>2 DEF referenced_value_exists
  <1> QED  BY <1>1, IndexInvariance, MvccHolds, PTL

\* No two of the rows that t should see hold the same value.
DistinctFor(t) ==
  \A v, w \in versions :
     /\ Plain(v, t) /\ Plain(w, t)
     /\ v.row # w.row /\ v.row \notin retagged /\ w.row \notin retagged
     => v.data # w.data

SerialDistinct == ~overlapped => \A t \in Readers : DistinctFor(t)

\* With one transaction at a time, the version that t sees of a row is the one
\* that it should see.
LEMMA SerialYoungest ==
  ASSUME MvccInv, SerialState, ~overlapped, NEW t \in Readers, NEW v \in versions
  PROVE  get_versioned_row(v, v.row, t) <=> Plain(v, t)
  <1>1. is_visible(v, t) <=> Plain(v, t)
    BY ExactFor, PlainFor DEF SerialState, MvccInv, CoreInv
  <1>2. \A w \in versions : w.row = v.row /\ is_visible(w, t) /\ is_visible(v, t) => w = v
    BY SingleVisible DEF SingleVisibleVersion, SerialState
  <1>3. v.pos <= v.pos
    BY DEF MvccInv, TypeOK, Version
  <1> QED  BY <1>1, <1>2, <1>3 DEF get_versioned_row, VisibleVersions

\* A key that passed the unique check is none that t already sees
\* (column.rs:286-309).
LEMMA CheckedKeyIsNew ==
  ASSUME MvccInv, IndexInv, ~overlapped, NEW t \in active_transaction, NEW k, NEW x,
         ~UniqueConflict(t, k, x),
         NEW w \in versions, Plain(w, t), w.row # x, w.row \notin retagged
  PROVE  w.data # k
  <1> SUFFICES ASSUME w.data = k PROVE FALSE
    OBVIOUS
  <1>1. t \in Readers /\ SerialState /\ CoreInv /\ WatermarkCurrent
    BY DEF Readers, IndexInv, SerialState, MvccInv, CoreInv
  <1>2. get_versioned_row(w, w.row, t) /\ is_visible(w, t)
    BY <1>1, SerialYoungest, ExactFor, PlainFor
  <1>3. PICK e \in index : e.key = Key[w.data] /\ e.row = w.row
    BY <1>1, <1>2, SeenIsIndexed
       DEF IndexInv, IndexTypeOK, SerialState, Unsettled
  <1>4. Sees(t, e.row, k)
    BY <1>2, <1>3 DEF Sees
  <1> QED  BY <1>3, <1>4 DEF UniqueConflict

\* A reader all of whose rows some reader of the state before had as well sees no
\* duplicates if that one did not.
LEMMA CarriedDistinct ==
  ASSUME NEW t, NEW s, DistinctFor(s), retagged \subseteq retagged',
         \A v \in versions' : Plain(v, t)' =>
            \E u \in versions : Plain(u, s) /\ u.row = v.row /\ u.data = v.data
  PROVE  DistinctFor(t)'
  BY DEF DistinctFor

\* Every step keeps the keys distinct, as long as transactions do not overlap.
LEMMA StepDistinct ==
  MvccInv /\ IndexInv /\ SerialDistinct /\ [INext]_ivars => SerialDistinct'
  <1> SUFFICES ASSUME MvccInv, IndexInv, SerialDistinct, [INext]_ivars,
                      ~overlapped', NEW t \in Readers'
               PROVE  DistinctFor(t)'
    BY DEF SerialDistinct
  <1>0. /\ CoreInv /\ SerialState /\ versions \subseteq Version
        /\ active_transaction \subseteq Nat \ {0}
        /\ next_row_id \in Nat /\ next_transaction_id \in Nat
        /\ active_transaction \cap committed = {}
        /\ None \notin committed
        /\ next_transaction_id \notin active_transaction \cup committed
        /\ \A v \in versions :
              /\ v.row \in Nat /\ v.row <= next_row_id
              /\ v.created_by \in Begun /\ v.deleted_by \in Begun \cup {None}
    BY DEF MvccInv, IndexInv, CoreInv, TypeOK, Version, Bookkeeping, Begun, PlacesUnique,
           HeadersConsistent, None
  <1>00. \A v \in versions, x \in {next_transaction_id, next_transaction_id + 1} :
            v.created_by # x /\ v.deleted_by # x
    BY <1>0 DEF Begun, None
  <1>1. CASE Begin
    <2>1. /\ UNCHANGED <<retagged, versions, committed>>
          /\ active_transaction' = active_transaction \cup {next_transaction_id}
          /\ next_transaction_id' = next_transaction_id + 1
          /\ ~overlapped /\ active_transaction = {}
      BY <1>1 DEF Begin, create_transaction
    <2>2. t \in {next_transaction_id, next_transaction_id + 1}
      BY <2>1 DEF Readers
    <2>3. DistinctFor(next_transaction_id)
      BY <2>1 DEF SerialDistinct, Readers
    <2>4. \A v \in versions : Plain(v, t)' => Plain(v, next_transaction_id)
      BY <1>00, <2>1, <2>2 DEF Plain
    <2> QED  BY <2>1, <2>3, <2>4, CarriedDistinct
  <1>2. ASSUME versions' \subseteq versions,
               UNCHANGED <<retagged, overlapped, committed, active_transaction,
                           next_transaction_id>>
        PROVE  DistinctFor(t)'
    <2>1. DistinctFor(t)
      BY <1>2 DEF SerialDistinct, Readers
    <2>2. \A v \in versions' : Plain(v, t)' => Plain(v, t)
      BY <1>2 DEF Plain
    <2> QED  BY <1>2, <2>1, <2>2, CarriedDistinct
  <1>3. CASE Vacuum
    BY <1>2, <1>3 DEF Vacuum, auto_vacuum, snapshot
  <1>4. ASSUME NEW o \in TxnIds, CreateIndex(o) PROVE DistinctFor(t)'
    BY <1>2, <1>4 DEF CreateIndex, vars, snapshot
  <1>5. ASSUME NEW o \in TxnIds, Commit(o) PROVE DistinctFor(t)'
    <2>1. /\ UNCHANGED <<retagged, overlapped, versions, next_transaction_id>>
          /\ o \in active_transaction
          /\ active_transaction' = active_transaction \ {o}
          /\ committed' = committed \cup {o}
      BY <1>5 DEF Commit, commit_transaction
    <2>2. t = next_transaction_id
      BY <2>1 DEF Readers, IndexInv, SerialState
    <2>3. DistinctFor(o)
      BY <2>1 DEF SerialDistinct, Readers
    <2>4. \A v \in versions : Plain(v, t)' => Plain(v, o)
      BY <1>00, <2>1, <2>2 DEF Plain
    <2> QED  BY <2>1, <2>3, <2>4, CarriedDistinct
  <1>6. ASSUME NEW o \in TxnIds, Rollback(o) PROVE DistinctFor(t)'
    <2>1. /\ UNCHANGED <<retagged, overlapped, committed, next_transaction_id>>
          /\ o \in active_transaction
          /\ active_transaction' = active_transaction \ {o}
          /\ versions' = {RolledBack(v, o) : v \in versions}
      BY <1>6 DEF Rollback, rollback_transaction
    <2>2. t = next_transaction_id
      BY <2>1 DEF Readers, IndexInv, SerialState
    <2>3. DistinctFor(t)
      BY <2>1, <2>2 DEF SerialDistinct, Readers
    <2>4. ASSUME NEW v \in versions', Plain(v, t)'
          PROVE  \E u \in versions : Plain(u, t) /\ u.row = v.row /\ u.data = v.data
      <3>1. PICK u \in versions : v = RolledBack(u, o)
        BY <2>1
      <3>2. u \in Version /\ o \in Nat \ {0} /\ o \notin committed
        BY <1>0, <2>1
      <3>3. v.row = u.row /\ v.data = u.data /\ v.created_by = u.created_by
        BY <3>1, <3>2, RolledBackContents
      <3>4. u.deleted_by \in committed => v = u
        BY <1>0, <3>1, <3>2, RolledBackFacts
      <3> QED  BY <1>00, <2>1, <2>2, <2>4, <3>3, <3>4 DEF Plain
    <2> QED  BY <2>1, <2>3, <2>4, CarriedDistinct
  <1>7. ASSUME NEW o \in TxnIds, NEW k \in Values, Insert(o, k) PROVE DistinctFor(t)'
    <2>0. PICK n : n = NewVersion(next_row_id + 1, 1, o, k)
      OBVIOUS
    <2>1. /\ versions' = versions \cup {n}
          /\ UNCHANGED <<active_transaction, committed, next_transaction_id>>
          /\ o \in active_transaction /\ ~overlapped
          /\ ~UniqueConflict(o, k, None)
          /\ retagged \subseteq retagged'
      BY <1>7, <2>0 DEF Insert, insert_row, snapshot, update_index
    <2>2. n.row = next_row_id + 1 /\ n.data = k /\ n.created_by = o
      BY <2>0 DEF NewVersion
    <2>3. DistinctFor(t) /\ (t = o \/ t = next_transaction_id)
      BY <2>1 DEF SerialDistinct, Readers, IndexInv, SerialState
    <2>4. \A v \in versions : Plain(v, t)' => Plain(v, t)
      BY <2>1 DEF Plain
    <2>5. CASE t # o
      <3>1. ~Plain(n, t)'
        BY <1>0, <2>1, <2>2, <2>5 DEF Plain
      <3> QED  BY <2>1, <2>3, <2>4, <3>1, CarriedDistinct
    <2>6. CASE t = o
      <3>1. \A w \in versions : Plain(w, t)' /\ w.row \notin retagged' => w.data # k
        <4> SUFFICES ASSUME NEW w \in versions, Plain(w, t)', w.row \notin retagged'
                     PROVE  w.data # k
          OBVIOUS
        <4>1. w.row # None
          BY DEF MvccInv, WithinBounds, RowIds, None
        <4> QED  BY <2>1, <2>4, <2>6, <4>1, CheckedKeyIsNew
      <3>2. \A v, w \in versions :
               /\ Plain(v, t)' /\ Plain(w, t)' /\ v.row # w.row
               /\ v.row \notin retagged' /\ w.row \notin retagged'
               => v.data # w.data
        BY <2>1, <2>3, <2>4 DEF DistinctFor
      <3> QED  BY <2>1, <2>2, <3>1, <3>2 DEF DistinctFor
    <2> QED  BY <2>5, <2>6
  <1>8. ASSUME NEW o \in active_transaction, NEW u \in versions, is_visible(u, o),
               NEW w \in MarkDeleted(u, o), Plain(w, t)',
               UNCHANGED <<overlapped, active_transaction, committed, next_transaction_id>>
        PROVE  /\ t = o => w \in versions /\ Plain(w, t)
               /\ \E v \in versions : Plain(v, t) /\ v.row = w.row /\ v.data = w.data
    <2>1. t = o \/ t = next_transaction_id
      BY <1>8 DEF Readers, IndexInv, SerialState
    <2>2. CASE w \in versions
      BY <1>8, <2>2 DEF Plain
    <2>3. CASE w \notin versions
      <3>1. /\ w.row = u.row /\ w.data = u.data /\ w.created_by = u.created_by
            /\ w.deleted_by = o
        BY <1>0, <1>8, <2>3 DEF MarkDeleted, Version
      <3>2. u.deleted_by = None
        BY <1>0, <1>8, SerialUnmarked
      <3>3. t # o
        BY <1>8, <3>1 DEF Plain
      <3>4. Plain(u, t)
        BY <1>0, <1>00, <1>8, <2>1, <3>1, <3>2, <3>3 DEF Plain
      <3> QED  BY <3>1, <3>3, <3>4
    <2> QED  BY <2>2, <2>3
  <1>9. ASSUME NEW o \in TxnIds, NEW r \in RowIds, Delete(o, r) PROVE DistinctFor(t)'
    <2>1. PICK u \in versions : is_visible(u, o) /\ versions' = MarkDeleted(u, o)
      BY <1>9 DEF Delete, delete_row, get_versioned_row, VisibleVersions
    <2>2. /\ UNCHANGED <<overlapped, active_transaction, committed, next_transaction_id>>
          /\ o \in active_transaction /\ retagged' = retagged
      BY <1>9 DEF Delete, delete_row, snapshot
    <2>3. DistinctFor(t)
      BY <2>2 DEF SerialDistinct, Readers
    <2>4. \A w \in versions' : Plain(w, t)' =>
             \E v \in versions : Plain(v, t) /\ v.row = w.row /\ v.data = w.data
      BY <1>8, <2>1, <2>2
    <2> QED  BY <2>2, <2>3, <2>4, CarriedDistinct
  <1>10. ASSUME NEW o \in TxnIds, NEW r \in RowIds, NEW k \in Values, Update(o, r, k)
         PROVE  DistinctFor(t)'
    <2>1. PICK u \in versions, p \in 1..MaxVersions :
             /\ is_visible(u, o)
             /\ versions' = MarkDeleted(u, o) \cup {NewVersion(r, p, o, k)}
      BY <1>10 DEF Update, update_row, get_versioned_row, VisibleVersions
    <2> DEFINE n == NewVersion(r, p, o, k)
    <2>2. /\ UNCHANGED <<overlapped, active_transaction, committed, next_transaction_id>>
          /\ o \in active_transaction /\ retagged \subseteq retagged'
          /\ ~UniqueConflict(o, k, r) /\ ~overlapped
      BY <1>10 DEF Update, update_row, snapshot, update_index
    <2>3. n.row = r /\ n.data = k /\ n.created_by = o
      BY DEF NewVersion
    <2>4. DistinctFor(t) /\ (t = o \/ t = next_transaction_id)
      BY <2>2 DEF SerialDistinct, Readers, IndexInv, SerialState
    <2>5. \A w \in MarkDeleted(u, o) : Plain(w, t)' =>
            /\ t = o => w \in versions /\ Plain(w, t)
            /\ \E v \in versions : Plain(v, t) /\ v.row = w.row /\ v.data = w.data
      BY <1>8, <2>1, <2>2
    <2>6. \A w \in versions' : w \in MarkDeleted(u, o) \/ w = n
      BY <2>1
    <2> HIDE DEF n
    <2>7. CASE t # o
      <3>1. ~Plain(n, t)'
        BY <1>0, <2>2, <2>3, <2>7 DEF Plain
      <3> QED  BY <2>2, <2>4, <2>5, <2>6, <3>1, CarriedDistinct
    <2>8. CASE t = o
      <3>1. \A w \in versions' : Plain(w, t)' /\ w # n =>
               w \in versions /\ Plain(w, t)
        BY <2>5, <2>6, <2>8
      <3>2. \A w \in versions :
               Plain(w, t) /\ w.row # r /\ w.row \notin retagged' => w.data # k
        BY <2>2, <2>8, CheckedKeyIsNew
      <3>3. \A v, w \in versions' :
               /\ Plain(v, t)' /\ Plain(w, t)' /\ v.row # w.row
               /\ v.row \notin retagged' /\ w.row \notin retagged'
               => v.data # w.data
        <4> SUFFICES ASSUME NEW v \in versions', NEW w \in versions',
                            Plain(v, t)', Plain(w, t)', v.row # w.row,
                            v.row \notin retagged', w.row \notin retagged'
                     PROVE  v.data # w.data
          OBVIOUS
        <4>1. CASE v # n /\ w # n
          BY <2>2, <2>4, <3>1, <4>1 DEF DistinctFor
        <4>2. CASE v = n /\ w # n
          BY <2>3, <3>1, <3>2, <4>2
        <4>3. CASE v # n /\ w = n
          BY <2>3, <3>1, <3>2, <4>3
        <4> QED  BY <4>1, <4>2, <4>3
      <3> QED  BY <3>3 DEF DistinctFor
    <2> QED  BY <2>7, <2>8
  <1>11. ASSUME NEW r \in RowIds, IndexLate(r) PROVE DistinctFor(t)'
    BY <1>0, <1>11 DEF IndexLate, IndexInv, IndexTypeOK, SerialState
  <1>12. CASE UNCHANGED ivars
    BY <1>2, <1>12 DEF ivars, vars, snapshot
  <1> QED
    BY <1>1, <1>3, <1>4, <1>5, <1>6, <1>7, <1>9, <1>10, <1>11, <1>12
       DEF INext, PlaceLate

\* UNIQUE holds as long as transactions run one after the other: nobody sees two
\* rows with one key, re-tagged rows excepted (column.rs:286-309).
THEOREM SerialKeysUnique == ISpec => []SerialUnique
  <1>1. IInit => SerialDistinct
    BY DEF IInit, Init, SerialDistinct, DistinctFor
  <1>2. MvccInv /\ IndexInv /\ SerialDistinct => SerialUnique
    BY SerialYoungest DEF SerialDistinct, SerialUnique, DistinctFor, IndexInv
  <1> QED
    BY <1>1, <1>2, StepDistinct, IndexInvariance, MvccHolds, PTL DEF ISpec
=============================================================================
