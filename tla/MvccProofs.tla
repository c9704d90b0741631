----------------------------- MODULE MvccProofs -----------------------------
(***************************************************************************)
(* Proofs about the multi-version core, for every number of transactions,  *)
(* rows and versions.  MvccInv is the inductive invariant.  Its first      *)
(* three conjuncts (CoreInv) give the visibility theorems and are          *)
(* inductive together with PlacesUnique; SupersededIsMarked is inductive   *)
(* on top of them and gives the theorems about chains and views.  The last *)
(* part shows that Mvcc implements ReadCommitted.                          *)
(***************************************************************************)
EXTENDS Mvcc, TLAPS

\* The part of MvccInv about single versions and transaction ids.
CoreInv == TypeOK /\ Bookkeeping /\ HeadersConsistent

\* CoreInv holds initially (Database::new, database.rs:70-79).
LEMMA InitInv == Init => CoreInv
  BY DEF Init, CoreInv, TypeOK, Bookkeeping, HeadersConsistent, Begun, Aborted

\* Marking a version keeps the set of versions well-typed, and every version
\* of the result is an old one or the marked copy (row.rs:206-236).
LEMMA MarkFacts ==
  ASSUME NEW v \in versions, versions \subseteq Version, NEW t \in Nat
  PROVE  /\ MarkDeleted(v, t) \subseteq Version
         /\ \A w \in MarkDeleted(v, t) :
               \/ w \in versions
               \/ /\ w.row = v.row /\ w.pos = v.pos
                  /\ w.created_by = v.created_by
                  /\ w.deleted_by = t
  BY DEF MarkDeleted, Version

\* What rolling back does to one header (row.rs:245-259).
LEMMA RolledBackFacts ==
  ASSUME NEW v \in Version, NEW t \in Nat \ {0}
  PROVE  /\ RolledBack(v, t) \in Version
         /\ RolledBack(v, t).row = v.row /\ RolledBack(v, t).pos = v.pos
         /\ RolledBack(v, t).created_by = v.created_by
         /\ v.created_by = t /\ v.deleted_by = None
               => RolledBack(v, t).deleted_by = t
         /\ v.created_by # t /\ v.deleted_by = t
               => RolledBack(v, t).deleted_by = None
         /\ ~(v.created_by = t /\ v.deleted_by = None)
            /\ ~(v.created_by # t /\ v.deleted_by = t)
               => RolledBack(v, t) = v
  BY DEF RolledBack, Version, None

\* Visibility consults fates correctly: what a transaction in progress (or the
\* next one) sees was created by itself or by a committed transaction, or was
\* inserted after its transaction had ended; no rollback has undone it
\* (transaction.rs:36-71).
LEMMA VisibleFate ==
  ASSUME CoreInv, NEW v \in versions, NEW t \in Readers,
         is_visible(v, t)
  PROVE  /\ v.created_by \in committed \cup {t} \/ Late(v)
         /\ v.created_by \notin active_transaction \ {t}
         /\ ~Undone(v)
  <1>1. CASE v.created_by = t
    <2>1. t \in active_transaction
      BY <1>1 DEF Readers, CoreInv, TypeOK, HeadersConsistent, Begun
    <2> QED  BY <1>1, <2>1 DEF Undone, Aborted
  <1>2. CASE v.created_by # t
    <2>1. v.created_by <= last_possible /\ v.created_by \notin active_transaction
      BY <1>2 DEF is_visible
    <2>2. SUFFICES ASSUME Undone(v) PROVE FALSE
      BY <2>1 DEF CoreInv, HeadersConsistent, Aborted, Undone
    <2>3. v.deleted_by = v.created_by /\ v.deleted_by # None
      BY <2>2 DEF CoreInv, HeadersConsistent, Undone, Aborted, Begun, None
    <2>4. v.deleted_by \in Nat /\ last_possible \in Nat
      BY DEF CoreInv, TypeOK, Version
    <2> QED
      BY <1>2, <2>1, <2>3, <2>4 DEF is_visible
  <1> QED  BY <1>1, <1>2

\* A header stays consistent when the version is marked by a transaction in
\* progress that sees it (row.rs:206-236).
LEMMA MarkKeepsHeaders ==
  ASSUME CoreInv, NEW t \in active_transaction,
         NEW v \in versions, is_visible(v, t),
         UNCHANGED <<next_transaction_id, active_transaction, committed, late>>,
         NEW w \in MarkDeleted(v, t)
  PROVE  /\ w.created_by \in Begun'
         /\ w.deleted_by \in (Begun \cup {None})'
         /\ w.created_by \in active_transaction' =>
               w.deleted_by \in {None, w.created_by}
         /\ Undone(w)' => w.deleted_by = w.created_by
         /\ w.deleted_by \in Aborted' => w.deleted_by = w.created_by
         /\ Late(w)' => /\ w.created_by \notin active_transaction'
                        /\ w.deleted_by # w.created_by
  <1>1. t \in Begun /\ t \in Nat /\ versions \subseteq Version
    BY DEF CoreInv, TypeOK, Bookkeeping, Begun
  <1>2. Begun' = Begun /\ Aborted' = Aborted
    BY DEF Begun, Aborted
  <1>3. CASE w \in versions
    BY <1>2, <1>3 DEF CoreInv, HeadersConsistent, Late, Undone
  <1>4. CASE w \notin versions
    <2>1. /\ w.row = v.row /\ w.pos = v.pos
          /\ w.created_by = v.created_by /\ w.deleted_by = t
      BY <1>1, <1>4, MarkFacts
    <2>2. v.created_by \notin active_transaction \ {t} /\ ~Undone(v)
      BY VisibleFate DEF Readers
    <2>3. Late(v) => v.created_by \notin active_transaction
      BY DEF CoreInv, HeadersConsistent
    <2>4. v.created_by \in Begun
      BY DEF CoreInv, HeadersConsistent
    <2> QED
      BY <1>1, <1>2, <2>1, <2>2, <2>3, <2>4 DEF Late, Undone, Aborted
  <1> QED  BY <1>3, <1>4

\* Marking the version that a statement found keeps CoreInv, whatever the
\* chain it belongs to (row.rs:206-214).
LEMMA DeleteKeepsCore ==
  ASSUME CoreInv, NEW t, NEW r, delete_row(t, r)
  PROVE  CoreInv'
  <1> USE DEF CoreInv
  <1>1. PICK v \in versions : /\ get_versioned_row(v, r, t)
                              /\ versions' = MarkDeleted(v, t)
                              /\ NoteClobber(v)
    BY DEF delete_row
  <1>2. UNCHANGED <<next_transaction_id, active_transaction, last_possible,
                    smallest_active, next_row_id, committed, late>>
    BY DEF delete_row, snapshot
  <1>3. t \in active_transaction /\ t \in Nat
    BY DEF delete_row, TypeOK
  <1>4. is_visible(v, t)
    BY <1>1 DEF get_versioned_row, VisibleVersions
  <1>5. TypeOK'
    BY <1>1, <1>2, <1>3, MarkFacts DEF TypeOK, NoteClobber, Version
  <1>6. Bookkeeping'
    BY <1>2 DEF Bookkeeping, Begun
  <1>7. HeadersConsistent'
    BY <1>1, <1>2, <1>3, <1>4, MarkKeepsHeaders DEF HeadersConsistent
  <1> QED  BY <1>5, <1>6, <1>7

\* Inserting a row keeps CoreInv, whether its transaction is in progress or not:
\* the row id is new, so no other version becomes a late one (table.rs:1275).
LEMMA InsertKeepsCore ==
  ASSUME CoreInv, PlacesUnique, NEW t \in TxnIds, NEW d \in Values, insert_row(t, d)
  PROVE  CoreInv'
  <1> USE DEF CoreInv
  <1>0. PICK n : n = NewVersion(next_row_id + 1, 1, t, d)
    OBVIOUS
  <1>1. /\ n.row = next_row_id + 1 /\ n.pos = 1 /\ n.created_by = t
        /\ n.deleted_by = None
        /\ versions' = versions \cup {n} /\ next_row_id' = next_row_id + 1
        /\ late' = late \cup (IF t \in active_transaction THEN {} ELSE {n.row})
        /\ UNCHANGED <<next_transaction_id, active_transaction, last_possible,
                       smallest_active, committed, clobbered>>
    BY <1>0 DEF insert_row, NewVersion, snapshot
  <1>2. t \in Begun /\ t \in Nat /\ None \notin Begun /\ None # t
    BY DEF TxnIds, TypeOK, Begun, None, insert_row
  <1>3. TypeOK'
    <2>1. n \in Version
      BY <1>0, <1>2 DEF TypeOK, NewVersion, Version, None
    <2> QED  BY <1>1, <2>1 DEF TypeOK
  <1>4. Bookkeeping'
    BY <1>1 DEF Bookkeeping, TypeOK, Begun
  <1>5. Begun' = Begun /\ Aborted' = Aborted
    BY <1>1 DEF Begun, Aborted
  <1>6. \A v \in versions : v.row # n.row /\ (Late(v)' <=> Late(v))
    BY <1>1 DEF TypeOK, PlacesUnique, Late
  <1>7. Late(n)' <=> t \notin active_transaction
    BY <1>1 DEF TypeOK, Bookkeeping, Late
  <1>8. HeadersConsistent'
    <2> SUFFICES ASSUME NEW w \in versions'
                 PROVE  /\ w.created_by \in Begun
                        /\ w.deleted_by \in Begun \cup {None}
                        /\ w.created_by \in active_transaction =>
                              w.deleted_by \in {None, w.created_by}
                        /\ w.created_by \in Aborted /\ ~Late(w)' =>
                              w.deleted_by = w.created_by
                        /\ w.deleted_by \in Aborted => w.deleted_by = w.created_by
                        /\ Late(w)' => /\ w.created_by \notin active_transaction
                                       /\ w.deleted_by # w.created_by
      BY <1>1, <1>5 DEF HeadersConsistent, Undone
    <2>1. CASE w \in versions
      BY <1>6, <2>1 DEF HeadersConsistent, Undone
    <2>2. CASE w = n
      BY <1>1, <1>2, <1>7, <2>2 DEF Aborted
    <2> QED  BY <1>1, <2>1, <2>2
  <1> QED  BY <1>3, <1>4, <1>8

\* Beginning and ending transactions and the vacuum keep CoreInv, whatever the
\* rows are (database.rs:213-314).
LEMMA TransactionsKeepCore ==
  ASSUME CoreInv,
         \/ create_transaction \/ auto_vacuum
         \/ \E t \in TxnIds : commit_transaction(t) \/ rollback_transaction(t)
  PROVE  CoreInv'
  <1> USE DEF CoreInv
  <1>1. CASE create_transaction
    <2>1. TypeOK'
      BY <1>1 DEF create_transaction, TypeOK
    <2>2. Bookkeeping'
      BY <1>1 DEF create_transaction, TypeOK, Bookkeeping, Begun
    <2>3. HeadersConsistent'
      <3>1. /\ UNCHANGED <<versions, committed, late>>
            /\ active_transaction' = active_transaction \cup {next_transaction_id}
            /\ Begun \subseteq Begun' /\ next_transaction_id \notin Begun
            /\ Aborted' = Aborted
        BY <1>1 DEF create_transaction, TypeOK, Bookkeeping, Begun, Aborted
      <3> QED  BY <3>1 DEF HeadersConsistent, Undone, Late
    <2> QED  BY <2>1, <2>2, <2>3
  <1>2. CASE auto_vacuum
    <2>1. versions' \subseteq versions
      BY <1>2 DEF auto_vacuum
    <2>2. UNCHANGED <<next_transaction_id, active_transaction, last_possible,
                      smallest_active, next_row_id, committed, clobbered, late>>
      BY <1>2 DEF auto_vacuum, snapshot
    <2> QED
      BY <2>1, <2>2 DEF TypeOK, Bookkeeping, HeadersConsistent, Begun, Aborted, Undone, Late
  <1>3. ASSUME NEW t \in TxnIds, commit_transaction(t)
        PROVE  CoreInv'
    <2> USE <1>3 DEF commit_transaction
    <2>1. t \in Begun /\ t \in Nat \ {0}
      BY DEF TypeOK, Bookkeeping, Begun
    <2>2. PICK h \in (active_transaction \ {t}) \cup {t} :
              HorizonOf(active_transaction \ {t}, t, h) /\ smallest_active' = h
      OBVIOUS
    <2>3. TypeOK'
      BY <2>1, <2>2 DEF TypeOK
    <2>4. Bookkeeping'
      BY <2>1, <2>2 DEF TypeOK, Bookkeeping, Begun, HorizonOf
    <2>5. HeadersConsistent'
      <3>1. Begun' = Begun /\ Aborted' = Aborted
        BY <2>1 DEF Bookkeeping, Begun, Aborted
      <3> QED  BY <3>1 DEF HeadersConsistent, Undone, Late
    <2> QED  BY <2>3, <2>4, <2>5
  <1>4. ASSUME NEW t \in TxnIds, rollback_transaction(t)
        PROVE  CoreInv'
    <2> USE <1>4 DEF rollback_transaction
    <2>1. t \in Begun /\ t \in Nat \ {0}
      BY DEF TypeOK, Bookkeeping, Begun
    <2>2. PICK h \in (active_transaction \ {t}) \cup {last_possible} :
              /\ HorizonOf(active_transaction \ {t}, last_possible, h)
              /\ smallest_active' = h
      OBVIOUS
    <2>3. TypeOK'
      <3>1. versions' \subseteq Version
        BY <2>1, RolledBackFacts DEF TypeOK
      <3> QED  BY <2>2, <3>1 DEF TypeOK
    <2>4. Bookkeeping'
      BY <2>1, <2>2 DEF TypeOK, Bookkeeping, Begun, HorizonOf
    <2>5. HeadersConsistent'
      <3>1. Begun' = Begun /\ Aborted' = Aborted \cup {t}
        BY <2>1 DEF Bookkeeping, Begun, Aborted
      <3> SUFFICES ASSUME NEW w \in versions'
                   PROVE /\ w.created_by \in Begun
                         /\ w.deleted_by \in Begun \cup {None}
                         /\ w.created_by \in active_transaction' =>
                               w.deleted_by \in {None, w.created_by}
                         /\ w.created_by \in Aborted' /\ ~Late(w) => w.deleted_by = w.created_by
                         /\ w.deleted_by \in Aborted' => w.deleted_by = w.created_by
                         /\ Late(w) => /\ w.created_by \notin active_transaction'
                                       /\ w.deleted_by # w.created_by
        BY <3>1 DEF HeadersConsistent, Undone, Late
      <3>2. PICK v \in versions : w = RolledBack(v, t)
        OBVIOUS
      <3>3. v \in Version
        BY DEF TypeOK
      <3>4. None \notin Begun /\ None \notin Aborted'
        BY <3>1, <2>1 DEF None, Begun, Aborted
      <3>5. /\ w.created_by = v.created_by /\ (Late(w) <=> Late(v))
            /\ v.created_by = t /\ v.deleted_by = None => w.deleted_by = t
            /\ v.created_by # t /\ v.deleted_by = t => w.deleted_by = None
            /\ ~(v.created_by = t /\ v.deleted_by = None)
               /\ ~(v.created_by # t /\ v.deleted_by = t) => w = v
        BY <2>1, <3>2, <3>3, RolledBackFacts DEF Late
      <3>6. Late(v) => v.created_by # t
        BY DEF HeadersConsistent
      <3> QED
        BY <2>1, <3>1, <3>3, <3>4, <3>5, <3>6
           DEF HeadersConsistent, Bookkeeping, Aborted, Undone, Version
    <2> QED  BY <2>3, <2>4, <2>5
  <1> QED  BY <1>1, <1>2, <1>3, <1>4

\* Every step keeps CoreInv, action by action.
LEMMA StepInv == CoreInv /\ PlacesUnique /\ [Next]_vars => CoreInv'
  <1> SUFFICES ASSUME CoreInv, PlacesUnique, [Next]_vars PROVE CoreInv'
    OBVIOUS
  <1> USE DEF CoreInv
  <1>1. CASE \/ create_transaction \/ auto_vacuum
             \/ \E t \in TxnIds : commit_transaction(t) \/ rollback_transaction(t)
    BY <1>1, TransactionsKeepCore
  <1>2. ASSUME NEW t \in TxnIds, NEW d \in Values, insert_row(t, d)
        PROVE  CoreInv'
    BY <1>2, InsertKeepsCore
  <1>3. ASSUME NEW t \in TxnIds, NEW r \in RowIds, delete_row(t, r)
        PROVE  CoreInv'
    BY <1>3, DeleteKeepsCore
  <1>4. ASSUME NEW t \in TxnIds, NEW r \in RowIds, NEW d \in Values,
               update_row(t, r, d)
        PROVE  CoreInv'
    <2>p. PICK v \in versions, p \in 1..MaxVersions :
              /\ get_versioned_row(v, r, t)
              /\ EndOfChain(r, p)
              /\ versions' = MarkDeleted(v, t) \cup {NewVersion(r, p, t, d)}
              /\ NoteClobber(v)
      BY <1>4 DEF update_row
    <2>n. PICK n : n = NewVersion(r, p, t, d)
      OBVIOUS
    <2>0. /\ get_versioned_row(v, r, t)
          /\ EndOfChain(r, p)
          /\ versions' = MarkDeleted(v, t) \cup {n}
          /\ NoteClobber(v)
      BY <2>p, <2>n
    <2>1. is_visible(v, t) /\ v.row = r
      BY <2>0 DEF get_versioned_row, VisibleVersions
    <2>2. UNCHANGED <<next_transaction_id, active_transaction, last_possible,
                      smallest_active, next_row_id, committed, late>>
      BY <1>4 DEF update_row, snapshot
    <2>3. t \in active_transaction /\ t \in Begun /\ t \in Nat
      BY <1>4 DEF update_row, TypeOK, Bookkeeping, Begun
    <2>4. /\ n.row = r /\ n.pos = p /\ n.created_by = t /\ n.deleted_by = None
          /\ n \in Version
      BY <2>3, <2>n, BoundsAssumption DEF NewVersion, Version, None, RowIds
    <2>5. TypeOK'
      BY <2>0, <2>2, <2>3, <2>4, MarkFacts DEF TypeOK, NoteClobber, Version
    <2>6. Bookkeeping'
      BY <2>2 DEF Bookkeeping, Begun
    <2>7. p # 1
      BY <2>0, <2>1, BoundsAssumption DEF EndOfChain, TypeOK, Version
    <2>8. ~Late(n)' /\ n.created_by \notin Aborted' /\ None \notin Aborted'
      BY <2>2, <2>3, <2>4, <2>7 DEF Late, Aborted, Begun, None
    <2>9. HeadersConsistent'
      <3>1. /\ n.created_by \in Begun' /\ n.deleted_by \in (Begun \cup {None})'
            /\ n.created_by \in active_transaction' => n.deleted_by \in {None, n.created_by}
            /\ Undone(n)' => n.deleted_by = n.created_by
            /\ n.deleted_by \in Aborted' => n.deleted_by = n.created_by
            /\ Late(n)' => /\ n.created_by \notin active_transaction'
                           /\ n.deleted_by # n.created_by
        BY <2>2, <2>3, <2>4, <2>8 DEF Undone, Begun
      <3> QED
        BY <2>0, <2>1, <2>2, <2>3, <3>1, MarkKeepsHeaders DEF HeadersConsistent
    <2> QED  BY <2>5, <2>6, <2>9
  <1>5. CASE UNCHANGED vars
    BY <1>5 DEF vars, snapshot, TypeOK, Bookkeeping, HeadersConsistent, Begun,
                Aborted, Undone, Late
  <1> QED
    BY <1>1, <1>2, <1>3, <1>4, <1>5 DEF Next

\* Marking a version replaces it, in its place (row.rs:206-236).
LEMMA MarkPlaces ==
  ASSUME NEW v \in versions, versions \subseteq Version, NEW t \in Nat,
         NEW w \in MarkDeleted(v, t)
  PROVE  \/ w \in versions /\ w # v
         \/ /\ w = [v EXCEPT !.deleted_by = t]
            /\ w.row = v.row /\ w.pos = v.pos
            /\ w.created_by = v.created_by /\ w.deleted_by = t
  BY DEF MarkDeleted, Version

\* Rolling back keeps every version in its place (row.rs:245-259).
LEMMA RolledBackPlaces ==
  ASSUME NEW v \in Version, NEW t \in Nat
  PROVE  RolledBack(v, t).row = v.row /\ RolledBack(v, t).pos = v.pos
  BY DEF RolledBack, Version

\* Every step keeps the places of versions unique.
LEMMA StepPlaces == CoreInv /\ PlacesUnique /\ [Next]_vars => PlacesUnique'
  <1> SUFFICES ASSUME CoreInv, PlacesUnique, [Next]_vars PROVE PlacesUnique'
    OBVIOUS
  <1>0. versions \subseteq Version /\ next_row_id \in Nat
    BY DEF CoreInv, TypeOK
  <1>1. CASE create_transaction
    BY <1>1 DEF create_transaction, PlacesUnique
  <1>2. CASE auto_vacuum
    BY <1>2 DEF auto_vacuum, PlacesUnique
  <1>3. ASSUME NEW t \in TxnIds, commit_transaction(t)
        PROVE  PlacesUnique'
    BY <1>3 DEF commit_transaction, PlacesUnique
  <1>4. ASSUME NEW t \in TxnIds, rollback_transaction(t)
        PROVE  PlacesUnique'
    <2>1. t \in Nat
      BY DEF TxnIds
    <2>2. /\ versions' = {RolledBack(v, t) : v \in versions}
          /\ next_row_id' = next_row_id
      BY <1>4 DEF rollback_transaction
    <2> QED  BY <1>0, <2>1, <2>2, RolledBackPlaces DEF PlacesUnique
  <1>5. ASSUME NEW t \in TxnIds, NEW d \in Values, insert_row(t, d)
        PROVE  PlacesUnique'
    <2>1. /\ versions' = versions \cup {NewVersion(next_row_id + 1, 1, t, d)}
          /\ next_row_id' = next_row_id + 1
      BY <1>5 DEF insert_row
    <2>2. NewVersion(next_row_id + 1, 1, t, d).row = next_row_id + 1
      BY DEF NewVersion
    <2>3. \A v \in versions : v.row \in Nat /\ v.row <= next_row_id
      BY <1>0 DEF PlacesUnique, Version
    <2> QED  BY <1>0, <2>1, <2>2, <2>3 DEF PlacesUnique
  <1>6. ASSUME NEW t \in TxnIds, NEW r \in RowIds, delete_row(t, r)
        PROVE  PlacesUnique'
    <2>1. PICK v \in versions : versions' = MarkDeleted(v, t)
      BY <1>6 DEF delete_row
    <2>2. next_row_id' = next_row_id /\ t \in Nat
      BY <1>6 DEF delete_row, TxnIds
    <2> QED  BY <1>0, <2>1, <2>2, MarkPlaces DEF PlacesUnique
  <1>7. ASSUME NEW t \in TxnIds, NEW r \in RowIds, NEW d \in Values,
               update_row(t, r, d)
        PROVE  PlacesUnique'
    <2>1. PICK v \in versions, p \in 1..MaxVersions :
              /\ get_versioned_row(v, r, t)
              /\ EndOfChain(r, p)
              /\ versions' = MarkDeleted(v, t) \cup {NewVersion(r, p, t, d)}
      BY <1>7 DEF update_row
    <2>2. next_row_id' = next_row_id /\ t \in Nat /\ v.row = r
      BY <1>7, <2>1 DEF update_row, TxnIds, get_versioned_row, VisibleVersions
    <2>3. /\ NewVersion(r, p, t, d).row = r
          /\ NewVersion(r, p, t, d).pos = p
      BY DEF NewVersion
    <2>4. \A w \in MarkDeleted(v, t) : w.row = r => w.pos # p
      <3>1. \A w \in versions : w.row = r => w.pos \in Nat /\ w.pos < p
        BY <1>0, <2>1 DEF EndOfChain, Version
      <3>2. p \in Nat
        BY BoundsAssumption
      <3> QED  BY <1>0, <2>2, <3>1, <3>2, MarkPlaces
    <2>5. \A w \in MarkDeleted(v, t) :
             /\ w.row <= next_row_id
             /\ \A u \in MarkDeleted(v, t) :
                   w.row = u.row /\ w.pos = u.pos => w = u
      BY <1>0, <2>2, MarkPlaces DEF PlacesUnique
    <2> QED  BY <1>0, <2>1, <2>2, <2>3, <2>4, <2>5 DEF PlacesUnique
  <1>8. CASE UNCHANGED vars
    BY <1>8 DEF vars, PlacesUnique
  <1> QED
    BY <1>1, <1>2, <1>3, <1>4, <1>5, <1>6, <1>7, <1>8 DEF Next

\* Every step stays within the bounds.
LEMMA StepBounds ==
  CoreInv /\ PlacesUnique /\ WithinBounds /\ [Next]_vars => WithinBounds'
  <1> SUFFICES ASSUME CoreInv, PlacesUnique, WithinBounds, [Next]_vars PROVE WithinBounds'
    OBVIOUS
  <1>0. versions \subseteq Version /\ next_row_id \in Nat
    BY DEF CoreInv, TypeOK
  <1>1. CASE create_transaction
    BY <1>1 DEF create_transaction, WithinBounds
  <1>2. CASE auto_vacuum
    BY <1>2 DEF auto_vacuum, WithinBounds
  <1>3. ASSUME NEW t \in TxnIds, commit_transaction(t) PROVE WithinBounds'
    BY <1>3 DEF commit_transaction, WithinBounds
  <1>4. ASSUME NEW t \in TxnIds, rollback_transaction(t) PROVE WithinBounds'
    <2>1. t \in Nat
      BY DEF TxnIds
    <2> QED
      BY <1>0, <1>4, <2>1, RolledBackPlaces DEF rollback_transaction, WithinBounds
  <1>5. ASSUME NEW t \in TxnIds, NEW d \in Values, insert_row(t, d)
        PROVE  WithinBounds'
    BY <1>0, <1>5, BoundsAssumption
       DEF insert_row, WithinBounds, NewVersion, RowIds, CoreInv, TypeOK
  <1>6. ASSUME NEW t \in TxnIds, NEW r \in RowIds, delete_row(t, r)
        PROVE  WithinBounds'
    <2>1. PICK v \in versions : versions' = MarkDeleted(v, t) /\ NoteClobber(v)
      BY <1>6 DEF delete_row
    <2>2. next_row_id' = next_row_id /\ t \in Nat
      BY <1>6 DEF delete_row, TxnIds
    <2>3. \A x \in clobbered' : x <= next_row_id
      BY <2>1 DEF NoteClobber, WithinBounds, PlacesUnique
    <2> QED  BY <1>0, <2>1, <2>2, <2>3, MarkPlaces DEF WithinBounds
  <1>7. ASSUME NEW t \in TxnIds, NEW r \in RowIds, NEW d \in Values,
               update_row(t, r, d)
        PROVE  WithinBounds'
    <2>1. PICK v \in versions, p \in 1..MaxVersions :
              /\ versions' = MarkDeleted(v, t) \cup {NewVersion(r, p, t, d)}
              /\ NoteClobber(v)
      BY <1>7 DEF update_row
    <2>2. next_row_id' = next_row_id /\ t \in Nat
      BY <1>7 DEF update_row, TxnIds
    <2>3. NewVersion(r, p, t, d).row = r /\ NewVersion(r, p, t, d).pos = p
      BY DEF NewVersion
    <2>4. \A x \in clobbered' : x <= next_row_id
      BY <2>1 DEF NoteClobber, WithinBounds, PlacesUnique
    <2> QED  BY <1>0, <2>1, <2>2, <2>3, <2>4, MarkPlaces DEF WithinBounds
  <1>8. CASE UNCHANGED vars
    BY <1>8 DEF vars, WithinBounds
  <1> QED
    BY <1>1, <1>2, <1>3, <1>4, <1>5, <1>6, <1>7, <1>8 DEF Next

\* On a row without overwritten marks, nothing live lies above an unmarked
\* version of a live creator.
LEMMA NothingAbove ==
  ASSUME CoreInv, SupersededIsMarked,
         NEW v \in versions, NEW w \in versions,
         v.row = w.row, v.pos < w.pos, v.row \notin clobbered,
         v.deleted_by = None, ~Undone(v)
  PROVE  Undone(w)
  BY DEF SupersededIsMarked, CoreInv, HeadersConsistent, Bookkeeping, Begun, None

\* Every step keeps SupersededIsMarked.
LEMMA StepSuperseded ==
  CoreInv /\ PlacesUnique /\ SupersededIsMarked /\ [Next]_vars
     => SupersededIsMarked'
  <1> SUFFICES ASSUME CoreInv, PlacesUnique, SupersededIsMarked, [Next]_vars
               PROVE  SupersededIsMarked'
    OBVIOUS
  <1>0. /\ versions \subseteq Version
        /\ \A u \in versions : /\ u.row \in Nat /\ u.pos \in Nat
                               /\ u.created_by \in Begun
                               /\ u.deleted_by \in Nat
    BY DEF CoreInv, TypeOK, Version, HeadersConsistent
  <1>1. CASE create_transaction
    <2>1. \A u \in versions : u.created_by \in Aborted' <=> u.created_by \in Aborted
      BY <1>0, <1>1 DEF create_transaction, Aborted, Begun, CoreInv, TypeOK
    <2> QED
      BY <1>1, <2>1 DEF create_transaction, SupersededIsMarked, Undone, Late
  <1>2. CASE auto_vacuum
    BY <1>2 DEF auto_vacuum, snapshot, SupersededIsMarked, Aborted, Begun, Undone, Late
  <1>3. ASSUME NEW t \in TxnIds, commit_transaction(t)
        PROVE  SupersededIsMarked'
    <2>1. Aborted' = Aborted
      BY <1>3 DEF commit_transaction, Aborted, Begun, CoreInv, Bookkeeping
    <2> QED
      BY <1>3, <2>1 DEF commit_transaction, SupersededIsMarked, Undone, Late
  <1>4. ASSUME NEW t \in TxnIds, rollback_transaction(t)
        PROVE  SupersededIsMarked'
    <2>1. t \in Nat \ {0}
      BY DEF TxnIds
    <2>2. /\ versions' = {RolledBack(v, t) : v \in versions}
          /\ UNCHANGED <<committed, clobbered, late>>
          /\ t \in active_transaction /\ t \notin committed
      BY <1>4 DEF rollback_transaction, CoreInv, Bookkeeping
    <2>3. Aborted' = Aborted \cup {t}
      BY <1>4 DEF rollback_transaction, Aborted, Begun, CoreInv, Bookkeeping
    <2>a. ASSUME NEW x \in versions, ~Undone(RolledBack(x, t))'
          PROVE  ~Undone(x) /\ x.created_by # t
      <3>1. /\ RolledBack(x, t).row = x.row /\ RolledBack(x, t).pos = x.pos
            /\ RolledBack(x, t).created_by = x.created_by
        BY <1>0, <2>1, RolledBackFacts
      <3>2. Late(x) => x.created_by # t
        BY <2>2 DEF CoreInv, HeadersConsistent
      <3> QED  BY <2>2, <2>3, <2>a, <3>1, <3>2 DEF Undone, Late
    <2> SUFFICES ASSUME NEW x \in versions, NEW y \in versions,
                        x.row = y.row, x.pos < y.pos, x.row \notin clobbered,
                        ~Undone(x) /\ x.created_by # t,
                        ~Undone(y) /\ y.created_by # t
                 PROVE  RolledBack(x, t).deleted_by
                           \in committed \cup {y.created_by}
      BY <1>0, <2>1, <2>2, <2>a, RolledBackFacts, RolledBackPlaces
         DEF SupersededIsMarked
    <2>4. x.deleted_by \in committed \cup {y.created_by}
      BY DEF SupersededIsMarked
    <2>5. RolledBack(x, t) = x
      BY <1>0, <2>1, <2>2, <2>4, RolledBackFacts
    <2> QED  BY <2>4, <2>5
  <1>5. ASSUME NEW t \in TxnIds, NEW d \in Values, insert_row(t, d)
        PROVE  SupersededIsMarked'
    <2>1. /\ versions' = versions \cup {NewVersion(next_row_id + 1, 1, t, d)}
          /\ UNCHANGED <<next_transaction_id, active_transaction, committed,
                         clobbered>>
          /\ late' \in {late, late \cup {next_row_id + 1}}
      BY <1>5 DEF insert_row, snapshot
    <2>2. /\ NewVersion(next_row_id + 1, 1, t, d).row = next_row_id + 1
          /\ NewVersion(next_row_id + 1, 1, t, d).pos = 1
      BY DEF NewVersion
    <2>3. \A u \in versions : u.row # next_row_id + 1
      BY <1>0 DEF PlacesUnique, CoreInv, TypeOK
    <2>4. \A u \in versions : Undone(u)' <=> Undone(u)
      BY <2>1, <2>3 DEF Undone, Late, Aborted, Begun
    <2> QED  BY <2>1, <2>2, <2>3, <2>4 DEF SupersededIsMarked
  <1>6. ASSUME NEW t \in TxnIds, NEW r \in RowIds, delete_row(t, r)
        PROVE  SupersededIsMarked'
    <2>1. PICK v \in versions : /\ get_versioned_row(v, r, t)
                                /\ versions' = MarkDeleted(v, t)
                                /\ NoteClobber(v)
      BY <1>6 DEF delete_row
    <2>2. /\ UNCHANGED <<next_transaction_id, active_transaction, committed, late>>
          /\ t \in active_transaction /\ t \in Nat
      BY <1>6 DEF delete_row, snapshot, TxnIds
    <2>3. \A u : Undone(u)' <=> Undone(u)
      BY <2>2 DEF Undone, Late, Aborted, Begun
    <2>4. ~Undone(v)
      BY <2>1, <2>2, VisibleFate DEF get_versioned_row, VisibleVersions, Readers
    <2> SUFFICES ASSUME NEW x \in versions', NEW y \in versions',
                        x.row = y.row, x.pos < y.pos, x.row \notin clobbered',
                        ~Undone(x), ~Undone(y)
                 PROVE  x.deleted_by \in committed \cup {y.created_by}
      BY <2>2, <2>3 DEF SupersededIsMarked
    <2>5. PICK y0 \in versions : /\ y0.row = y.row /\ y0.pos = y.pos
                                 /\ y0.created_by = y.created_by
                                 /\ ~Undone(y0)
      BY <1>0, <2>1, <2>2, MarkPlaces DEF Undone, Late
    <2>6. x.row \notin clobbered
      BY <2>1 DEF NoteClobber
    <2>7. CASE x \in versions
      BY <2>5, <2>6, <2>7 DEF SupersededIsMarked
    <2>8. CASE x \notin versions
      <3>1. x.row = v.row /\ x.pos = v.pos
        BY <1>0, <2>1, <2>2, <2>8, MarkPlaces
      <3>2. v.deleted_by = None
        BY <2>1, <3>1 DEF NoteClobber
      <3> QED
        BY <2>4, <2>5, <2>6, <3>1, <3>2, NothingAbove
    <2> QED  BY <2>7, <2>8
  <1>7. ASSUME NEW t \in TxnIds, NEW r \in RowIds, NEW d \in Values,
               update_row(t, r, d)
        PROVE  SupersededIsMarked'
    <2>1. PICK v \in versions, p \in 1..MaxVersions :
              /\ get_versioned_row(v, r, t)
              /\ EndOfChain(r, p)
              /\ versions' = MarkDeleted(v, t) \cup {NewVersion(r, p, t, d)}
              /\ NoteClobber(v)
      BY <1>7 DEF update_row
    <2>2. /\ UNCHANGED <<next_transaction_id, active_transaction, committed, late>>
          /\ t \in active_transaction /\ t \in Nat
      BY <1>7 DEF update_row, snapshot, TxnIds
    <2>3. \A u : Undone(u)' <=> Undone(u)
      BY <2>2 DEF Undone, Late, Aborted, Begun
    <2>4. /\ v.row = r /\ ~Undone(v)
          /\ v.created_by \in committed \cup {t} \/ v.pos = 1
      BY <2>1, <2>2, VisibleFate DEF get_versioned_row, VisibleVersions, Readers, Late
    <2>5. /\ NewVersion(r, p, t, d).row = r
          /\ NewVersion(r, p, t, d).pos = p
          /\ NewVersion(r, p, t, d).created_by = t
      BY DEF NewVersion
    <2>6. p \in Nat /\ \A u \in versions : u.row = r => u.pos < p
      BY <2>1, BoundsAssumption DEF EndOfChain
    <2> SUFFICES ASSUME NEW x \in versions', NEW y \in versions',
                        x.row = y.row, x.pos < y.pos, x.row \notin clobbered',
                        ~Undone(x), ~Undone(y)
                 PROVE  x.deleted_by \in committed \cup {y.created_by}
      BY <2>2, <2>3 DEF SupersededIsMarked
    <2>7. x.row \notin clobbered
      BY <2>1 DEF NoteClobber
    <2>8. x \in MarkDeleted(v, t)
      <3> SUFFICES ASSUME x = NewVersion(r, p, t, d) PROVE FALSE
        BY <2>1
      <3>1. y = NewVersion(r, p, t, d) \/ y.pos < p
        BY <1>0, <2>1, <2>2, <2>4, <2>5, <2>6, MarkPlaces
      <3> QED  BY <1>0, <2>1, <2>2, <2>5, <2>6, <3>1, MarkPlaces
    <2>9. \/ x \in versions /\ x # v
          \/ /\ x.row = v.row /\ x.pos = v.pos
             /\ x.created_by = v.created_by /\ x.deleted_by = t
      BY <1>0, <2>2, <2>8, MarkPlaces
    <2>10. x.row = r => v.deleted_by = None
      BY <2>1, <2>4 DEF NoteClobber
    <2>11. CASE y = NewVersion(r, p, t, d)
      <3>1. CASE x.row = v.row /\ x.pos = v.pos /\ x.deleted_by = t
        BY <2>5, <2>11, <3>1
      <3>2. CASE x \in versions /\ x # v
        <4>1. x.row = r /\ v.row = r /\ v.deleted_by = None
          BY <2>4, <2>5, <2>10, <2>11
        <4>2. ~(v.pos < x.pos)
          BY <2>4, <2>7, <3>2, <4>1, NothingAbove
        <4>3. x.pos # v.pos
          BY <3>2, <4>1 DEF PlacesUnique
        <4>4. x.pos < v.pos
          BY <1>0, <3>2, <4>2, <4>3
        <4>5. x.deleted_by \in committed \cup {v.created_by}
          BY <2>4, <2>7, <3>2, <4>1, <4>4 DEF SupersededIsMarked
        <4>6. v.pos # 1
          BY <3>2, <4>4 DEF CoreInv, TypeOK, Version
        <4> QED  BY <2>4, <2>5, <2>11, <4>5, <4>6
      <3> QED  BY <2>9, <3>1, <3>2
    <2>12. CASE y \in MarkDeleted(v, t)
      <3>1. PICK y0 \in versions : /\ y0.row = y.row /\ y0.pos = y.pos
                                   /\ y0.created_by = y.created_by
                                   /\ ~Undone(y0)
        BY <1>0, <2>2, <2>12, MarkPlaces DEF Undone, Late
      <3>2. CASE x \in versions /\ x # v
        BY <2>7, <3>1, <3>2 DEF SupersededIsMarked
      <3>3. CASE x.row = v.row /\ x.pos = v.pos /\ x.created_by = v.created_by
        BY <2>4, <2>7, <2>10, <3>1, <3>3, NothingAbove
      <3> QED  BY <2>9, <3>2, <3>3
    <2> QED  BY <2>1, <2>11, <2>12
  <1>8. CASE UNCHANGED vars
    BY <1>8 DEF vars, snapshot, SupersededIsMarked, Aborted, Begun, Undone, Late
  <1> QED
    BY <1>1, <1>2, <1>3, <1>4, <1>5, <1>6, <1>7, <1>8 DEF Next

\* The inductive invariant holds in every reachable state.
THEOREM Invariance == Spec => []MvccInv
  <1>1. Init => MvccInv
    BY InitInv, BoundsAssumption
       DEF MvccInv, CoreInv, Init, PlacesUnique, WithinBounds, SupersededIsMarked
  <1>2. MvccInv /\ [Next]_vars => MvccInv'
    <2> SUFFICES ASSUME MvccInv, [Next]_vars PROVE MvccInv'
      OBVIOUS
    <2>1. CoreInv /\ PlacesUnique /\ WithinBounds /\ SupersededIsMarked
      BY DEF MvccInv, CoreInv
    <2>2. CoreInv' /\ PlacesUnique' /\ WithinBounds' /\ SupersededIsMarked'
      BY <2>1, StepInv, StepPlaces, StepBounds, StepSuperseded
    <2> QED  BY <2>2 DEF MvccInv, CoreInv
  <1> QED  BY <1>1, <1>2, PTL DEF Spec

\* No dirty reads (transaction.rs:36-71), for any number of transactions, but of
\* COPY data that came after its transaction had ended (pg_wire.rs:1685).
THEOREM NoDirtyReads == Spec => []NoDirtyRead
  <1>1. MvccInv => NoDirtyRead
    BY VisibleFate DEF NoDirtyRead, MvccInv, CoreInv, Readers
  <1> QED  BY <1>1, Invariance, PTL

\* The intended relation between a version and a reader.
Intended(v, t) == /\ \/ v.created_by \in committed \cup {t}
                     \/ Late(v) /\ v.created_by <= last_possible
                  /\ v.deleted_by \notin committed \cup {t}

\* While the watermark is current, is_visible decides it.
LEMMA ExactFor ==
  ASSUME CoreInv, WatermarkCurrent, NEW v \in versions, NEW t \in Readers
  PROVE  is_visible(v, t) <=> Intended(v, t)
  <1>1. /\ v.created_by \in Begun /\ v.deleted_by \in Nat /\ t \in Nat
        /\ last_possible \in Nat /\ smallest_active \in Nat
        /\ t \notin committed
        /\ None \notin committed /\ None # t
        /\ None \notin active_transaction
    BY DEF CoreInv, TypeOK, HeadersConsistent, Version, Bookkeeping, Begun,
           None, Readers
  <1>2. CASE v.created_by = t
    <2>1. t \in active_transaction
      BY <1>1, <1>2 DEF Readers, CoreInv, TypeOK, Begun
    <2> QED
      BY <1>1, <1>2, <2>1
         DEF CoreInv, HeadersConsistent, is_visible, Intended, None
  <1>3. CASE v.created_by # t
    <2>1. ASSUME is_visible(v, t) PROVE Intended(v, t)
      <3>1. \/ v.created_by \in committed \cup {t}
            \/ Late(v) /\ v.created_by <= last_possible
        BY <1>3, <2>1, VisibleFate DEF is_visible
      <3>2. v.deleted_by \notin committed
        BY <1>1, <1>3, <2>1
           DEF is_visible, WatermarkCurrent, CoreInv, Bookkeeping
      <3>3. v.deleted_by # t
        BY <1>1, <1>3, <2>1 DEF is_visible
      <3> QED  BY <3>1, <3>2, <3>3 DEF Intended
    <2>2. ASSUME Intended(v, t) PROVE is_visible(v, t)
      <3>1. v.created_by <= last_possible /\ v.created_by \notin active_transaction
        BY <1>3, <2>2 DEF Intended, WatermarkCurrent, CoreInv, Bookkeeping, HeadersConsistent
      <3>0. v.created_by \in committed \/ Late(v)
        BY <1>3, <2>2 DEF Intended
      <3>2. v.deleted_by = None \/ v.deleted_by \in active_transaction
        BY <2>2, <3>0
           DEF Intended, CoreInv, HeadersConsistent, Bookkeeping, Aborted
      <3> QED
        BY <1>1, <1>3, <2>2, <3>1, <3>2
           DEF Intended, is_visible, CoreInv, Bookkeeping
    <2> QED  BY <2>1, <2>2
  <1> QED  BY <1>2, <1>3

\* While the watermark is current, is_visible is exactly "created by me, by a
\* committed transaction or too late, deleted by neither of the first two"
\* (transaction.rs:36-71, pg_wire.rs:1685).
THEOREM ExactVisibility == Spec => []VisibilityExact
  <1>1. MvccInv => VisibilityExact
    BY ExactFor DEF VisibilityExact, Intended, Readers, MvccInv, CoreInv
  <1> QED  BY <1>1, Invariance, PTL

\* The invariant rules out two visible versions of one row.
LEMMA SingleVisible == MvccInv => SingleVisibleVersion
  <1> SUFFICES ASSUME MvccInv, WatermarkCurrent,
                      NEW v \in versions, NEW w \in versions,
                      v.row = w.row, v # w, v.row \notin clobbered,
                      NEW t \in Readers, is_visible(v, t), is_visible(w, t)
               PROVE  FALSE
    BY DEF SingleVisibleVersion, Readers
  <1>1. CoreInv
    BY DEF MvccInv, CoreInv
  <1>2. Intended(v, t) /\ Intended(w, t)
    BY <1>1, ExactFor
  <1>3. ~Undone(v) /\ ~Undone(w)
    BY <1>1, VisibleFate
  <1>4. /\ v.pos \in Nat /\ w.pos \in Nat
        /\ v.pos # w.pos
    BY DEF MvccInv, TypeOK, Version, PlacesUnique
  <1>5. ASSUME NEW x \in versions, NEW y \in versions, x.row = y.row,
               x.row \notin clobbered, x.pos < y.pos, ~Undone(x), ~Undone(y),
               Intended(x, t), Intended(y, t)
        PROVE  FALSE
    <2>1. x.deleted_by \in committed \cup {y.created_by} /\ y.pos \in Nat /\ x.pos \in Nat \ {0}
      BY <1>5 DEF MvccInv, SupersededIsMarked, TypeOK, Version
    <2>2. y.created_by \in committed \cup {t}
      BY <1>5, <2>1 DEF Intended, Late
    <2> QED  BY <1>5, <2>1, <2>2 DEF Intended
  <1>6. CASE v.pos < w.pos
    BY <1>2, <1>3, <1>5, <1>6
  <1>7. CASE w.pos < v.pos
    BY <1>2, <1>3, <1>5, <1>7
  <1> QED  BY <1>4, <1>6, <1>7

\* While the watermark is current, a row without overwritten deletion marks
\* shows at most one version to anybody (row.rs:215-236).
THEOREM OneVersionVisible == Spec => []SingleVisibleVersion
  BY SingleVisible, Invariance, PTL

\* The places of the version chains that are in use after a step.
KeptPlace(v) == \E w \in versions' : w.row = v.row /\ w.pos = v.pos

\* What the horizon has passed nobody sees: a deleter below it is neither in
\* progress nor to come (row.rs:238-243, transaction.rs:36-71).
LEMMA PrunedIsInvisible ==
  ASSUME CoreInv, NEW v \in versions, NEW t \in Readers,
         ~Survives(v, smallest_active)
  PROVE  ~is_visible(v, t)
  <1>1. /\ v.deleted_by \in Nat /\ smallest_active \in Nat
        /\ v.deleted_by # None /\ v.deleted_by < smallest_active
    BY DEF CoreInv, TypeOK, Version, Survives
  <1>2. CASE v.created_by = t
    <2>1. next_transaction_id \notin Begun
      BY DEF CoreInv, TypeOK, Begun
    <2>2. v.created_by \in active_transaction
      BY <1>2, <2>1 DEF Readers, CoreInv, HeadersConsistent
    <2>3. v.deleted_by = t
      BY <1>1, <1>2, <2>2 DEF CoreInv, HeadersConsistent
    <2> QED  BY <1>2, <2>3 DEF is_visible
  <1>3. CASE v.created_by # t
    BY <1>1, <1>3 DEF is_visible
  <1> QED  BY <1>2, <1>3

\* Only the vacuum takes a version from its place; every other step keeps it
\* there or replaces it by a marked copy (row.rs:206-259).
LEMMA StepKeepsPlaces ==
  ASSUME CoreInv, Next, ~auto_vacuum, NEW v \in versions
  PROVE  KeptPlace(v)
  <1>0. versions \subseteq Version /\ active_transaction \subseteq Nat
    BY DEF CoreInv, TypeOK
  <1>1. CASE create_transaction
    BY <1>1 DEF create_transaction, KeptPlace
  <1>2. ASSUME NEW t \in TxnIds, commit_transaction(t) PROVE KeptPlace(v)
    BY <1>2 DEF commit_transaction, KeptPlace
  <1>3. ASSUME NEW t \in TxnIds, rollback_transaction(t) PROVE KeptPlace(v)
    <2>1. RolledBack(v, t) \in versions' /\ t \in Nat
      BY <1>0, <1>3 DEF rollback_transaction
    <2>2. RolledBack(v, t).row = v.row /\ RolledBack(v, t).pos = v.pos
      BY <1>0, <2>1, RolledBackPlaces
    <2> QED  BY <2>1, <2>2 DEF KeptPlace
  <1>4. ASSUME NEW t \in TxnIds, NEW d \in Values, insert_row(t, d)
        PROVE  KeptPlace(v)
    BY <1>4 DEF insert_row, KeptPlace
  <1>5. ASSUME NEW u \in versions, NEW t \in Nat,
               MarkDeleted(u, t) \subseteq versions'
        PROVE  KeptPlace(v)
    <2>1. CASE v # u
      BY <1>5, <2>1 DEF MarkDeleted, KeptPlace
    <2>2. CASE v = u
      <3>1. [v EXCEPT !.deleted_by = t] \in versions'
        BY <1>5, <2>2 DEF MarkDeleted
      <3>2. /\ [v EXCEPT !.deleted_by = t].row = v.row
            /\ [v EXCEPT !.deleted_by = t].pos = v.pos
        BY <1>0 DEF Version
      <3> QED  BY <3>1, <3>2 DEF KeptPlace
    <2> QED  BY <2>1, <2>2
  <1>6. ASSUME NEW t \in TxnIds, NEW r \in RowIds, delete_row(t, r)
        PROVE  KeptPlace(v)
    BY <1>0, <1>5, <1>6 DEF delete_row
  <1>7. ASSUME NEW t \in TxnIds, NEW r \in RowIds, NEW d \in Values,
               update_row(t, r, d)
        PROVE  KeptPlace(v)
    BY <1>0, <1>5, <1>7 DEF update_row
  <1> QED
    BY <1>1, <1>2, <1>3, <1>4, <1>6, <1>7 DEF Next

\* The vacuum removes only what nobody can see (table.rs:1862, row.rs:238-243),
\* whatever the order of the commits before it.
THEOREM VacuumIsInvisible == Spec => VacuumInvisible
  <1> DEFINE Removed(v) == \A w \in versions' : <<w.row, w.pos>> # <<v.row, v.pos>>
             Step == \A v \in versions \ versions' :
                        Removed(v) => \A t \in Readers : ~is_visible(v, t)
  <1>1. MvccInv /\ [Next]_vars => [Step]_vars
    <2> SUFFICES ASSUME MvccInv, Next,
                        NEW v \in versions \ versions', Removed(v),
                        NEW t \in Readers
                 PROVE  ~is_visible(v, t)
      OBVIOUS
    <2>1. CoreInv
      BY DEF MvccInv, CoreInv
    <2>2. ~KeptPlace(v)
      BY DEF KeptPlace
    <2>3. auto_vacuum
      BY <2>1, <2>2, StepKeepsPlaces
    <2>4. ~Survives(v, smallest_active)
      BY <2>3 DEF auto_vacuum
    <2> QED  BY <2>1, <2>4, PrunedIsInvisible
  <1>2. [][Step]_vars => VacuumInvisible
    BY DEF VacuumInvisible, Readers
  <1> QED  BY <1>1, <1>2, Invariance, PTL DEF Spec

\* A place shows a version to t: the version there is one that t should see.
ShownTo(t, r, p) ==
  \E v \in versions : v.row = r /\ v.pos = p /\ Intended(v, t)

\* The step is one that another transaction makes without committing.
ForeignStep(t) == committed' = committed /\ ~Writes(t)

\* Putting a mark on a version without one, and adding versions, both by
\* another transaction in progress, changes nothing for t (row.rs:206-236).
LEMMA MarkKeepsShown ==
  ASSUME CoreInv, PlacesUnique,
         NEW u \in versions, NEW o \in active_transaction,
         NEW t \in active_transaction, o # t,
         MarkDeleted(u, o) \subseteq versions',
         \A n \in versions' \ MarkDeleted(u, o) : n.created_by = o /\ ~Late(n)',
         UNCHANGED <<committed, late, last_possible>>,
         u.deleted_by # None => u.row \in clobbered',
         NEW r \in Nat, NEW p \in Nat, r \notin clobbered'
  PROVE  ShownTo(t, r, p)' <=> ShownTo(t, r, p)
  <1> DEFINE m == [u EXCEPT !.deleted_by = o]
  <1>1. /\ u \in Version /\ o \notin committed /\ o # None /\ t # None
        /\ None \notin committed
    BY DEF CoreInv, TypeOK, Bookkeeping, Begun, None
  <1>2. /\ m.row = u.row /\ m.pos = u.pos
        /\ m.created_by = u.created_by /\ m.deleted_by = o
    BY <1>1 DEF Version
  <1>3. u.row = r => (Intended(u, t) <=> Intended(m, t))
    BY <1>1, <1>2 DEF Intended, Late
  <1>4. \A n \in versions' : n \in versions \ {u} \/ n = m \/ ~Intended(n, t)
    BY <1>1 DEF Intended, MarkDeleted, Late
  <1>5. versions \ {u} \subseteq versions' /\ m \in versions'
    BY DEF MarkDeleted
  <1> HIDE DEF m
  <1>6. ASSUME ShownTo(t, r, p) PROVE ShownTo(t, r, p)'
    <2>1. PICK v \in versions : v.row = r /\ v.pos = p /\ Intended(v, t)
      BY <1>6 DEF ShownTo
    <2>2. CASE v = u
      BY <1>2, <1>3, <1>5, <2>1, <2>2 DEF ShownTo, Intended, Late
    <2>3. CASE v # u
      BY <1>5, <2>1, <2>3 DEF ShownTo, Intended, Late
    <2> QED  BY <2>2, <2>3
  <1>7. ASSUME ShownTo(t, r, p)' PROVE ShownTo(t, r, p)
    <2>1. PICK v \in versions' : v.row = r /\ v.pos = p /\ Intended(v, t)
      BY <1>7 DEF ShownTo, Intended, Late
    <2>2. CASE v = m
      BY <1>2, <1>3, <2>1, <2>2 DEF ShownTo
    <2>3. CASE v # m
      BY <1>4, <2>1, <2>3 DEF ShownTo
    <2> QED  BY <2>2, <2>3
  <1> QED  BY <1>6, <1>7

\* What another transaction does before it commits, and what the vacuum does,
\* changes nothing that t should see (database.rs:213-314, row.rs:206-259).
LEMMA StepKeepsShown ==
  ASSUME CoreInv, PlacesUnique, WatermarkCurrent, Next,
         NEW t \in active_transaction, t \in active_transaction',
         ForeignStep(t),
         NEW r \in Nat, NEW p \in Nat, r \notin clobbered' \cup (late' \ late)
  PROVE  (ShownTo(t, r, p)' <=> ShownTo(t, r, p)) /\ last_possible' = last_possible
  <1>0. /\ versions \subseteq Version /\ active_transaction \subseteq Nat \ {0}
        /\ next_row_id \in Nat /\ None \notin committed
        /\ active_transaction \cap committed = {}
    BY DEF CoreInv, TypeOK, Bookkeeping, Begun, None
  <1>00. committed' = committed
    BY DEF ForeignStep
  <1>1. CASE create_transaction
    BY <1>1, <1>00 DEF create_transaction, ShownTo, Intended, Late
  <1>2. CASE auto_vacuum
    <2>1. \A v \in versions : Intended(v, t) => v \in versions'
      BY <1>2, ExactFor, PrunedIsInvisible DEF auto_vacuum, Readers
    <2>2. versions' \subseteq versions /\ UNCHANGED <<last_possible, late>>
      BY <1>2 DEF auto_vacuum, snapshot
    <2> QED  BY <1>00, <2>1, <2>2 DEF ShownTo, Intended, Late
  <1>3. ASSUME NEW o \in TxnIds, commit_transaction(o) PROVE FALSE
    BY <1>0, <1>00, <1>3 DEF commit_transaction
  <1>4. ASSUME NEW o \in TxnIds, rollback_transaction(o)
        PROVE  (ShownTo(t, r, p)' <=> ShownTo(t, r, p)) /\ last_possible' = last_possible
    <2>1. /\ o \in active_transaction /\ o # t
          /\ versions' = {RolledBack(v, o) : v \in versions}
          /\ UNCHANGED <<last_possible, late>>
      BY <1>4 DEF rollback_transaction
    <2>2. ASSUME NEW v \in versions
          PROVE  /\ RolledBack(v, o).row = v.row /\ RolledBack(v, o).pos = v.pos
                 /\ Intended(RolledBack(v, o), t) <=> Intended(v, t)
      <3>1. v \in Version /\ o \in Nat \ {0}
        BY <1>0, <2>1
      <3>2. RolledBack(v, o).row = v.row /\ RolledBack(v, o).pos = v.pos
        BY <3>1, RolledBackPlaces
      <3>3. Intended(RolledBack(v, o), t) <=> Intended(v, t)
        <4>1. o \notin committed /\ None # t
          BY <1>0, <2>1 DEF None
        <4>2. CASE v.created_by = o /\ v.deleted_by = None
          <5>1. ~Late(v) /\ RolledBack(v, o).created_by = o
            BY <2>1, <3>1, <4>2, RolledBackFacts DEF CoreInv, HeadersConsistent
          <5> QED
            BY <2>1, <3>1, <4>1, <4>2, <5>1, RolledBackFacts DEF Intended, Late
        <4>3. CASE v.created_by # o /\ v.deleted_by = o
          BY <1>0, <2>1, <3>1, <4>1, <4>3, RolledBackFacts DEF Intended, Late
        <4>4. CASE ~(v.created_by = o /\ v.deleted_by = None)
                   /\ ~(v.created_by # o /\ v.deleted_by = o)
          BY <3>1, <4>4, RolledBackFacts
        <4> QED  BY <4>2, <4>3, <4>4
      <3> QED  BY <3>2, <3>3
    <2> QED  BY <1>00, <2>1, <2>2 DEF ShownTo, Intended, Late
  <1>5. ASSUME NEW o \in TxnIds, NEW d \in Values, insert_row(o, d)
        PROVE  (ShownTo(t, r, p)' <=> ShownTo(t, r, p)) /\ last_possible' = last_possible
    <2>0. PICK n : n = NewVersion(next_row_id + 1, 1, o, d)
      OBVIOUS
    <2>1. /\ versions' = versions \cup {n} /\ last_possible' = last_possible
          /\ late' = late \cup (IF o \in active_transaction THEN {} ELSE {next_row_id + 1})
      BY <1>5, <2>0 DEF insert_row, snapshot
    <2>2. n.created_by = o /\ n.row = next_row_id + 1
      BY <2>0 DEF NewVersion
    <2>3. n \notin versions /\ \A v \in versions : v.row # next_row_id + 1
      BY <1>0, <2>2 DEF PlacesUnique, Version
    <2>4. o # t
      BY <2>1, <2>2, <2>3 DEF ForeignStep, Writes
    <2>5. \A v \in versions : Intended(v, t)' <=> Intended(v, t)
      BY <1>00, <2>1, <2>3 DEF Intended, Late
    <2>6. n.row = r => o \in active_transaction /\ ~Late(n)'
      BY <1>0, <2>1, <2>2 DEF CoreInv, Bookkeeping, Late
    <2>7. n.row = r => ~Intended(n, t)'
      BY <1>0, <1>00, <2>1, <2>2, <2>4, <2>6 DEF Intended, Late
    <2> QED  BY <2>1, <2>5, <2>7 DEF ShownTo
  <1>6. ASSUME NEW o \in active_transaction, NEW u \in versions,
               is_visible(u, o), NoteClobber(u),
               MarkDeleted(u, o) \subseteq versions',
               \A n \in versions' \ MarkDeleted(u, o) : n.created_by = o /\ ~Late(n)',
               UNCHANGED <<last_possible, late>>
        PROVE  ShownTo(t, r, p)' <=> ShownTo(t, r, p)
    <2> DEFINE m == [u EXCEPT !.deleted_by = o]
    <2>1. /\ u \in Version /\ m \in versions' /\ m.deleted_by = o
          /\ m.row = u.row /\ m.pos = u.pos
      BY <1>0, <1>6 DEF MarkDeleted, Version
    <2>2. u.deleted_by # o
      BY <1>0, <1>6 DEF is_visible, None
    <2>3. m \notin versions
      BY <2>1, <2>2 DEF PlacesUnique
    <2>4. o # t
      BY <2>1, <2>3 DEF ForeignStep, Writes
    <2>5. u.deleted_by # None => u.row \in clobbered'
      BY <1>6 DEF NoteClobber
    <2> QED  BY <1>00, <1>6, <2>4, <2>5, MarkKeepsShown
  <1>7. ASSUME NEW o \in TxnIds, NEW q \in RowIds, delete_row(o, q)
        PROVE  (ShownTo(t, r, p)' <=> ShownTo(t, r, p)) /\ last_possible' = last_possible
    <2>1. PICK u \in versions :
             /\ get_versioned_row(u, q, o)
             /\ versions' = MarkDeleted(u, o)
             /\ NoteClobber(u)
      BY <1>7 DEF delete_row
    <2>2. is_visible(u, o)
      BY <2>1 DEF get_versioned_row, VisibleVersions
    <2>3. o \in active_transaction /\ UNCHANGED <<last_possible, late>>
      BY <1>7 DEF delete_row, snapshot
    <2>4. /\ MarkDeleted(u, o) \subseteq versions'
          /\ \A n \in versions' \ MarkDeleted(u, o) : n.created_by = o /\ ~Late(n)'
      BY <2>1
    <2> QED  BY <1>6, <2>1, <2>2, <2>3, <2>4
  <1>8. ASSUME NEW o \in TxnIds, NEW q \in RowIds, NEW d \in Values,
               update_row(o, q, d)
        PROVE  (ShownTo(t, r, p)' <=> ShownTo(t, r, p)) /\ last_possible' = last_possible
    <2>1. PICK u \in versions, e \in 1..MaxVersions :
             /\ get_versioned_row(u, q, o)
             /\ EndOfChain(q, e)
             /\ versions' = MarkDeleted(u, o) \cup {NewVersion(q, e, o, d)}
             /\ NoteClobber(u)
      BY <1>8 DEF update_row
    <2>2. is_visible(u, o)
      BY <2>1 DEF get_versioned_row, VisibleVersions
    <2>3. o \in active_transaction /\ UNCHANGED <<last_possible, late>>
      BY <1>8 DEF update_row, snapshot
    <2>4. e # 1
      <3>1. u.row = q /\ u.pos \in Nat \ {0}
        BY <2>1 DEF get_versioned_row, VisibleVersions, CoreInv, TypeOK, Version
      <3> QED  BY <2>1, <3>1, BoundsAssumption DEF EndOfChain
    <2>5. /\ MarkDeleted(u, o) \subseteq versions'
          /\ \A n \in versions' \ MarkDeleted(u, o) : n.created_by = o /\ ~Late(n)'
      BY <2>1, <2>4 DEF NewVersion, Late
    <2> QED  BY <1>6, <2>1, <2>2, <2>3, <2>5
  <1> QED
    BY <1>1, <1>2, <1>3, <1>4, <1>5, <1>7, <1>8 DEF Next, create_transaction

\* Isolation of one step (database.rs:213-314, row.rs:206-259): what a
\* transaction sees changes only by its own writes, by a commit, or in a row that
\* appears with COPY data come too late (pg_wire.rs:1685).
THEOREM StableViews == Spec => ViewStable
  <1> DEFINE Stable ==
        \A t \in active_transaction \cap active_transaction' :
          (WatermarkCurrent /\ committed' = committed /\ ~Writes(t)) =>
            \A x \in RowIds \X (1..MaxVersions) :
              \/ x[1] \in clobbered' \cup (late' \ late)
              \/ x \in View(t)' <=> x \in View(t)
  <1>1. MvccInv /\ VisibilityExact /\ VisibilityExact' /\ [Next]_vars => [Stable]_vars
    <2> SUFFICES ASSUME MvccInv, VisibilityExact, VisibilityExact', Next,
                        NEW t \in active_transaction, t \in active_transaction',
                        WatermarkCurrent, committed' = committed, ~Writes(t),
                        NEW x \in RowIds \X (1..MaxVersions),
                        x[1] \notin clobbered' \cup (late' \ late)
                 PROVE  x \in View(t)' <=> x \in View(t)
      OBVIOUS
    <2>1. CoreInv /\ PlacesUnique /\ ForeignStep(t)
      BY DEF MvccInv, CoreInv, ForeignStep
    <2>2. PICK r \in RowIds, p \in 1..MaxVersions : x = <<r, p>>
      OBVIOUS
    <2>3. r \in Nat /\ p \in Nat /\ r \notin clobbered' \cup (late' \ late)
      BY <2>2, BoundsAssumption DEF RowIds
    <2>4. (ShownTo(t, r, p)' <=> ShownTo(t, r, p)) /\ last_possible' = last_possible
      BY <2>1, <2>3, StepKeepsShown
    <2>5. x \in View(t) <=> ShownTo(t, r, p)
      BY <2>2 DEF View, ShownTo, VisibilityExact, Intended
    <2>6. WatermarkCurrent'
      BY <2>4 DEF WatermarkCurrent
    <2>7. x \in View(t)' <=> ShownTo(t, r, p)'
      BY <2>2, <2>6 DEF View, ShownTo, VisibilityExact, Intended
    <2> QED  BY <2>4, <2>5, <2>7
  <1>2. [][Stable]_vars => ViewStable
    BY DEF ViewStable
  <1> QED  BY <1>1, <1>2, Invariance, ExactVisibility, PTL DEF Spec

-----------------------------------------------------------------------------
(* Refinement                                                              *)
(*                                                                         *)
(* The version chains implement ReadCommitted, step by step: beginning,    *)
(* writing, committing and rolling back are steps of the abstract table,   *)
(* overwriting another's deletion mark gives the row up, and the vacuum is *)
(* a stuttering step.  Everything rests on MvccInv.                        *)


\* Version w says that transaction t wrote its row.
Touches(w, t) == w.created_by = t \/ w.deleted_by = t

\* The abstract state, by membership.
LEMMA AbstractMembers ==
  /\ \A r, x : x \in CommittedData(r) <=>
        \E w \in versions : /\ w.row = r /\ r \notin Untracked
                            /\ w.created_by \in committed
                            /\ w.deleted_by \notin committed /\ w.data = x
  /\ \A t, r : r \in WrittenBy(t) <=>
        r \notin Untracked /\ \E w \in versions : w.row = r /\ Touches(w, t)
  /\ \A t, r, x : x \in DataBy(t, r) <=>
        \E w \in versions : /\ w.row = r /\ w.created_by = t
                            /\ w.deleted_by # t /\ w.data = x
  BY DEF CommittedData, WrittenBy, DataBy, Touches

\* The same after a step.
LEMMA AbstractMembersNext ==
  /\ \A r, x : x \in CommittedData(r)' <=>
        \E w \in versions' : /\ w.row = r /\ r \notin Untracked'
                             /\ w.created_by \in committed'
                             /\ w.deleted_by \notin committed' /\ w.data = x
  /\ \A t, r : r \in WrittenBy(t)' <=>
        r \notin Untracked' /\ \E w \in versions' : w.row = r /\ Touches(w, t)
  /\ \A t, r, x : x \in DataBy(t, r)' <=>
        \E w \in versions' : /\ w.row = r /\ w.created_by = t
                             /\ w.deleted_by # t /\ w.data = x
  BY DEF CommittedData, WrittenBy, DataBy, Touches

\* On a tracked row no version was inserted too late, so the fate of a version's
\* creator is the version's own.
LEMMA Tracked ==
  ASSUME NEW w \in versions, w.row \notin Untracked
  PROVE  /\ w.row \notin clobbered /\ ~Late(w)
         /\ Undone(w) <=> w.created_by \in Aborted
  BY DEF Untracked, Late, Undone

\* The type facts that the steps use.
LEMMA Facts ==
  ASSUME MvccInv
  PROVE  /\ CoreInv /\ versions \subseteq Version
         /\ active_transaction \subseteq Nat \ {0}
         /\ next_row_id \in Nat /\ next_transaction_id \in Nat
         /\ active_transaction \cap committed = {}
         /\ None \notin committed /\ None \notin active_transaction
         /\ next_transaction_id \notin active_transaction
         /\ \A v \in versions : ~Touches(v, next_transaction_id)
         /\ \A v \in versions : v.row \in RowIds /\ v.row \in Nat /\ v.pos \in Nat
  BY DEF MvccInv, CoreInv, TypeOK, Version, Bookkeeping, Begun, HeadersConsistent,
         WithinBounds, None, Touches

\* On a tracked row, a mark is left by the version's creator in progress, or by
\* another transaction on a version that is committed.
LEMMA MarkedByOther ==
  ASSUME MvccInv, NEW w \in versions, NEW t \in active_transaction,
         w.deleted_by = t, w.created_by # t, w.row \notin Untracked
  PROVE  w.created_by \in committed
  BY Facts, Tracked DEF MvccInv, HeadersConsistent, Bookkeeping, Aborted

\* A row that t has written, and that is tracked, has no
\* committed version left that t has not deleted (row.rs:206-236).
LEMMA WriterOwnsRow ==
  ASSUME MvccInv, NEW t \in active_transaction,
         NEW v \in versions, NEW w \in versions, v.row = w.row,
         v.row \notin Untracked, Touches(w, t),
         v.created_by \in committed, v.deleted_by \notin committed \cup {t}
  PROVE  FALSE
  <1>1. /\ v.pos \in Nat /\ w.pos \in Nat /\ v.pos # w.pos
        /\ t \notin committed /\ t \notin Aborted /\ None \notin committed
        /\ v.created_by \notin Aborted
        /\ v.row \notin clobbered /\ ~Undone(v)
        /\ w.created_by \notin Aborted => ~Undone(w)
    BY Facts, Tracked DEF MvccInv, PlacesUnique, Touches, Aborted
  <1>2. CASE w.created_by = t
    <2>1. w.deleted_by \in {None, t}
      BY <1>2 DEF MvccInv, HeadersConsistent
    <2>2. CASE v.pos < w.pos
      BY <1>1, <1>2, <2>2 DEF MvccInv, SupersededIsMarked
    <2>3. CASE w.pos < v.pos
      BY <1>1, <1>2, <2>1, <2>3, Facts DEF MvccInv, SupersededIsMarked, HeadersConsistent,
         Begun, None
    <2> QED  BY <1>1, <2>2, <2>3
  <1>3. CASE w.created_by # t /\ w.deleted_by = t
    <2>1. w.created_by \in committed /\ w.created_by \notin Aborted
      BY <1>3, MarkedByOther DEF Aborted
    <2>2. CASE v.pos < w.pos
      BY <1>1, <2>1, <2>2 DEF MvccInv, SupersededIsMarked
    <2>3. CASE w.pos < v.pos
      BY <1>1, <1>3, <2>1, <2>3 DEF MvccInv, SupersededIsMarked
    <2> QED  BY <1>1, <2>2, <2>3
  <1> QED  BY <1>2, <1>3 DEF Touches

\* Of the unmarked versions of a tracked row, at most one is not rolled back.
LEMMA OneUnmarked ==
  ASSUME MvccInv, NEW v \in versions, NEW w \in versions, v.row = w.row,
         v.row \notin Untracked, v.deleted_by = None, w.deleted_by = None,
         v.created_by \notin Aborted, w.created_by \notin Aborted
  PROVE  v = w
  <1>1. v.pos \in Nat /\ w.pos \in Nat /\ CoreInv /\ SupersededIsMarked
    BY Facts DEF MvccInv
  <1>2. ~(v.pos < w.pos) /\ ~(w.pos < v.pos)
    BY <1>1, Tracked, NothingAbove
  <1> QED  BY <1>1, <1>2 DEF MvccInv, PlacesUnique

\* Nobody else in progress has written a row of which t sees an unmarked version.
LEMMA NoOtherWriter ==
  ASSUME MvccInv, NEW t \in active_transaction, NEW u \in active_transaction, u # t,
         NEW v \in versions, NEW w \in versions, v.row = w.row,
         v.row \notin Untracked, v.deleted_by = None,
         v.created_by \in committed \cup {t}, Touches(w, u)
  PROVE  FALSE
  <1>1. CASE v.created_by \in committed
    BY <1>1, Facts, WriterOwnsRow
  <1>2. CASE v.created_by = t
    <2>1. /\ v.pos \in Nat /\ w.pos \in Nat /\ CoreInv /\ SupersededIsMarked
          /\ t \notin Aborted /\ u \notin Aborted /\ t \notin committed /\ u \notin committed
          /\ None \notin committed /\ u # None /\ t # None
          /\ v.row \notin clobbered
          /\ \A x \in {v, w} : Undone(x) <=> x.created_by \in Aborted
      BY Facts, Tracked DEF MvccInv, Aborted
    <2>2. w.created_by \notin Aborted /\ w.deleted_by \in {None, u}
      <3>1. CASE w.created_by = u
        BY <2>1, <3>1 DEF MvccInv, HeadersConsistent
      <3>2. CASE w.created_by # u /\ w.deleted_by = u
        BY <3>2, MarkedByOther DEF Aborted
      <3> QED  BY <3>1, <3>2 DEF Touches
    <2>3. ~(v.pos < w.pos)
      BY <1>2, <2>1, <2>2, NothingAbove
    <2>4. ~(w.pos < v.pos)
      BY <1>2, <2>1, <2>2 DEF SupersededIsMarked
    <2>5. v # w
      BY <1>2, <2>1 DEF Touches
    <2> QED  BY <2>1, <2>3, <2>4, <2>5 DEF MvccInv, PlacesUnique
  <1> QED  BY <1>1, <1>2

abstract_vars == <<dbBar, localBar, Untracked>>

\* Nothing of the abstract state changes if its members stay the same.
LEMMA SameDb ==
  ASSUME \A r \in RowIds : \A x : x \in CommittedData(r)' <=> x \in CommittedData(r)
  PROVE  dbBar' = dbBar
  <1>1. \A r \in RowIds : CommittedData(r)' = CommittedData(r)
    OBVIOUS
  <1> QED  BY <1>1 DEF dbBar

SameWrites(u) ==
  /\ \A r : r \in WrittenBy(u)' <=> r \in WrittenBy(u)
  /\ \A r \in WrittenBy(u) : \A x : x \in DataBy(u, r)' <=> x \in DataBy(u, r)

LEMMA SameWritesEqual ==
  ASSUME NEW u, SameWrites(u)
  PROVE  [r \in WrittenBy(u)' |-> DataBy(u, r)'] = [r \in WrittenBy(u) |-> DataBy(u, r)]
  <1>1. WrittenBy(u)' = WrittenBy(u)
    BY DEF SameWrites
  <1>2. \A r \in WrittenBy(u) : DataBy(u, r)' = DataBy(u, r)
    BY DEF SameWrites
  <1> QED  BY <1>1, <1>2

\* Begin (database.rs:213-225).
LEMMA BeginRefines == MvccInv /\ create_transaction => Abstract!Next
  <1> SUFFICES ASSUME MvccInv, create_transaction PROVE Abstract!Next
    OBVIOUS
  <1> DEFINE t == next_transaction_id
  <1>1. /\ UNCHANGED <<versions, committed, Untracked>>
        /\ active_transaction' = active_transaction \cup {t}
        /\ t \in TxnIds
    BY BoundsAssumption DEF create_transaction, TxnIds, MvccInv, TypeOK, Untracked
  <1>2. dbBar' = dbBar
    BY <1>1, AbstractMembers, AbstractMembersNext, SameDb
  <1>3. \A u : SameWrites(u)
    BY <1>1, AbstractMembers, AbstractMembersNext DEF SameWrites
  <1>4. WrittenBy(t) = {} /\ t \notin active_transaction
    BY Facts, AbstractMembers
  <1>5. /\ DOMAIN localBar = active_transaction
        /\ \A u \in active_transaction :
              localBar[u] = [r \in WrittenBy(u) |-> DataBy(u, r)]
    BY DEF localBar
  <1>6. localBar' = [u \in DOMAIN localBar \cup {t} |->
                       IF u = t THEN [r \in {} |-> {}] ELSE localBar[u]]
    <2>1. localBar' = [u \in active_transaction \cup {t} |->
                         [r \in WrittenBy(u)' |-> DataBy(u, r)']]
      BY <1>1 DEF localBar
    <2>2. \A u : [r \in WrittenBy(u)' |-> DataBy(u, r)'] = [r \in WrittenBy(u) |-> DataBy(u, r)]
      BY <1>3, SameWritesEqual
    <2>3. [r \in WrittenBy(t) |-> DataBy(t, r)] = [r \in {} |-> {}]
      BY <1>4
    <2> QED  BY <1>4, <1>5, <2>1, <2>2, <2>3
  <1>7. Abstract!Begin(t)
    BY <1>1, <1>2, <1>4, <1>5, <1>6 DEF Abstract!Begin
  <1> QED  BY <1>1, <1>7 DEF Abstract!Next

\* The vacuum is a stuttering step: what it removes is neither committed and
\* undeleted nor a mark of a transaction in progress (table.rs:1862).
LEMMA VacuumRefines == MvccInv /\ auto_vacuum => UNCHANGED abstract_vars
  <1> SUFFICES ASSUME MvccInv, auto_vacuum PROVE UNCHANGED abstract_vars
    OBVIOUS
  <1>1. /\ UNCHANGED <<active_transaction, committed, Untracked>>
        /\ versions' \subseteq versions
        /\ \A v \in versions : Survives(v, smallest_active) => v \in versions'
    BY DEF auto_vacuum, snapshot, Untracked
  <1>2. ASSUME NEW v \in versions, v \notin versions'
        PROVE  /\ ~(v.created_by \in committed /\ v.deleted_by \notin committed)
               /\ \A u \in active_transaction : ~Touches(v, u)
    <2>1. /\ v.deleted_by \in Nat /\ smallest_active \in Nat
          /\ v.deleted_by # None /\ v.deleted_by < smallest_active
      BY <1>1, <1>2 DEF MvccInv, TypeOK, Version, Survives
    <2>2. v.deleted_by \notin active_transaction
      BY <2>1, Facts DEF MvccInv, Bookkeeping
    <2>3. v.created_by \notin active_transaction
      BY <2>1, <2>2 DEF MvccInv, HeadersConsistent
    <2> QED
      BY <2>1, <2>2, <2>3 DEF MvccInv, HeadersConsistent, Aborted, Touches
  <1>3. dbBar' = dbBar
    <2>1. \A r, x : x \in CommittedData(r)' <=> x \in CommittedData(r)
      BY <1>1, <1>2, AbstractMembers, AbstractMembersNext
    <2> QED  BY <2>1, SameDb
  <1>4. \A u \in active_transaction : SameWrites(u)
    BY <1>1, <1>2, AbstractMembers, AbstractMembersNext DEF SameWrites, Touches
  <1>5. localBar' = localBar
    BY <1>1, <1>4, SameWritesEqual DEF localBar
  <1> QED  BY <1>1, <1>3, <1>5 DEF abstract_vars

\* A transaction ends and the others keep what they have written.
LEMMA EndRefines ==
  ASSUME MvccInv, NEW t \in active_transaction,
         active_transaction' = active_transaction \ {t}, Untracked' = Untracked,
         \A u \in active_transaction \ {t} : SameWrites(u)
  PROVE  Abstract!End(t)
  <1>1. /\ DOMAIN localBar = active_transaction
        /\ \A u \in active_transaction :
              localBar[u] = [r \in WrittenBy(u) |-> DataBy(u, r)]
    BY DEF localBar
  <1>2. localBar' = [u \in active_transaction \ {t} |->
                       [r \in WrittenBy(u)' |-> DataBy(u, r)']]
    BY DEF localBar
  <1>3. localBar' = [u \in active_transaction \ {t} |-> localBar[u]]
    BY <1>1, <1>2, SameWritesEqual
  <1> QED  BY <1>1, <1>3 DEF Abstract!End

\* Commit publishes all writes of the transaction at once (database.rs:227-255).
LEMMA CommitRefines ==
  ASSUME MvccInv, NEW t \in TxnIds, commit_transaction(t)
  PROVE  Abstract!Commit(t)
  <1>1. /\ t \in active_transaction
        /\ active_transaction' = active_transaction \ {t}
        /\ committed' = committed \cup {t}
        /\ UNCHANGED <<versions, Untracked>>
    BY DEF commit_transaction, Untracked
  <1>2. \A u \in active_transaction \ {t} : SameWrites(u)
    BY <1>1, AbstractMembers, AbstractMembersNext DEF SameWrites
  <1>3. Abstract!End(t)
    BY <1>1, <1>2, EndRefines
  <1>4. ASSUME NEW r \in RowIds PROVE CommittedData(r)' = Abstract!View(t, r)
    <2>1. Abstract!View(t, r) = IF r \in WrittenBy(t) THEN DataBy(t, r) ELSE CommittedData(r)
      BY <1>1 DEF Abstract!View, localBar, dbBar
    <2>2. CASE r \in WrittenBy(t)
      <3>1. r \notin Untracked
        BY <2>2, AbstractMembers
      <3>2. PICK w \in versions : w.row = r /\ Touches(w, t)
        BY <2>2, AbstractMembers
      <3>3. \A v \in versions : v.row = r =>
              (/\ v.created_by \in committed \cup {t} /\ v.deleted_by \notin committed \cup {t}
               <=> v.created_by = t /\ v.deleted_by # t)
        <4> SUFFICES ASSUME NEW v \in versions, v.row = r
                     PROVE  /\ v.created_by \in committed \cup {t}
                            /\ v.deleted_by \notin committed \cup {t}
                            <=> v.created_by = t /\ v.deleted_by # t
          OBVIOUS
        <4>1. ~(v.created_by \in committed /\ v.deleted_by \notin committed \cup {t})
          BY <1>1, <3>1, <3>2, WriterOwnsRow
        <4>2. v.created_by = t => v.deleted_by \in {None, t}
          BY <1>1 DEF MvccInv, HeadersConsistent
        <4> QED  BY <4>1, <4>2, Facts
      <3>4. \A x : x \in CommittedData(r)' <=> x \in DataBy(t, r)
        BY <1>1, <3>1, <3>3, AbstractMembers, AbstractMembersNext
      <3> QED  BY <2>1, <2>2, <3>4
    <2>3. CASE r \notin WrittenBy(t)
      <3>1. r \in Untracked \/ \A w \in versions : w.row = r => ~Touches(w, t)
        BY <2>3, AbstractMembers
      <3>2. \A x : x \in CommittedData(r)' <=> x \in CommittedData(r)
        BY <1>1, <3>1, AbstractMembers, AbstractMembersNext DEF Touches
      <3> QED  BY <2>1, <2>3, <3>2
    <2> QED  BY <2>2, <2>3
  <1>5. dbBar' = [r \in RowIds |-> Abstract!View(t, r)]
    BY <1>4 DEF dbBar
  <1> QED  BY <1>3, <1>5 DEF Abstract!Commit

\* Rollback leaves no trace (database.rs:257-314, row.rs:245-259).
LEMMA RollbackRefines ==
  ASSUME MvccInv, NEW t \in TxnIds, rollback_transaction(t)
  PROVE  Abstract!Rollback(t)
  <1>1. /\ t \in active_transaction
        /\ active_transaction' = active_transaction \ {t}
        /\ versions' = {RolledBack(v, t) : v \in versions}
        /\ UNCHANGED <<committed, Untracked>>
    BY DEF rollback_transaction, Untracked
  <1>2. ASSUME NEW v \in versions
        PROVE  /\ RolledBack(v, t) \in versions'
               /\ RolledBack(v, t).row = v.row /\ RolledBack(v, t).data = v.data
               /\ RolledBack(v, t).created_by = v.created_by
               /\ v.created_by # t =>
                     (RolledBack(v, t).deleted_by \in committed <=> v.deleted_by \in committed)
               /\ \A u \in active_transaction \ {t} :
                     RolledBack(v, t).deleted_by = u <=> v.deleted_by = u
    <2>1. v \in Version /\ t \in Nat \ {0}
      BY <1>1, Facts
    <2>2. RolledBack(v, t).row = v.row /\ RolledBack(v, t).data = v.data
      BY <2>1 DEF RolledBack, Version
    <2> QED  BY <1>1, <2>1, <2>2, Facts, RolledBackFacts, SMTT(30)
  <1>3. \A w \in versions' : \E v \in versions : w = RolledBack(v, t)
    BY <1>1
  <1>4. dbBar' = dbBar
    <2>1. \A r, x : x \in CommittedData(r)' <=> x \in CommittedData(r)
      BY <1>1, <1>2, <1>3, Facts, AbstractMembers, AbstractMembersNext
    <2> QED  BY <2>1, SameDb
  <1>5. ASSUME NEW u \in active_transaction \ {t} PROVE SameWrites(u)
    <2>1. \A v \in versions : Touches(RolledBack(v, t), u) <=> Touches(v, u)
      BY <1>2 DEF Touches
    <2>2. \A r : r \in WrittenBy(u)' <=> r \in WrittenBy(u)
      BY <1>1, <1>2, <1>3, <2>1, AbstractMembers, AbstractMembersNext
    <2>3. \A r, x : x \in DataBy(u, r)' <=> x \in DataBy(u, r)
      BY <1>2, <1>3, AbstractMembers, AbstractMembersNext
    <2> QED  BY <2>2, <2>3 DEF SameWrites
  <1>6. Abstract!End(t)
    BY <1>1, <1>5, EndRefines
  <1> QED  BY <1>4, <1>6 DEF Abstract!Rollback

\* Changing one value of a function.
LEMMA OneChanged ==
  ASSUME NEW A, NEW f, NEW g, NEW a \in A, NEW y,
         f = [u \in A |-> f[u]], g = [u \in A |-> g[u]],
         f[a] = y, \A u \in A \ {a} : f[u] = g[u]
  PROVE  f = [g EXCEPT ![a] = y]
  OBVIOUS

\* What a step must do to be a write of x to row r by t.
LEMMA WriteFrom ==
  ASSUME NEW t \in active_transaction, NEW r, NEW x, r \notin Untracked,
         active_transaction' = active_transaction,
         Untracked' = Untracked, dbBar' = dbBar,
         \A u \in active_transaction \ {t} : SameWrites(u) /\ r \notin WrittenBy(u),
         WrittenBy(t)' = WrittenBy(t) \cup {r}, DataBy(t, r)' = x,
         \A s \in WrittenBy(t) \ {r} : DataBy(t, s)' = DataBy(t, s),
         Abstract!View(t, r) # {} \/ (x # {} /\ r \notin WrittenBy(t))
  PROVE  Abstract!Write(t, r, x)
  <1>1. /\ DOMAIN localBar = active_transaction
        /\ localBar = [u \in active_transaction |-> localBar[u]]
        /\ \A u \in active_transaction :
              localBar[u] = [s \in WrittenBy(u) |-> DataBy(u, s)]
    BY DEF localBar
  <1>2. /\ localBar' = [u \in active_transaction |-> localBar'[u]]
        /\ \A u \in active_transaction :
              localBar'[u] = [s \in WrittenBy(u)' |-> DataBy(u, s)']
    BY DEF localBar
  <1>3. localBar'[t]
          = [s \in DOMAIN localBar[t] \cup {r} |-> IF s = r THEN x ELSE localBar[t][s]]
    <2>1. DOMAIN localBar[t] = WrittenBy(t)
      BY <1>1
    <2>2. \A s \in WrittenBy(t) : localBar[t][s] = DataBy(t, s)
      BY <1>1
    <2>3. localBar'[t] = [s \in WrittenBy(t) \cup {r} |-> DataBy(t, s)']
      BY <1>2
    <2> QED  BY <2>1, <2>2, <2>3
  <1>4. \A u \in active_transaction \ {t} : localBar'[u] = localBar[u]
    BY <1>1, <1>2, SameWritesEqual
  <1>5. localBar' = [localBar EXCEPT ![t] =
          [s \in DOMAIN localBar[t] \cup {r} |-> IF s = r THEN x ELSE localBar[t][s]]]
    BY <1>1, <1>2, <1>3, <1>4, OneChanged
  <1>6. \A u \in active_transaction : DOMAIN localBar[u] = WrittenBy(u)
    BY <1>1
  <1> QED  BY <1>1, <1>5, <1>6 DEF Abstract!Write

\* A fresh row is a write to a row nobody has had, or is given up at once when
\* its transaction has ended (table.rs:1269-1300, pg_wire.rs:1685).
LEMMA InsertRefines ==
  ASSUME MvccInv, NEW t \in TxnIds, NEW d \in Values, insert_row(t, d)
  PROVE  Abstract!Next
  <1>0. PICK r : r = next_row_id + 1
    OBVIOUS
  <1>00. PICK n : n = NewVersion(r, 1, t, d)
    OBVIOUS
  <1>1. /\ versions' = versions \cup {n}
        /\ UNCHANGED <<active_transaction, committed>>
        /\ n.row = r /\ n.created_by = t /\ n.deleted_by = None /\ n.data = d
        /\ Untracked' = Untracked \cup (IF t \in active_transaction THEN {} ELSE {r})
    BY <1>0, <1>00 DEF insert_row, snapshot, NewVersion, Untracked
  <1>2. /\ r \in RowIds /\ r \notin Untracked /\ \A w \in versions : w.row # r
    BY <1>0, Facts, BoundsAssumption
       DEF insert_row, RowIds, MvccInv, PlacesUnique, WithinBounds, TypeOK,
           Untracked, Bookkeeping
  <1>3. /\ \A u : r \notin WrittenBy(u)
        /\ \A x : x \notin CommittedData(r)
    BY <1>2, AbstractMembers
  <1>4. /\ \A s, x : s # r => (x \in CommittedData(s)' <=> x \in CommittedData(s))
        /\ \A u, s : s # r => (s \in WrittenBy(u)' <=> s \in WrittenBy(u))
        /\ \A u, s, x : s # r => (x \in DataBy(u, s)' <=> x \in DataBy(u, s))
    BY <1>1, AbstractMembers, AbstractMembersNext
  <1>5. CASE t \in active_transaction
    <2>1. t \notin committed /\ t # None /\ r \notin Untracked'
      BY <1>1, <1>2, <1>5, Facts
    <2>2. dbBar' = dbBar
      <3>1. \A x : x \notin CommittedData(r)'
        BY <1>1, <1>2, <2>1, AbstractMembersNext
      <3>2. \A s, x : x \in CommittedData(s)' <=> x \in CommittedData(s)
        BY <1>3, <1>4, <3>1
      <3> QED  BY <3>2, SameDb
    <2>3. ASSUME NEW u \in active_transaction \ {t} PROVE SameWrites(u)
      <3>1. \A w \in versions' : w.row = r => ~Touches(w, u)
        BY <1>1, <1>2, Facts DEF Touches
      <3>2. r \notin WrittenBy(u)'
        BY <3>1, AbstractMembersNext
      <3> QED  BY <1>3, <1>4, <3>2 DEF SameWrites
    <2>4. WrittenBy(t)' = WrittenBy(t) \cup {r}
      <3>1. r \in WrittenBy(t)'
        BY <1>1, <2>1, AbstractMembersNext DEF Touches
      <3> QED  BY <1>4, <3>1
    <2>5. DataBy(t, r)' = {d}
      <3>1. \A x : x \in DataBy(t, r)' <=> x = d
        BY <1>1, <1>2, <2>1, AbstractMembersNext
      <3> QED  BY <3>1
    <2>6. \A s \in WrittenBy(t) : DataBy(t, s)' = DataBy(t, s)
      <3>1. \A s : s # r => DataBy(t, s)' = DataBy(t, s)
        BY <1>4
      <3> QED  BY <1>3, <3>1
    <2>7. active_transaction' = active_transaction /\ Untracked' = Untracked
      BY <1>1, <1>5
    <2>8. Abstract!Write(t, r, {d})
      BY <1>2, <1>3, <1>5, <2>2, <2>3, <2>4, <2>5, <2>6, <2>7, WriteFrom
    <2> QED  BY <1>2, <2>8 DEF Abstract!Next
  <1>6. CASE t \notin active_transaction
    <2>1. Untracked' = Untracked \cup {r}
      BY <1>1, <1>6
    <2>2. r \notin Untracked' => FALSE
      BY <2>1
    <2>3. /\ \A x : x \notin CommittedData(r)'
          /\ \A u : r \notin WrittenBy(u)'
      BY <2>1, AbstractMembersNext
    <2>4. dbBar' = dbBar /\ CommittedData(r) = {}
      <3>1. \A s, x : x \in CommittedData(s)' <=> x \in CommittedData(s)
        BY <1>3, <1>4, <2>3
      <3> QED  BY <1>3, <3>1, SameDb
    <2>5. dbBar' = [dbBar EXCEPT ![r] = {}]
      BY <1>2, <2>4 DEF dbBar
    <2>6. \A u : SameWrites(u)
      BY <1>3, <1>4, <2>3 DEF SameWrites
    <2>7. localBar' = localBar
      BY <1>1, <2>6, SameWritesEqual DEF localBar
    <2>8. localBar = [u \in DOMAIN localBar |->
                        [s \in DOMAIN localBar[u] \ {r} |-> localBar[u][s]]]
      <3>1. localBar = [u \in active_transaction |->
                          [s \in WrittenBy(u) |-> DataBy(u, s)]]
        BY DEF localBar
      <3>2. DOMAIN localBar = active_transaction
        BY DEF localBar
      <3>3. \A u \in active_transaction :
               [s \in WrittenBy(u) \ {r} |-> DataBy(u, s)]
                 = [s \in DOMAIN localBar[u] \ {r} |-> localBar[u][s]]
        BY DEF localBar
      <3>4. \A u \in active_transaction : WrittenBy(u) = WrittenBy(u) \ {r}
        BY <1>3
      <3>5. \A u \in active_transaction :
               [s \in WrittenBy(u) |-> DataBy(u, s)]
                 = [s \in WrittenBy(u) \ {r} |-> DataBy(u, s)]
        BY <3>4
      <3> QED  BY <3>1, <3>2, <3>3, <3>5
    <2>9. Abstract!GiveUp(r)
      BY <2>1, <2>5, <2>7, <2>8 DEF Abstract!GiveUp
    <2> QED  BY <1>2, <2>9 DEF Abstract!Next
  <1> QED  BY <1>5, <1>6

\* The step by which t marks the version v of row r that it sees, and pushes the
\* versions in N, at most one (row.rs:206-236).
WriteStep(t, r, v, N) ==
  /\ v.row = r /\ is_visible(v, t)
  /\ versions' = MarkDeleted(v, t) \cup N
  /\ \A n \in N : /\ n.row = r /\ n.created_by = t /\ n.deleted_by = None
                  /\ n.data \in Values
  /\ \A n, o \in N : n = o
  /\ NoteClobber(v)
  /\ UNCHANGED <<active_transaction, committed, late>>

\* Such a step leaves the other rows alone.
LEMMA OtherRows ==
  ASSUME MvccInv, NEW t \in active_transaction, NEW r \in RowIds,
         NEW v \in versions, NEW N, WriteStep(t, r, v, N)
  PROVE  /\ Untracked' = Untracked \cup (IF v.deleted_by = None THEN {} ELSE {r})
         /\ \A s, x : s # r => (x \in CommittedData(s)' <=> x \in CommittedData(s))
         /\ \A u, s : s # r => (s \in WrittenBy(u)' <=> s \in WrittenBy(u))
         /\ \A u, s, x : s # r => (x \in DataBy(u, s)' <=> x \in DataBy(u, s))
  <1> DEFINE m == [v EXCEPT !.deleted_by = t]
  <1>1. m.row = r
    BY Facts DEF Version, WriteStep
  <1>2. Untracked' = Untracked \cup (IF v.deleted_by = None THEN {} ELSE {r})
    BY DEF WriteStep, NoteClobber, Untracked
  <1>3. \A w : w.row # r => (w \in versions' <=> w \in versions)
    BY <1>1 DEF WriteStep, MarkDeleted
  <1>4. committed' = committed
    BY DEF WriteStep
  <1>5. \A s, x : s # r => (x \in CommittedData(s)' <=> x \in CommittedData(s))
    BY <1>2, <1>3, <1>4, AbstractMembers, AbstractMembersNext
  <1>6. \A u, s : s # r => (s \in WrittenBy(u)' <=> s \in WrittenBy(u))
    BY <1>2, <1>3, AbstractMembers, AbstractMembersNext
  <1>7. \A u, s, x : s # r => (x \in DataBy(u, s)' <=> x \in DataBy(u, s))
    BY <1>3, AbstractMembers, AbstractMembersNext
  <1> QED  BY <1>2, <1>5, <1>6, <1>7

\* On a row already given up it changes nothing abstract.
LEMMA LostWriteRefines ==
  ASSUME MvccInv, NEW t \in active_transaction, NEW r \in RowIds,
         NEW v \in versions, NEW N, WriteStep(t, r, v, N), r \in Untracked
  PROVE  UNCHANGED abstract_vars
  <1>0. Untracked' = Untracked \cup (IF v.deleted_by = None THEN {} ELSE {r})
    BY OtherRows
  <1>1. Untracked' = Untracked /\ active_transaction' = active_transaction
    BY <1>0 DEF WriteStep
  <1>2. \A s, x : x \in CommittedData(s)' <=> x \in CommittedData(s)
    BY <1>1, OtherRows, AbstractMembers, AbstractMembersNext
  <1>3. \A u : SameWrites(u)
    BY <1>1, OtherRows, AbstractMembers, AbstractMembersNext DEF SameWrites
  <1>4. dbBar' = dbBar
    BY <1>2, SameDb
  <1>5. localBar' = localBar
    BY <1>1, <1>3, SameWritesEqual DEF localBar
  <1> QED  BY <1>1, <1>4, <1>5 DEF abstract_vars

\* Overwriting another's mark gives the row up.
LEMMA ClobberRefines ==
  ASSUME MvccInv, NEW t \in active_transaction, NEW r \in RowIds,
         NEW v \in versions, NEW N, WriteStep(t, r, v, N),
         v.deleted_by # None
  PROVE  Abstract!GiveUp(r)
  <1>1. Untracked' = Untracked \cup {r} /\ active_transaction' = active_transaction
    BY OtherRows DEF WriteStep
  <1>2. dbBar' = [dbBar EXCEPT ![r] = {}]
    <2>1. CommittedData(r)' = {}
      <3>1. \A x : x \notin CommittedData(r)'
        BY <1>1, AbstractMembersNext
      <3> QED  BY <3>1
    <2>2. \A s \in RowIds \ {r} : CommittedData(s)' = CommittedData(s)
      <3>1. \A s, x : s # r => (x \in CommittedData(s)' <=> x \in CommittedData(s))
        BY OtherRows
      <3> QED  BY <3>1
    <2> QED  BY <2>1, <2>2 DEF dbBar
  <1>3. ASSUME NEW u \in active_transaction
        PROVE  [s \in WrittenBy(u)' |-> DataBy(u, s)']
                 = [s \in WrittenBy(u) \ {r} |-> DataBy(u, s)]
    <2>1. r \notin WrittenBy(u)'
      BY <1>1, AbstractMembersNext
    <2>2. WrittenBy(u)' = WrittenBy(u) \ {r}
      BY <2>1, OtherRows
    <2>3. \A s, x : s # r => (x \in DataBy(u, s)' <=> x \in DataBy(u, s))
      BY OtherRows
    <2>4. \A s \in WrittenBy(u) \ {r} : DataBy(u, s)' = DataBy(u, s)
      BY <2>3
    <2> QED  BY <2>2, <2>4
  <1>4. localBar' = [u \in DOMAIN localBar |->
                       [s \in DOMAIN localBar[u] \ {r} |-> localBar[u][s]]]
    <2>1. localBar' = [u \in active_transaction |->
                         [s \in WrittenBy(u)' |-> DataBy(u, s)']]
      BY <1>1 DEF localBar
    <2>2. DOMAIN localBar = active_transaction
      BY DEF localBar
    <2>3. \A u \in active_transaction :
             [s \in WrittenBy(u) \ {r} |-> DataBy(u, s)]
               = [s \in DOMAIN localBar[u] \ {r} |-> localBar[u][s]]
      BY DEF localBar
    <2> QED  BY <1>3, <2>1, <2>2, <2>3
  <1> QED  BY <1>1, <1>2, <1>4 DEF Abstract!GiveUp

\* Otherwise it is a write, to a row that nobody else in progress has written.
LEMMA OwnWriteRefines ==
  ASSUME MvccInv, NEW t \in active_transaction, NEW r \in RowIds,
         NEW v \in versions, NEW N, WriteStep(t, r, v, N),
         r \notin Untracked, v.deleted_by = None
  PROVE  Abstract!Write(t, r, {n.data : n \in N})
  <1>0. PICK m : m = [v EXCEPT !.deleted_by = t]
    OBVIOUS
  <1>1. /\ versions' = (versions \ {v}) \cup {m} \cup N
        /\ m.row = r /\ m.created_by = v.created_by /\ m.deleted_by = t
        /\ m.data = v.data /\ v.row = r
        /\ UNCHANGED <<active_transaction, committed>>
    BY <1>0, Facts DEF WriteStep, MarkDeleted, Version
  <1>2. \A n \in N : n.row = r /\ n.created_by = t /\ n.deleted_by = None
    BY DEF WriteStep
  <1>3. Untracked' = Untracked
    BY OtherRows
  <1>4. /\ v.created_by \in committed \cup {t}
        /\ t \notin committed /\ t # None /\ None \notin committed
        /\ t \notin Aborted /\ v.created_by \notin Aborted
    BY Facts, Tracked, VisibleFate DEF WriteStep, Readers, Aborted
  <1>5. dbBar' = dbBar
    <2>1. \A x : x \in CommittedData(r)' <=> x \in CommittedData(r)
      BY <1>1, <1>2, <1>3, <1>4, AbstractMembers, AbstractMembersNext
    <2>2. \A s, x : x \in CommittedData(s)' <=> x \in CommittedData(s)
      BY <2>1, OtherRows
    <2> QED  BY <2>2, SameDb
  <1>6. ASSUME NEW u \in active_transaction \ {t}
        PROVE  SameWrites(u) /\ r \notin WrittenBy(u)
    <2>1. \A w \in versions : w.row = r => ~Touches(w, u)
      BY <1>1, <1>4, NoOtherWriter
    <2>2. \A w \in versions' : w.row = r => ~Touches(w, u)
      <3>1. ~Touches(m, u)
        BY <1>1, <2>1 DEF Touches
      <3>2. \A n \in N : ~Touches(n, u)
        BY <1>2, Facts DEF Touches
      <3> QED  BY <1>1, <2>1, <3>1, <3>2
    <2>3. r \notin WrittenBy(u) /\ r \notin WrittenBy(u)'
      BY <2>1, <2>2, AbstractMembers, AbstractMembersNext
    <2> QED  BY <2>3, OtherRows DEF SameWrites
  <1>7. WrittenBy(t)' = WrittenBy(t) \cup {r}
    <2>1. Touches(m, t) /\ m \in versions'
      BY <1>1 DEF Touches
    <2>2. r \in WrittenBy(t)'
      BY <1>1, <1>3, <2>1, AbstractMembersNext
    <2> QED  BY <2>2, OtherRows
  <1>8. DataBy(t, r)' = {n.data : n \in N}
    <2>1. ASSUME NEW w \in versions', w.row = r, w.created_by = t, w.deleted_by # t
          PROVE  w \in N
      <3> SUFFICES ASSUME w \in versions, w # v PROVE FALSE
        BY <1>1, <2>1
      <3>1. w.deleted_by = None
        BY <2>1 DEF MvccInv, HeadersConsistent
      <3> QED  BY <1>1, <1>4, <2>1, <3>1, OneUnmarked
    <2>2. \A x : x \in DataBy(t, r)' <=> \E n \in N : n.data = x
      BY <1>1, <1>2, <1>4, <2>1, AbstractMembersNext
    <2> QED  BY <2>2
  <1>9. \A s \in WrittenBy(t) \ {r} : DataBy(t, s)' = DataBy(t, s)
    <2> SUFFICES ASSUME NEW s \in WrittenBy(t) \ {r}
                 PROVE  DataBy(t, s)' = DataBy(t, s)
      OBVIOUS
    <2>1. \A x : x \in DataBy(t, s)' <=> x \in DataBy(t, s)
      BY OtherRows
    <2> QED  BY <2>1
  <1>10. Abstract!View(t, r) # {}
    <2>1. Abstract!View(t, r) = IF r \in WrittenBy(t) THEN DataBy(t, r) ELSE CommittedData(r)
      BY DEF Abstract!View, localBar, dbBar
    <2>2. CASE r \in WrittenBy(t)
      <3>1. PICK w \in versions : w.row = r /\ Touches(w, t)
        BY <2>2, AbstractMembers
      <3>2. v.created_by = t
        BY <1>1, <1>4, <3>1, WriterOwnsRow
      <3>3. v.data \in DataBy(t, r)
        BY <1>1, <1>4, <3>2, AbstractMembers
      <3> QED  BY <2>1, <2>2, <3>3
    <2>3. CASE r \notin WrittenBy(t)
      <3>1. ~Touches(v, t)
        BY <1>1, <2>3, AbstractMembers
      <3>2. v.created_by \in committed
        BY <1>4, <3>1 DEF Touches
      <3>3. v.data \in CommittedData(r)
        BY <1>1, <1>4, <3>2, AbstractMembers
      <3> QED  BY <2>1, <2>3, <3>3
    <2> QED  BY <2>2, <2>3
  <1> QED
    BY <1>1, <1>3, <1>5, <1>6, <1>7, <1>8, <1>9, <1>10, WriteFrom

\* Any update or deletion of a row, abstractly.
LEMMA WriteRefines ==
  ASSUME MvccInv, NEW t \in TxnIds, t \in active_transaction, NEW r \in RowIds,
         NEW v \in versions, NEW N, WriteStep(t, r, v, N)
  PROVE  Abstract!Next \/ UNCHANGED abstract_vars
  <1>1. CASE r \in Untracked
    BY <1>1, LostWriteRefines
  <1>2. CASE r \notin Untracked /\ v.deleted_by # None
    BY <1>2, ClobberRefines DEF Abstract!Next
  <1>3. CASE r \notin Untracked /\ v.deleted_by = None
    <2>1. Abstract!Write(t, r, {n.data : n \in N})
      BY <1>3, OwnWriteRefines
    <2>2. {n.data : n \in N} \in {{}} \cup {{d} : d \in Values}
      <3>1. CASE N = {}
        BY <3>1
      <3>2. CASE N # {}
        <4>1. PICK n \in N : TRUE
          BY <3>2
        <4>2. N = {n} /\ n.data \in Values
          BY <4>1 DEF WriteStep
        <4>3. {o.data : o \in N} = {n.data}
          BY <4>2
        <4> QED  BY <4>2, <4>3
      <3> QED  BY <3>1, <3>2
    <2> QED  BY <2>1, <2>2 DEF Abstract!Next
  <1> QED  BY <1>1, <1>2, <1>3

\* Every step of the version chains is a step of the abstract table or none.
LEMMA StepRefines ==
  MvccInv /\ [Next]_vars => [Abstract!Next]_abstract_vars
  <1> SUFFICES ASSUME MvccInv, [Next]_vars
               PROVE  Abstract!Next \/ UNCHANGED abstract_vars
    OBVIOUS
  <1>1. CASE create_transaction
    BY <1>1, BeginRefines
  <1>2. CASE auto_vacuum
    BY <1>2, VacuumRefines
  <1>3. ASSUME NEW t \in TxnIds, commit_transaction(t) PROVE Abstract!Next
    BY <1>3, CommitRefines DEF Abstract!Next
  <1>4. ASSUME NEW t \in TxnIds, rollback_transaction(t) PROVE Abstract!Next
    BY <1>4, RollbackRefines DEF Abstract!Next
  <1>5. ASSUME NEW t \in TxnIds, NEW d \in Values, insert_row(t, d)
        PROVE  Abstract!Next
    BY <1>5, InsertRefines
  <1>6. ASSUME NEW t \in TxnIds, NEW r \in RowIds, delete_row(t, r)
        PROVE  Abstract!Next \/ UNCHANGED abstract_vars
    <2>1. PICK v \in versions : /\ get_versioned_row(v, r, t)
                                /\ versions' = MarkDeleted(v, t)
                                /\ NoteClobber(v)
      BY <1>6 DEF delete_row
    <2>2. WriteStep(t, r, v, {})
      BY <1>6, <2>1
         DEF delete_row, snapshot, WriteStep, get_versioned_row, VisibleVersions
    <2>3. t \in active_transaction
      BY <1>6 DEF delete_row
    <2> QED  BY <2>2, <2>3, WriteRefines
  <1>7. ASSUME NEW t \in TxnIds, NEW r \in RowIds, NEW d \in Values,
               update_row(t, r, d)
        PROVE  Abstract!Next \/ UNCHANGED abstract_vars
    <2>1. PICK v \in versions, p \in 1..MaxVersions :
              /\ get_versioned_row(v, r, t)
              /\ versions' = MarkDeleted(v, t) \cup {NewVersion(r, p, t, d)}
              /\ NoteClobber(v)
      BY <1>7 DEF update_row
    <2>2. WriteStep(t, r, v, {NewVersion(r, p, t, d)})
      BY <1>7, <2>1
         DEF update_row, snapshot, WriteStep, get_versioned_row, VisibleVersions, NewVersion
    <2>3. t \in active_transaction
      BY <1>7 DEF update_row
    <2> QED  BY <2>2, <2>3, WriteRefines
  <1>8. CASE UNCHANGED vars
    BY <1>8 DEF vars, snapshot, abstract_vars, dbBar, localBar, CommittedData,
                WrittenBy, DataBy, Untracked
  <1> QED
    BY <1>1, <1>2, <1>3, <1>4, <1>5, <1>6, <1>7, <1>8 DEF Next

\* Initially nothing is committed and nobody is in progress (database.rs:70-79).
LEMMA InitRefines == Init => Abstract!Init
  <1> SUFFICES ASSUME Init PROVE Abstract!Init
    OBVIOUS
  <1>1. dbBar = [r \in RowIds |-> {}]
    BY DEF Init, dbBar, CommittedData
  <1>2. localBar = [t \in {} |-> dbBar]
    BY DEF Init, localBar
  <1> QED  BY <1>1, <1>2 DEF Init, Abstract!Init, Untracked

\* The version chains implement read committed transactions
\* (database.rs:213-314, row.rs:206-259).
THEOREM ImplementsTable == Spec => ImplementsReadCommitted
  BY InitRefines, StepRefines, Invariance, PTL
     DEF Spec, ImplementsReadCommitted, Abstract!Spec, abstract_vars
=============================================================================
