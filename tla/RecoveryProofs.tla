--------------------------- MODULE RecoveryProofs ---------------------------
(***************************************************************************)
(* Proofs about snapshots, page files and restart, for every number of     *)
(* transactions, rows, versions and dropped tables.  While the server is   *)
(* up its row steps are steps of Mvcc, so CoreInv and PlacesUnique carry   *)
(* over; RecoveryInv relates them to the page file, the snapshot and the   *)
(* second run.                                                             *)
(***************************************************************************)
EXTENDS Recovery, MvccProofs

\* The steps of the running server on rows and transactions, all of Mvcc.
MvccStep == Begin \/ End \/ RowWrite \/ TaskPrunes

LEMMA MvccStepIsNext == MvccStep => Next
  BY DEF MvccStep, Begin, End, RowWrite, TaskPrunes, Next

\* Places of versions, by membership.
LEMMA PlaceMember ==
  ASSUME NEW S, NEW v
  PROVE  /\ Place(v) \in Places(S) <=> \E w \in S : Place(w) = Place(v)
         /\ v \in S => Place(v) \in Places(S)
  BY DEF Places

LEMMA SamePlace ==
  ASSUME NEW v, NEW w, v.row = w.row, v.pos = w.pos, v.created_by = w.created_by
  PROVE  Place(v) = Place(w)
  BY DEF Place

\* Ending a transaction and writing rows keep the places of the versions; what
\* is new was created by a transaction in progress, or too late (row.rs:206-259,
\* pg_wire.rs:1685).
LEMMA PlacesKept ==
  ASSUME CoreInv, End \/ RowWrite
  PROVE  /\ Places(versions) \subseteq Places(versions')
         /\ \A w \in versions' : \/ Place(w) \in Places(versions)
                                 \/ w.created_by \in active_transaction
                                 \/ Late(w)'
  <1>0. versions \subseteq Version /\ active_transaction \subseteq Nat
    BY DEF CoreInv, TypeOK
  <1> DEFINE Goal == /\ Places(versions) \subseteq Places(versions')
                     /\ \A w \in versions' : \/ Place(w) \in Places(versions)
                                             \/ w.created_by \in active_transaction
                                             \/ Late(w)'
  <1>1. ASSUME NEW t \in TxnIds, commit_transaction(t) PROVE Goal
    BY <1>1, PlaceMember DEF commit_transaction
  <1>2. ASSUME NEW t \in TxnIds, rollback_transaction(t) PROVE Goal
    <2>1. versions' = {RolledBack(v, t) : v \in versions} /\ t \in active_transaction
          /\ t \in Nat \ {0}
      BY <1>2 DEF rollback_transaction, TxnIds
    <2>2. ASSUME NEW v \in versions PROVE Place(RolledBack(v, t)) = Place(v)
      <3>1. v \in Version
        BY <1>0
      <3>2. /\ RolledBack(v, t).created_by = v.created_by
            /\ RolledBack(v, t).row = v.row /\ RolledBack(v, t).pos = v.pos
        BY <2>1, <3>1, RolledBackFacts, RolledBackPlaces
      <3> QED  BY <3>2, SamePlace
    <2>3. \A p : p \in Places(versions) => p \in Places(versions')
      BY <2>1, <2>2 DEF Places
    <2>4. \A w \in versions' : Place(w) \in Places(versions)
      BY <2>1, <2>2 DEF Places
    <2> QED  BY <2>3, <2>4
  <1>3. ASSUME NEW t \in active_transaction, NEW v \in versions,
               MarkDeleted(v, t) \subseteq versions',
               \A n \in versions' \ MarkDeleted(v, t) : n.created_by = t
        PROVE  Goal
    <2>1. PICK m : m = [v EXCEPT !.deleted_by = t]
      OBVIOUS
    <2>2. m \in versions' /\ Place(m) = Place(v)
      BY <1>0, <1>3, <2>1, SamePlace DEF MarkDeleted, Version
    <2>3. /\ \A w \in versions : w # v => w \in versions'
          /\ \A w \in versions' : w = m \/ w \in versions \/ w.created_by = t
      BY <1>3, <2>1 DEF MarkDeleted
    <2>4. \A p : p \in Places(versions) => p \in Places(versions')
      BY <2>2, <2>3 DEF Places
    <2>5. \A w \in versions' : Place(w) \in Places(versions) \/ w.created_by = t
      BY <2>2, <2>3, PlaceMember
    <2> QED  BY <2>4, <2>5
  <1>4. ASSUME NEW t \in TxnIds, NEW d \in Values, insert_row(t, d) PROVE Goal
    <2>1. PICK n : n = NewVersion(next_row_id + 1, 1, t, d)
      OBVIOUS
    <2>2. /\ versions' = versions \cup {n} /\ n.created_by = t
          /\ t \in active_transaction \/ Late(n)'
      BY <1>4, <2>1 DEF insert_row, NewVersion, Late
    <2>3. Places(versions) \subseteq Places(versions')
      BY <2>2 DEF Places
    <2>4. \A w \in versions' : \/ Place(w) \in Places(versions)
                              \/ w.created_by \in active_transaction
                              \/ Late(w)'
      BY <2>2, PlaceMember
    <2> QED  BY <2>3, <2>4
  <1>5. ASSUME NEW t \in TxnIds, NEW r \in RowIds, delete_row(t, r) PROVE Goal
    BY <1>3, <1>5 DEF delete_row
  <1>6. ASSUME NEW t \in TxnIds, NEW r \in RowIds, NEW d \in Values, update_row(t, r, d)
        PROVE  Goal
    <2>1. PICK v \in versions, p \in 1..MaxVersions :
              versions' = MarkDeleted(v, t) \cup {NewVersion(r, p, t, d)}
      BY <1>6 DEF update_row
    <2>2. /\ MarkDeleted(v, t) \subseteq versions'
          /\ \A n \in versions' \ MarkDeleted(v, t) : n.created_by = t
      BY <2>1 DEF NewVersion
    <2>3. t \in active_transaction
      BY <1>6 DEF update_row
    <2> HIDE DEF Goal
    <2> QED  BY <1>3, <2>2, <2>3
  <1> HIDE DEF Goal
  <1>7. Goal
    BY <1>1, <1>2, <1>4, <1>5, <1>6 DEF End, RowWrite
  <1> QED  BY <1>7 DEF Goal

\* A version in the same place has the same creator and row.
LEMMA PlaceSays ==
  ASSUME NEW v, NEW w, Place(v) = Place(w)
  PROVE  v.created_by = w.created_by /\ v.row = w.row /\ v.pos = w.pos
  BY DEF Place

\* Nothing counts down while the server runs.
LEMMA StepGrows ==
  ASSUME CoreInv, MvccStep
  PROVE  /\ committed \subseteq committed' /\ Begun \subseteq Begun'
         /\ late \subseteq late'
         /\ next_row_id \in Nat /\ next_row_id' \in Nat /\ next_row_id <= next_row_id'
  <1>0. next_row_id \in Nat /\ next_transaction_id \in Nat
    BY DEF CoreInv, TypeOK
  <1>1. committed \subseteq committed'
    BY DEF MvccStep, Begin, End, RowWrite, TaskPrunes, create_transaction, auto_vacuum,
           commit_transaction, rollback_transaction, insert_row, delete_row, update_row
  <1>2. next_transaction_id' \in {next_transaction_id, next_transaction_id + 1}
    BY DEF MvccStep, Begin, End, RowWrite, TaskPrunes, create_transaction, auto_vacuum,
           commit_transaction, rollback_transaction, insert_row, delete_row, update_row
  <1>3. next_row_id' \in {next_row_id, next_row_id + 1}
    BY DEF MvccStep, Begin, End, RowWrite, TaskPrunes, create_transaction, auto_vacuum,
           commit_transaction, rollback_transaction, insert_row, delete_row, update_row
  <1>4. Begun \subseteq Begun'
    <2>1. CASE next_transaction_id' = next_transaction_id
      BY <2>1 DEF Begun
    <2>2. CASE next_transaction_id' = next_transaction_id + 1
      BY <1>0, <2>2 DEF Begun
    <2> QED  BY <1>2, <2>1, <2>2
  <1>5. next_row_id' \in Nat /\ next_row_id <= next_row_id'
    BY <1>0, <1>3
  <1>6. late \subseteq late'
    BY DEF MvccStep, Begin, End, RowWrite, TaskPrunes, create_transaction, auto_vacuum,
           commit_transaction, rollback_transaction, insert_row, delete_row, update_row
  <1> QED  BY <1>0, <1>1, <1>4, <1>5, <1>6

\* The steps of the running server on rows and transactions.
LEMMA MvccStepKeeps == RecoveryInv /\ MvccStep => RecoveryInv'
  <1> SUFFICES ASSUME RecoveryInv, MvccStep PROVE RecoveryInv'
    OBVIOUS
  <1>1. /\ stage = "up" /\ stage' = "up" /\ present' = present
        /\ page_file' = page_file /\ saved' = saved
        /\ UNCHANGED <<fate, replaced, newer, stale>>
        /\ task' = task \/ task' = "pruned"
    BY DEF MvccStep, Begin, End, RowWrite, TaskPrunes, Unlocked, table, files, history
  <1>2. CoreInv /\ PlacesUnique /\ RecoveryTypeOK
    BY <1>1 DEF RecoveryInv, WhileUp, CoreInv, RecoveryTypeOK
  <1>3. CoreInv' /\ PlacesUnique'
    BY <1>2, MvccStepIsNext, StepInv, StepPlaces
  <1>4. /\ committed \subseteq committed' /\ Begun \subseteq Begun' /\ late \subseteq late'
        /\ next_row_id \in Nat /\ next_row_id' \in Nat /\ next_row_id <= next_row_id'
    BY <1>2, StepGrows
  <1>5. RecoveryTypeOK'
    BY <1>1, <1>2, <1>3 DEF RecoveryTypeOK, CoreInv
  <1>6. WhileUp'
    <2>1. present' \/ (versions' = {} /\ late' = {})
      <3>1. CASE RowWrite
        BY <1>1, <3>1 DEF RowWrite
      <3>2. CASE Begin \/ End \/ TaskPrunes
        BY <1>1, <3>2 DEF RecoveryInv, WhileUp, Begin, End, TaskPrunes, create_transaction,
           commit_transaction, rollback_transaction, auto_vacuum
      <3> QED  BY <3>1, <3>2 DEF MvccStep
    <2>2. \A w \in page_file : w.row \in Nat
      BY <1>2 DEF RecoveryTypeOK, Version
    <2>3. \A w \in page_file : /\ w.created_by \in Begun' /\ w.deleted_by \in Begun' \cup {None}
                               /\ replaced \/ w.row <= next_row_id'
      BY <1>1, <1>4, <2>2 DEF RecoveryInv, WhileUp
    <2>4. fate.committed \subseteq committed'
      BY <1>1, <1>4 DEF RecoveryInv, WhileUp
    <2> QED  BY <1>1, <1>3, <2>1, <2>3, <2>4 DEF WhileUp, CoreInv
  <1>7. WhileSaving'
    <2> SUFFICES ASSUME task' \in {"saving", "last_save"} PROVE WhileSaving'
      BY DEF WhileSaving
    <2>1. RowWrite /\ task' = task
      BY <1>1 DEF MvccStep, Begin, End, TaskPrunes, Unlocked
    <2>2. UNCHANGED <<committed, active_transaction, next_transaction_id>>
      BY <2>1 DEF RowWrite, insert_row, delete_row, update_row, snapshot
    <2>3. Begun' = Begun /\ Aborted' = Aborted
      BY <2>2 DEF Begun, Aborted
    <2>4. active_transaction \cap committed = {}
      BY <1>2 DEF CoreInv, Bookkeeping
    <2>5. /\ Places(versions) \subseteq Places(versions')
          /\ \A w \in versions' : \/ Place(w) \in Places(versions)
                                  \/ w.created_by \in active_transaction
                                  \/ Late(w)'
      BY <1>2, <2>1, PlacesKept
    <2>6. ASSUME NEW w \in versions', w.created_by \in committed, ~Late(w)'
          PROVE  Place(w) \in Places(page_file)
      <3>1. PICK v \in versions : Place(v) = Place(w)
        BY <2>4, <2>5, <2>6, PlaceMember
      <3>2. v.created_by \in committed /\ ~Late(v)
        BY <1>4, <2>6, <3>1, PlaceSays DEF Late
      <3> QED  BY <1>1, <2>1, <3>1, <3>2 DEF RecoveryInv, WhileSaving
    <2>7. stale \/ Places(page_file) \subseteq Places(versions')
      BY <1>1, <2>1, <2>5 DEF RecoveryInv, WhileSaving
    <2>8. ASSUME NEW w \in page_file, ~stale PROVE Late(w)' <=> Late(w)
      <3>1. PICK v \in versions : Place(v) = Place(w)
        BY <1>1, <2>1, <2>8, PlaceMember DEF RecoveryInv, WhileSaving
      <3>2. w.row # next_row_id + 1
        BY <1>2, <1>4, <3>1, PlaceSays DEF PlacesUnique, CoreInv, TypeOK, Version
      <3>3. late' \subseteq late \cup {next_row_id + 1}
        BY <2>1 DEF RowWrite, insert_row, delete_row, update_row
      <3> QED  BY <1>4, <3>2, <3>3 DEF Late
    <2> QED
      BY <1>1, <2>1, <2>2, <2>3, <2>6, <2>7, <2>8 DEF RecoveryInv, WhileSaving, Places, Undone
  <1>8. FileMatchesSnapshot'
    BY <1>1 DEF RecoveryInv, FileMatchesSnapshot, Kept, KeptCreation
  <1>9. SnapshotNotAhead'
    <2> SUFFICES ASSUME saved # {}, NEW w \in versions', w.created_by \in fate.committed,
                        ~Late(w)'
                 PROVE  Place(w) \in Places(page_file)
      BY <1>1 DEF SnapshotNotAhead, Places
    <2>1. w.created_by \notin active_transaction
      BY <1>1, <1>2 DEF RecoveryInv, WhileUp, CoreInv, Bookkeeping
    <2>2. Place(w) \in Places(versions)
      <3>1. CASE Begin \/ TaskPrunes
        BY <3>1, PlaceMember DEF Begin, TaskPrunes, create_transaction, auto_vacuum
      <3>2. CASE End \/ RowWrite
        BY <1>2, <2>1, <3>2, PlacesKept
      <3> QED  BY <3>1, <3>2 DEF MvccStep
    <2>3. PICK v \in versions : Place(v) = Place(w)
      BY <2>2, PlaceMember
    <2>4. v.created_by \in fate.committed /\ ~Late(v)
      BY <1>4, <2>3, PlaceSays DEF Late
    <2> QED  BY <1>1, <2>3, <2>4 DEF RecoveryInv, SnapshotNotAhead
  <1> QED  BY <1>1, <1>5, <1>6, <1>7, <1>8, <1>9 DEF RecoveryInv, WhileRestarted

\* DROP TABLE and CREATE TABLE (database.rs:148-167).
LEMMA TableStepKeeps == RecoveryInv /\ (drop_table \/ create_table) => RecoveryInv'
  <1> SUFFICES ASSUME RecoveryInv, drop_table \/ create_table PROVE RecoveryInv'
    OBVIOUS
  <1>1. /\ stage = "up" /\ stage' = "up" /\ task = "idle" /\ task' = "idle"
        /\ page_file' = page_file /\ saved' = saved
        /\ UNCHANGED <<fate, newer, stale>>
        /\ UNCHANGED <<next_transaction_id, active_transaction, smallest_active,
                       last_possible, committed, clobbered>>
    BY DEF drop_table, create_table, Unlocked, files, history
  <1>2. versions' = {} /\ late' = {} /\ present' \in BOOLEAN
    BY <1>1 DEF drop_table, create_table, RecoveryInv, WhileUp
  <1>3. /\ next_row_id' \in Nat /\ replaced' \in BOOLEAN
        /\ \A w \in page_file : replaced' \/ w.row <= next_row_id'
    <2>1. CASE drop_table
      BY <1>1, <2>1 DEF drop_table, history, RecoveryInv, WhileUp, RecoveryTypeOK, TypeOK
    <2>2. CASE create_table
      BY <2>2 DEF create_table
    <2> QED  BY <2>1, <2>2
  <1>4. RecoveryTypeOK'
    BY <1>1, <1>2, <1>3 DEF RecoveryInv, RecoveryTypeOK, TypeOK
  <1>5. WhileUp'
    BY <1>1, <1>2, <1>3
       DEF RecoveryInv, WhileUp, Bookkeeping, HeadersConsistent, PlacesUnique, Begun
  <1>6. FileMatchesSnapshot'
    BY <1>1 DEF RecoveryInv, FileMatchesSnapshot, Kept, KeptCreation
  <1> QED
    BY <1>1, <1>2, <1>4, <1>5, <1>6
       DEF RecoveryInv, WhileSaving, WhileRestarted, SnapshotNotAhead

\* The steps that only move the background task or the shutdown on.
LEMMA TaskStepKeeps == RecoveryInv /\ (Shutdown \/ FlushFails \/ SaveFails) => RecoveryInv'
  <1> SUFFICES ASSUME RecoveryInv, Shutdown \/ FlushFails \/ SaveFails PROVE RecoveryInv'
    OBVIOUS
  <1>1. stage = "up" /\ UNCHANGED <<vars, table, files, stage, history>>
    BY DEF Shutdown, FlushFails, SaveFails, Unlocked
  <1>2. task' \in {"flushed", "idle", "last_flush", "exit"}
    BY DEF Shutdown, FlushFails, SaveFails, AfterSave
  <1>3. UNCHANGED <<next_transaction_id, active_transaction, smallest_active, last_possible,
                    next_row_id, versions, committed, clobbered, late, present, page_file, saved,
                    stage, fate, replaced, newer, stale>>
    BY <1>1 DEF vars, snapshot, table, files, history
  <1>4. RecoveryTypeOK'
    BY <1>2, <1>3 DEF RecoveryInv, RecoveryTypeOK, TypeOK
  <1>5. WhileUp'
    BY <1>3 DEF RecoveryInv, WhileUp, Bookkeeping, HeadersConsistent, PlacesUnique, Begun,
                Aborted, Undone, Late
  <1>6. FileMatchesSnapshot' /\ SnapshotNotAhead'
    BY <1>3 DEF RecoveryInv, FileMatchesSnapshot, Kept, KeptCreation, SnapshotNotAhead, Late
  <1> QED
    BY <1>1, <1>2, <1>3, <1>4, <1>5, <1>6 DEF RecoveryInv, WhileSaving, WhileRestarted

\* The pages are written (table.rs:622-671).
LEMMA FlushKeeps == RecoveryInv /\ Flush => RecoveryInv'
  <1> SUFFICES ASSUME RecoveryInv, Flush PROVE RecoveryInv'
    OBVIOUS
  <1>1. /\ stage = "up" /\ stage' = "up" /\ saved' = saved /\ fate' = fate
        /\ UNCHANGED <<next_transaction_id, active_transaction, smallest_active,
                       last_possible, next_row_id, versions, committed, clobbered, late, present>>
    BY DEF Flush, vars, snapshot, table
  <1>2. /\ page_file' = IF versions = {} THEN page_file ELSE versions
        /\ newer' = (newer \/ versions # {})
        /\ stale' = (versions = {})
        /\ replaced' = (replaced /\ versions = {})
    BY DEF Flush, flush_all_pages
  <1>3. task' \in {"flushed", "saving", "last_save"}
    BY DEF Flush, AfterFlush
  <1>4. RecoveryTypeOK
    BY DEF RecoveryInv
  <1>5. RecoveryTypeOK'
    BY <1>1, <1>2, <1>3, <1>4 DEF RecoveryTypeOK, TypeOK
  <1>6. \A w \in page_file' : /\ w.created_by \in Begun /\ w.deleted_by \in Begun \cup {None}
                              /\ replaced' \/ w.row <= next_row_id
    <2>1. CASE versions = {}
      BY <1>1, <1>2, <2>1 DEF RecoveryInv, WhileUp
    <2>2. CASE versions # {}
      BY <1>1, <1>2, <2>2 DEF RecoveryInv, WhileUp, HeadersConsistent, PlacesUnique
    <2> QED  BY <2>1, <2>2
  <1>7. WhileUp'
    BY <1>1, <1>6
       DEF RecoveryInv, WhileUp, Bookkeeping, HeadersConsistent, PlacesUnique, Begun, Aborted,
           Undone, Late
  <1>8. WhileSaving'
    <2>1. CASE versions = {}
      BY <1>1, <1>2, <2>1 DEF WhileSaving
    <2>2. CASE versions # {}
      <3>1. page_file' = versions /\ versions' = versions
        BY <1>1, <1>2, <2>2
      <3>2. \A v \in versions : Place(v) \in Places(versions)
        BY PlaceMember
      <3>3. Begun' = Begun /\ Aborted' = Aborted /\ late' = late
        BY <1>1 DEF Begun, Aborted
      <3>4. \A w \in versions : /\ Undone(w) => w.deleted_by = w.created_by
                                /\ w.deleted_by \in Aborted => w.deleted_by = w.created_by
                                /\ Late(w) => w.deleted_by # w.created_by
        BY <1>1 DEF RecoveryInv, WhileUp, HeadersConsistent
      <3> QED  BY <3>1, <3>2, <3>3, <3>4 DEF WhileSaving, Undone, Late
    <2> QED  BY <2>1, <2>2
  <1>9. FileMatchesSnapshot'
    <2>1. CASE versions = {}
      BY <1>1, <1>2, <2>1 DEF RecoveryInv, FileMatchesSnapshot, Kept, KeptCreation
    <2>2. CASE versions # {}
      BY <1>2, <2>2 DEF FileMatchesSnapshot
    <2> QED  BY <2>1, <2>2
  <1>10. SnapshotNotAhead'
    <2>1. CASE versions = {}
      BY <1>1, <2>1 DEF SnapshotNotAhead
    <2>2. CASE versions # {}
      BY <1>1, <1>2, <2>2, PlaceMember DEF SnapshotNotAhead
    <2> QED  BY <2>1, <2>2
  <1> QED  BY <1>1, <1>5, <1>7, <1>8, <1>9, <1>10 DEF RecoveryInv, WhileRestarted

\* The metadata is written (database.rs:128-146).
LEMMA SaveKeeps == RecoveryInv /\ SaveMetadata => RecoveryInv'
  <1> SUFFICES ASSUME RecoveryInv, SaveMetadata PROVE RecoveryInv'
    OBVIOUS
  <1>1. /\ stage = "up" /\ stage' = "up" /\ task \in {"saving", "last_save"}
        /\ task' \in {"idle", "exit"} /\ newer' = FALSE
        /\ UNCHANGED <<page_file, replaced, stale>>
        /\ UNCHANGED <<next_transaction_id, active_transaction, smallest_active,
                       last_possible, next_row_id, versions, committed, clobbered, late, present>>
    BY DEF SaveMetadata, AfterSave, vars, snapshot, table
  <1>2. PICK s : /\ saved' = {s}
                 /\ s = [next_transaction_id |-> next_transaction_id,
                         next_row_id |-> next_row_id, present |-> present]
    BY DEF SaveMetadata
  <1>3. /\ fate'.committed = committed /\ fate'.open = active_transaction
        /\ fate'.places = Places(versions) /\ fate'.replaced = replaced
        /\ fate'.late = Places({v \in versions : Late(v)})
    BY DEF SaveMetadata
  <1>4. s.next_transaction_id = next_transaction_id /\ s.next_row_id = next_row_id
    BY <1>2
  <1>5. RecoveryTypeOK /\ WhileUp /\ WhileSaving
    BY DEF RecoveryInv
  <1>6. RecoveryTypeOK'
    <2>1. s \in [next_transaction_id : Nat \ {0}, next_row_id : Nat, present : BOOLEAN]
      BY <1>2, <1>5 DEF RecoveryTypeOK, TypeOK
    <2> QED  BY <1>1, <1>2, <1>3, <1>5, <2>1 DEF RecoveryTypeOK, TypeOK
  <1>7. WhileUp'
    BY <1>1, <1>3, <1>5
       DEF WhileUp, Bookkeeping, HeadersConsistent, PlacesUnique, Begun, Aborted, Undone, Late
  <1>8. FileMatchesSnapshot'
    <2> SUFFICES ASSUME NEW w \in page_file
                 PROVE  /\ w.created_by < next_transaction_id
                        /\ w.deleted_by < next_transaction_id
                        /\ replaced \/ w.row <= next_row_id
                        /\ stale \/ /\ Place(w) \in Places(versions)
                                    /\ w.deleted_by = None <=>
                                          /\ \/ w.created_by \in committed \cup active_transaction
                                             \/ Place(w) \in fate'.late
                                          /\ w.deleted_by \notin committed \cup active_transaction
      BY <1>1, <1>2, <1>3, <1>4 DEF FileMatchesSnapshot, Kept, KeptCreation, Place
    <2>1. w.created_by \in Begun /\ w.deleted_by \in Begun \cup {None}
          /\ (replaced \/ w.row <= next_row_id)
      BY <1>1, <1>5 DEF WhileUp
    <2>2. w.created_by < next_transaction_id /\ w.deleted_by < next_transaction_id
      BY <1>5, <2>1 DEF RecoveryTypeOK, TypeOK, Begun, None
    <2>3. CASE ~stale
      <3>1. Place(w) \in Places(versions)
        BY <1>1, <1>5, <2>3, PlaceMember DEF WhileSaving
      <3>2. /\ Undone(w) => w.deleted_by = w.created_by
            /\ w.deleted_by \in Aborted => w.deleted_by = w.created_by
            /\ Late(w) => w.deleted_by # w.created_by
        BY <1>1, <1>5, <2>3 DEF WhileSaving
      <3>3. None \notin committed \cup active_transaction /\ None \notin Begun
        BY <1>1, <1>5 DEF WhileUp, Bookkeeping, Begun, None
      <3>4. Place(w) \in fate'.late <=> Late(w)
        <4>1. Place(w) \in fate'.late <=>
                \E v \in {u \in versions : Late(u)} : Place(v) = Place(w)
          BY <1>3, PlaceMember
        <4>2. \A v \in versions : Place(v) = Place(w) => (Late(v) <=> Late(w))
          BY PlaceSays DEF Late
        <4>3. \E v \in versions : Place(v) = Place(w)
          BY <3>1, PlaceMember
        <4> QED  BY <4>1, <4>2, <4>3
      <3> QED  BY <2>1, <2>2, <3>1, <3>2, <3>3, <3>4 DEF Aborted, Undone
    <2> QED  BY <2>1, <2>2, <2>3
  <1>9. SnapshotNotAhead'
    BY <1>1, <1>3, <1>5 DEF SnapshotNotAhead, WhileSaving, Places, Place, Late
  <1> QED  BY <1>1, <1>6, <1>7, <1>8, <1>9 DEF RecoveryInv, WhileSaving, WhileRestarted

\* The process ends; what is in memory is lost.
LEMMA CrashKeeps == RecoveryInv /\ Crash => RecoveryInv'
  <1> SUFFICES ASSUME RecoveryInv, Crash PROVE RecoveryInv'
    OBVIOUS
  <1>1. /\ stage' = "down" /\ versions' = {} /\ task' = "idle" /\ present' = FALSE
        /\ next_transaction_id' = 1 /\ active_transaction' = {} /\ smallest_active' = 0
        /\ last_possible' = 0 /\ committed' = {} /\ clobbered' = {} /\ late' = {} /\ next_row_id' = 0
        /\ UNCHANGED <<page_file, saved, fate, replaced, newer, stale>>
    BY DEF Crash, files, history
  <1>2. RecoveryTypeOK'
    <2>1. TypeOK'
      BY <1>1 DEF TypeOK
    <2>2. RecoveryTypeOK
      BY DEF RecoveryInv
    <2> QED  BY <1>1, <2>1, <2>2 DEF RecoveryTypeOK
  <1>3. FileMatchesSnapshot'
    BY <1>1 DEF RecoveryInv, FileMatchesSnapshot, Kept, KeptCreation
  <1> QED
    BY <1>1, <1>2, <1>3
       DEF RecoveryInv, WhileUp, WhileSaving, WhileRestarted, SnapshotNotAhead

\* load_from_snapshot (database.rs:93-126).
LEMMA RestartKeeps == RecoveryInv /\ Restart => RecoveryInv'
  <1> SUFFICES ASSUME RecoveryInv, Restart PROVE RecoveryInv'
    OBVIOUS
  <1>1. /\ stage' = "restarted" /\ task' = "idle" /\ active_transaction' = {}
        /\ versions' = IF present' THEN page_file ELSE {}
        /\ UNCHANGED <<committed, clobbered, late, page_file, saved, fate, replaced, newer, stale>>
    BY DEF Restart, restore_page_index_from_disk, files, history
  <1>2. PICK s \in saved : /\ next_transaction_id' = s.next_transaction_id
                           /\ last_possible' = s.next_transaction_id - 1
                           /\ smallest_active' = s.next_transaction_id - 1
                           /\ next_row_id' = s.next_row_id
                           /\ present' = s.present
    BY DEF Restart, RestoredId, last_committed
  <1>3. s.next_transaction_id \in Nat \ {0} /\ s.next_row_id \in Nat /\ s.present \in BOOLEAN
    BY DEF RecoveryInv, RecoveryTypeOK
  <1>4. RecoveryTypeOK'
    BY <1>1, <1>2, <1>3 DEF RecoveryInv, RecoveryTypeOK, TypeOK
  <1>5. FileMatchesSnapshot'
    BY <1>1 DEF RecoveryInv, FileMatchesSnapshot, Kept, KeptCreation
  <1>6. WhileRestarted'
    BY <1>1, <1>2, <1>3 DEF WhileRestarted
  <1> QED
    BY <1>1, <1>4, <1>5, <1>6
       DEF RecoveryInv, WhileUp, WhileSaving, SnapshotNotAhead

\* Transactions of the second run.
LEMMA ReaderKeeps == RecoveryInv /\ Reader => RecoveryInv'
  <1> SUFFICES ASSUME RecoveryInv, Reader PROVE RecoveryInv'
    OBVIOUS
  <1>1. /\ stage = "restarted" /\ stage' = "restarted" /\ next_row_id' = next_row_id
        /\ UNCHANGED <<present, page_file, saved, task, fate, replaced, newer, stale>>
        /\ UNCHANGED <<versions, clobbered, late>>
    BY DEF Reader, table, files, history, create_transaction, commit_transaction
  <1>2. RecoveryTypeOK
    BY DEF RecoveryInv
  <1>3. PICK s \in saved : /\ s.next_transaction_id <= next_transaction_id
                           /\ s.next_transaction_id <= last_possible + 1
                           /\ \A a \in active_transaction : s.next_transaction_id <= a
                           /\ next_row_id = s.next_row_id
    BY <1>1 DEF RecoveryInv, WhileRestarted
  <1>4. s.next_transaction_id \in Nat
    BY <1>2 DEF RecoveryTypeOK
  <1>5. /\ TypeOK'
        /\ s.next_transaction_id <= next_transaction_id'
        /\ s.next_transaction_id <= last_possible' + 1
        /\ \A a \in active_transaction' : s.next_transaction_id <= a
    <2>1. CASE create_transaction
      BY <1>2, <1>3, <1>4, <2>1 DEF create_transaction, RecoveryTypeOK, TypeOK
    <2>2. ASSUME NEW t \in TxnIds, commit_transaction(t)
          PROVE  /\ TypeOK'
                 /\ s.next_transaction_id <= next_transaction_id'
                 /\ s.next_transaction_id <= last_possible' + 1
                 /\ \A a \in active_transaction' : s.next_transaction_id <= a
      <3>1. t \in Nat /\ t \in active_transaction /\ s.next_transaction_id <= t
        BY <1>3, <2>2 DEF commit_transaction, TxnIds
      <3>2. smallest_active' \in Nat
        BY <1>2, <2>2, <3>1 DEF commit_transaction, RecoveryTypeOK, TypeOK
      <3> QED
        BY <1>2, <1>3, <1>4, <2>2, <3>1, <3>2 DEF commit_transaction, RecoveryTypeOK, TypeOK
    <2> QED  BY <2>1, <2>2 DEF Reader
  <1>6. RecoveryTypeOK'
    BY <1>1, <1>2, <1>5 DEF RecoveryTypeOK
  <1>7. FileMatchesSnapshot'
    BY <1>1 DEF RecoveryInv, FileMatchesSnapshot, Kept, KeptCreation
  <1>8. WhileRestarted'
    BY <1>1, <1>3, <1>5 DEF RecoveryInv, WhileRestarted
  <1> QED
    BY <1>1, <1>6, <1>7, <1>8
       DEF RecoveryInv, WhileUp, WhileSaving, SnapshotNotAhead

\* The invariant holds throughout (handler.rs:50-65, database.rs:93-146).
THEOREM RecoveryInvariance == RSpec => []RecoveryInv
  <1>1. RInit => RecoveryInv
    <2> SUFFICES ASSUME RInit PROVE RecoveryInv
      OBVIOUS
    <2>1. CoreInv /\ PlacesUnique
      BY InitInv DEF RInit, Init, PlacesUnique
    <2> QED
      BY <2>1 DEF RInit, Init, CoreInv, RecoveryInv, RecoveryTypeOK, WhileUp, WhileSaving,
         FileMatchesSnapshot, WhileRestarted, SnapshotNotAhead
  <1>2. RecoveryInv /\ [RNext]_rvars => RecoveryInv'
    <2> SUFFICES ASSUME RecoveryInv, [RNext]_rvars PROVE RecoveryInv'
      OBVIOUS
    <2>1. CASE RNext
      BY <2>1, MvccStepKeeps, TableStepKeeps, TaskStepKeeps, FlushKeeps, SaveKeeps, CrashKeeps,
         RestartKeeps, ReaderKeeps DEF RNext, MvccStep
    <2>2. CASE UNCHANGED rvars
      <3>1. UNCHANGED <<next_transaction_id, active_transaction, smallest_active,
                        last_possible, next_row_id, versions, committed, clobbered, late, present,
                        page_file, saved, stage, task, fate, replaced, newer, stale>>
        BY <2>2 DEF rvars, vars, snapshot, table, files, history
      <3>2. RecoveryTypeOK'
        BY <3>1 DEF RecoveryInv, RecoveryTypeOK, TypeOK
      <3>3. WhileUp'
        BY <3>1 DEF RecoveryInv, WhileUp, Bookkeeping, HeadersConsistent, PlacesUnique, Begun,
                    Aborted, Undone, Late
      <3>4. WhileSaving'
        BY <3>1 DEF RecoveryInv, WhileSaving, Begun, Aborted, Undone, Late
      <3>5. FileMatchesSnapshot' /\ SnapshotNotAhead'
        BY <3>1 DEF RecoveryInv, FileMatchesSnapshot, Kept, KeptCreation, SnapshotNotAhead, Late
      <3>6. WhileRestarted'
        BY <3>1 DEF RecoveryInv, WhileRestarted
      <3> QED  BY <3>1, <3>2, <3>3, <3>4, <3>5, <3>6 DEF RecoveryInv
    <2> QED  BY <2>1, <2>2
  <1> QED  BY <1>1, <1>2, PTL DEF RSpec

\* The snapshot is never ahead of the page file, COPY data that came after its
\* transaction had ended excepted (table.rs:76, pg_wire.rs:1685).
THEOREM PagesBeforeSnapshot == RSpec => []SnapshotNotAhead
  <1>1. RecoveryInv => SnapshotNotAhead
    BY DEF RecoveryInv
  <1> QED  BY <1>1, RecoveryInvariance, PTL

\* What a restart recovers is what the save saw as committed or in progress, and
\* COPY data that came too late (database.rs:115-123, pg_wire.rs:1685).
THEOREM RestartIsExact == RSpec => []RestartCommitsOpen
  <1>1. RecoveryInv => RestartCommitsOpen
    <2> SUFFICES ASSUME RecoveryInv, stage = "restarted", ~newer, ~stale,
                        NEW v \in versions, NEW t \in Readers
                 PROVE  is_visible(v, t)
                          <=> KeptCreation(v) /\ v.deleted_by \notin Kept
      BY DEF RestartCommitsOpen
    <2>1. PICK s \in saved : /\ s.next_transaction_id <= next_transaction_id
                             /\ s.next_transaction_id <= last_possible + 1
                             /\ \A a \in active_transaction : s.next_transaction_id <= a
      BY DEF RecoveryInv, WhileRestarted
    <2>2. v \in page_file
      BY DEF RecoveryInv, WhileRestarted
    <2>3. /\ v.created_by < s.next_transaction_id /\ v.deleted_by < s.next_transaction_id
          /\ v.deleted_by = None <=> KeptCreation(v) /\ v.deleted_by \notin Kept
      BY <2>1, <2>2 DEF RecoveryInv, FileMatchesSnapshot
    <2>4. /\ v.created_by \in Nat /\ v.deleted_by \in Nat /\ s.next_transaction_id \in Nat
          /\ last_possible \in Nat /\ active_transaction \subseteq Nat
          /\ next_transaction_id \in Nat
      BY <2>1, <2>2 DEF RecoveryInv, RecoveryTypeOK, TypeOK, Version
    <2>5. t \in Nat /\ s.next_transaction_id <= t
      BY <2>1, <2>4 DEF Readers
    <2>6. /\ v.created_by # t /\ v.deleted_by # t /\ v.created_by <= last_possible
          /\ v.created_by \notin active_transaction /\ v.deleted_by \notin active_transaction
          /\ ~(v.deleted_by > last_possible)
      BY <2>1, <2>3, <2>4, <2>5
    <2>7. is_visible(v, t) <=> v.deleted_by = None
      BY <2>6 DEF is_visible
    <2> QED  BY <2>3, <2>7
  <1> QED  BY <1>1, RecoveryInvariance, PTL

\* A restart hands out no id that is taken (database.rs:111-123).
THEOREM RestartIdsFresh == RSpec => []IdsNotReused
  <1>1. RecoveryInv => IdsNotReused
    <2> SUFFICES ASSUME RecoveryInv, stage = "restarted", ~newer, NEW v \in versions
                 PROVE  /\ fate.replaced \/ v.row <= next_row_id
                        /\ {v.created_by, v.deleted_by} \cap active_transaction = {}
      BY DEF IdsNotReused
    <2>1. PICK s \in saved : /\ next_row_id = s.next_row_id
                             /\ \A a \in active_transaction : s.next_transaction_id <= a
      BY DEF RecoveryInv, WhileRestarted
    <2>2. v \in page_file
      BY DEF RecoveryInv, WhileRestarted
    <2>3. /\ v.created_by < s.next_transaction_id /\ v.deleted_by < s.next_transaction_id
          /\ fate.replaced \/ v.row <= s.next_row_id
      BY <2>1, <2>2 DEF RecoveryInv, FileMatchesSnapshot
    <2>4. /\ v.created_by \in Nat /\ v.deleted_by \in Nat /\ s.next_transaction_id \in Nat
          /\ active_transaction \subseteq Nat
      BY <2>1, <2>2 DEF RecoveryInv, RecoveryTypeOK, TypeOK, Version
    <2>5. v.created_by \notin active_transaction /\ v.deleted_by \notin active_transaction
      BY <2>1, <2>3, <2>4
    <2> QED  BY <2>1, <2>3, <2>5
  <1> QED  BY <1>1, RecoveryInvariance, PTL

\* Rows do not come back (table.rs:637-647, 1906-1909).
THEOREM NothingComesBack == RSpec => []NothingResurrected
  <1>1. RecoveryInv => NothingResurrected
    BY DEF RecoveryInv, WhileRestarted, FileMatchesSnapshot, NothingResurrected, Places
  <1> QED  BY <1>1, RecoveryInvariance, PTL
=============================================================================
