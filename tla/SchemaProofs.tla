---------------------------- MODULE SchemaProofs ----------------------------
(***************************************************************************)
(* Proofs about Schema: what transactions see of the tables is what CREATE *)
(* TABLE declared, foreign keys keep their targets, and indexes go with    *)
(* constraints, for any names, tables and transactions.                    *)
(***************************************************************************)
EXTENDS Schema, MvccProofs

\* The number of a column tells the table and the column.
LEMMA ChainParts ==
  ASSUME NEW id \in Nat, NEW c \in Columns
  PROVE  /\ Chain(id, c) \in Nat /\ TableOf(Chain(id, c)) = id
         /\ \A j \in Nat, e \in Columns : Chain(j, e) = Chain(id, c) => j = id /\ e = c
  BY DEF Chain, TableOf, Columns

\* The part of the invariant that is Mvcc's own.
LEMMA CoreOfSchema == SchemaInv => CoreInv
  BY DEF SchemaInv, SchemaTypeOK, CoreInv

\* Columns are declared in transactions in progress only, so nothing is late.
LEMMA NothingLate ==
  ASSUME SchemaInv
  PROVE  /\ late = {}
         /\ \A v : ~Late(v) /\ (Undone(v) <=> v.created_by \in Aborted)
         /\ \A v, t : Intended(v, t) <=> /\ v.created_by \in committed \cup {t}
                                         /\ v.deleted_by \notin committed \cup {t}
  BY DEF SchemaInv, TablesKnown, Late, Undone, Intended

\* The parts of the invariant that look at the tables and not at the marks.
Shape ==
    /\ SchemaTypeOK /\ Bookkeeping /\ HeadersConsistent
    /\ TablesKnown /\ ColumnsDeclared /\ ReferencesFollowed
    /\ IndexesFollowConstraints

\* A step that neither creates nor drops tables keeps the shape, if every
\* version comes from one of the same column with the same creator and data.
LEMMA Frame ==
  ASSUME SchemaInv, CoreInv',
         \A w \in versions' : \E v \in versions :
            w.row = v.row /\ w.created_by = v.created_by /\ w.data = v.data,
         committed \subseteq committed', Begun \subseteq Begun',
         tables' = tables, next_table_id' = next_table_id, born' = born, late' = late,
         pending' \in [TxnIds -> SUBSET Nat],
         dropped \subseteq dropped',
         \A d \in dropped' : \/ d \in dropped
                             \/ /\ d.column \in Nat /\ d.by \in Begun
                                /\ TableOf(d.column) \in Registered,
         \A r \in clobbered' : r \in clobbered \/ \E d \in dropped' : d.column = r,
         \A r \in index_names' : \E c \in Columns, id \in Registered : r = Chain(id, c)
  PROVE  Shape'
  <1>1. Registered' = Registered
    BY DEF Registered
  <1>2. SchemaTypeOK'
    BY DEF SchemaInv, SchemaTypeOK, CoreInv
  <1>3. TablesKnown'
    <2>1. TablesKnown
      BY DEF SchemaInv
    <2>2. \A v \in versions' : TableOf(v.row) \in Registered'
      BY <1>1, <2>1 DEF TablesKnown
    <2>3. \A d \in dropped' : TableOf(d.column) \in Registered'
      BY <1>1, <2>1 DEF TablesKnown
    <2>4. \A r \in clobbered' : \E d \in dropped' : d.column = r
      BY <2>1 DEF TablesKnown
    <2> QED  BY <1>1, <2>1, <2>2, <2>3, <2>4 DEF TablesKnown
  <1>4. ColumnsDeclared'
    <2>1. ColumnsDeclared
      BY DEF SchemaInv
    <2> QED  BY <1>1, <2>1 DEF ColumnsDeclared
  <1>5. ReferencesFollowed'
    <2>1. ReferencesFollowed
      BY DEF SchemaInv
    <2> SUFFICES ASSUME NEW w \in versions', NEW k \in w.data.refers
                 PROVE  /\ k.table \in 0..(next_table_id - 1)
                        /\ k.table \in Registered =>
                              /\ k.name \in DOMAIN tables /\ tables[k.name] = k.table
                              /\ KeyColumn \in born[k.table].columns
                              /\ born[k.table].creator \in committed' \cup {w.created_by}
      BY <1>1 DEF ReferencesFollowed
    <2>2. PICK v \in versions : w.created_by = v.created_by /\ w.data = v.data
      OBVIOUS
    <2> QED  BY <2>1, <2>2 DEF ReferencesFollowed
  <1>6. IndexesFollowConstraints'
    <2>1. IndexesFollowConstraints
      BY DEF SchemaInv
    <2> QED  BY <1>1, <2>1 DEF IndexesFollowConstraints
  <1> QED  BY <1>2, <1>3, <1>4, <1>5, <1>6 DEF Shape, CoreInv

\* A step that leaves versions, marks and fates alone keeps all of it.
LEMMA StillFollowed ==
  ASSUME ColumnsFollowed, versions' = versions, dropped' = dropped,
         clobbered' = clobbered, tables' = tables, born' = born,
         UNCHANGED <<next_transaction_id, active_transaction, committed>>
  PROVE  ColumnsFollowed'
  BY DEF ColumnsFollowed, Followed, OfColumn, Droppers, Registered, Aborted, Begun

\* Every transaction begun has one fate, and marks name transactions begun.
LEMMA Fates ==
  ASSUME SchemaInv
  PROVE  /\ active_transaction \subseteq Begun /\ committed \subseteq Begun
         /\ None \notin Begun /\ Aborted \subseteq Begun
         /\ active_transaction \cap Aborted = {} /\ committed \cap Aborted = {}
         /\ next_transaction_id \notin Begun
         /\ \A d \in dropped : d.by \in Begun
         /\ \A id \in Registered : born[id].creator \in Begun
  BY DEF SchemaInv, SchemaTypeOK, TypeOK, Bookkeeping, Begun, Aborted, None, TablesKnown

\* Beginning, ending and vacuuming (database.rs:213-314).
LEMMA TransactionsKeep ==
  ASSUME SchemaInv, Transactions
  PROVE  SchemaInv'
  <1>1. /\ UNCHANGED <<tables, next_table_id, index_names, pending, born, dropped>>
        /\ \/ create_transaction
           \/ auto_vacuum
           \/ \E t \in TxnIds : commit_transaction(t)
           \/ \E t \in TxnIds : rollback_transaction(t)
    BY DEF Transactions, schema
  <1>2. CoreInv /\ CoreInv'
    BY <1>1, CoreOfSchema, TransactionsKeepCore
  <1>3. /\ versions \subseteq Version /\ active_transaction \subseteq Nat \ {0}
        /\ next_transaction_id \in Nat /\ smallest_active \in Nat
        /\ \A a \in active_transaction : smallest_active <= a
        /\ \A v \in versions : v.created_by \in Begun /\ v.deleted_by \in Begun \cup {None}
    BY <1>2 DEF CoreInv, TypeOK, Bookkeeping, HeadersConsistent, Begun
  <1>4. Shape'
    <2> DEFINE Same == /\ \A w \in versions' : \E v \in versions :
                             /\ w.row = v.row /\ w.created_by = v.created_by
                             /\ w.data = v.data
                       /\ committed \subseteq committed' /\ Begun \subseteq Begun'
                       /\ clobbered' = clobbered /\ late' = late
    <2>1. Same
      <3>1. CASE create_transaction
        BY <1>3, <3>1 DEF create_transaction, Begun
      <3>2. CASE auto_vacuum
        BY <3>2 DEF auto_vacuum, snapshot, Begun
      <3>3. ASSUME NEW t \in TxnIds, commit_transaction(t) PROVE Same
        BY <3>3 DEF commit_transaction, Begun
      <3>4. ASSUME NEW t \in TxnIds, rollback_transaction(t) PROVE Same
        BY <1>3, <3>4 DEF rollback_transaction, Begun, RolledBack, Version
      <3> QED  BY <1>1, <3>1, <3>2, <3>3, <3>4
    <2>2. /\ pending \in [TxnIds -> SUBSET Nat]
          /\ \A r \in index_names : \E c \in Columns, id \in Registered : r = Chain(id, c)
      BY DEF SchemaInv, SchemaTypeOK, IndexesFollowConstraints
    <2> QED  BY <1>1, <1>2, <2>1, <2>2, Frame
  <1>5. ColumnsFollowed'
    <2>1. ColumnsFollowed /\ Registered' = Registered
      BY <1>1 DEF SchemaInv, Registered
    <2>2. CASE create_transaction
      <3>1. /\ versions' = versions /\ clobbered' = clobbered /\ committed' = committed
            /\ active_transaction' = active_transaction \cup {next_transaction_id}
            /\ \A b \in Begun : b \in Aborted' <=> b \in Aborted
        BY <1>3, <2>2 DEF create_transaction, Aborted, Begun
      <3>2. /\ \A r : Droppers(r)' = Droppers(r) /\ OfColumn(r)' = OfColumn(r)
            /\ \A r, x : x \in Droppers(r) => x \in Begun
        BY <1>1, <3>1, Fates DEF Droppers, OfColumn
      <3> QED  BY <1>1, <2>1, <3>1, <3>2, Fates DEF ColumnsFollowed, Followed
    <2>3. CASE auto_vacuum
      <3>1. /\ clobbered' = clobbered /\ committed' = committed
            /\ active_transaction' = active_transaction
            /\ versions' = {v \in versions : Survives(v, smallest_active)}
            /\ Aborted' = Aborted
        BY <2>3 DEF auto_vacuum, snapshot, Aborted, Begun
      <3>2. \A r : /\ Droppers(r)' = Droppers(r) /\ OfColumn(r)' \subseteq OfColumn(r)
                   /\ \A v \in OfColumn(r) :
                         v.deleted_by \in active_transaction \cup {None} => v \in OfColumn(r)'
        BY <1>1, <1>3, <3>1 DEF Droppers, OfColumn, Survives
      <3> QED  BY <1>1, <2>1, <3>1, <3>2 DEF ColumnsFollowed, Followed
    <2>4. ASSUME NEW t \in TxnIds, commit_transaction(t) PROVE ColumnsFollowed'
      <3>1. /\ versions' = versions /\ clobbered' = clobbered
            /\ active_transaction' = active_transaction \ {t}
            /\ Aborted' = Aborted
        BY <2>4, <1>2 DEF commit_transaction, Aborted, Begun, CoreInv, Bookkeeping
      <3>2. \A r : Droppers(r)' = Droppers(r) /\ OfColumn(r)' = OfColumn(r)
        BY <1>1, <3>1 DEF Droppers, OfColumn
      <3> QED  BY <1>1, <2>1, <3>1, <3>2 DEF ColumnsFollowed, Followed
    <2>5. ASSUME NEW t \in TxnIds, rollback_transaction(t) PROVE ColumnsFollowed'
      <3>1. /\ versions' = {RolledBack(v, t) : v \in versions}
            /\ clobbered' = clobbered /\ committed' = committed
            /\ t \in active_transaction /\ active_transaction' = active_transaction \ {t}
            /\ Aborted' = Aborted \cup {t}
        BY <2>5, <1>2 DEF rollback_transaction, Aborted, Begun, CoreInv, Bookkeeping
      <3> SUFFICES ASSUME NEW id \in Registered, NEW c \in born[id].columns,
                          Chain(id, c) \notin clobbered, born[id].creator \notin Aborted \cup {t}
                   PROVE  Followed(Chain(id, c), born[id].creator)'
        BY <1>1, <2>1, <3>1 DEF ColumnsFollowed
      <3> DEFINE r == Chain(id, c)
                 k == born[id].creator
      <3>2. Followed(r, k)
        BY <2>1 DEF ColumnsFollowed
      <3>3. \A v \in OfColumn(r) :
              /\ RolledBack(v, t) \in OfColumn(r)'
              /\ v.deleted_by = t => RolledBack(v, t).deleted_by = None
              /\ v.deleted_by # t => RolledBack(v, t) = v
        <4> SUFFICES ASSUME NEW v \in OfColumn(r)
                     PROVE  /\ RolledBack(v, t) \in OfColumn(r)'
                            /\ v.deleted_by = t => RolledBack(v, t).deleted_by = None
                            /\ v.deleted_by # t => RolledBack(v, t) = v
          OBVIOUS
        <4>1. v \in Version /\ v \in versions /\ v.row = r /\ t \in Nat \ {0} /\ t # k
          BY <1>3, <3>1 DEF OfColumn
        <4>2. v.created_by = k
          BY <4>1 DEF SchemaInv, SchemaTypeOK, TablesKnown, ColumnsDeclared
        <4> QED  BY <1>1, <3>1, <4>1, <4>2, RolledBackFacts, RolledBackPlaces DEF OfColumn
      <3>4. \A w \in OfColumn(r)' : \E v \in OfColumn(r) : w = RolledBack(v, t)
        BY <1>1, <1>3, <3>1, RolledBackPlaces DEF OfColumn
      <3>5. Droppers(r)' = Droppers(r) \ {t}
        BY <1>1, <3>1 DEF Droppers
      <3>6. t \notin Aborted /\ t # None /\ t # k
        BY <3>1, Fates
      <3>7. \A v, w \in OfColumn(r)' : v = w \/ v.deleted_by = k \/ w.deleted_by = k
        BY <3>2, <3>3, <3>4, <3>6 DEF Followed
      <3>8. Droppers(r)' = {} => \E v \in OfColumn(r)' : v.deleted_by = None
        <4>1. CASE Droppers(r) = {}
          BY <3>2, <3>3, <3>6, <4>1 DEF Followed
        <4>2. CASE t \in Droppers(r)
          BY <3>1, <3>2, <3>3, <4>2 DEF Followed
        <4> QED  BY <3>5, <4>1, <4>2
      <3>9. ASSUME NEW x \in Droppers(r)'
            PROVE  /\ \A v \in OfColumn(r)' : v.deleted_by \in {k, x}
                   /\ x \in active_transaction' => \E v \in OfColumn(r)' : v.deleted_by = x
        <4>1. x \in Droppers(r) /\ x # t
          BY <3>5, <3>9
        <4>2. \A v \in OfColumn(r) : v.deleted_by \in {k, x} /\ v.deleted_by # t
          BY <3>2, <3>6, <4>1 DEF Followed
        <4> QED  BY <3>1, <3>2, <3>3, <3>4, <4>1, <4>2 DEF Followed
      <3> QED  BY <1>1, <3>7, <3>8, <3>9 DEF Followed
    <2> QED  BY <1>1, <2>2, <2>3, <2>4, <2>5
  <1> QED
    <2>1. Shape' /\ ColumnsFollowed'
      BY <1>4, <1>5
    <2> QED  BY <2>1 DEF Shape, SchemaInv

\* A statement that looks a table up, fails or names an index (pg_wire.rs:
\* 806-838, table.rs:879-915): no column changes.
LEMMA LightStepKeeps ==
  ASSUME SchemaInv,
         UNCHANGED <<vars, tables, next_table_id, born, dropped>>,
         pending' \in [TxnIds -> SUBSET Nat],
         \A r \in index_names' : \E c \in Columns, id \in Registered : r = Chain(id, c)
  PROVE  SchemaInv'
  <1>1. UNCHANGED <<next_transaction_id, active_transaction, last_possible,
                    smallest_active, next_row_id, versions, committed, clobbered, late>>
    BY DEF vars, snapshot
  <1>2. CoreInv'
    <2>1. TypeOK' /\ Bookkeeping'
      BY <1>1, CoreOfSchema DEF CoreInv, TypeOK, Bookkeeping, Begun
    <2>2. HeadersConsistent'
      BY <1>1, CoreOfSchema
         DEF CoreInv, HeadersConsistent, Begun, Aborted, Undone, Late
    <2> QED  BY <2>1, <2>2 DEF CoreInv
  <1>3. Shape'
    BY <1>1, <1>2, Frame DEF Begun
  <1>4. ColumnsFollowed'
    BY <1>1, StillFollowed DEF SchemaInv
  <1> QED
    BY <1>3, <1>4 DEF Shape, SchemaInv

\* ALTER TABLE DROP COLUMN (table.rs:430-452, column.rs:363-380).
LEMMA DropColumnKeeps ==
  ASSUME SchemaInv, NEW t \in TxnIds, NEW c \in Columns, drop_column(t, c)
  PROVE  SchemaInv'
  <1>1. /\ t \in active_transaction
        /\ UNCHANGED <<next_transaction_id, active_transaction, last_possible,
                       smallest_active, next_row_id, committed, late,
                       tables, next_table_id, index_names, born>>
        /\ pending' = [pending EXCEPT ![t] = {}]
    BY DEF drop_column, snapshot
  <1>2. /\ pending' \in [TxnIds -> SUBSET Nat]
        /\ \A r \in index_names : \E e \in Columns, id \in Registered : r = Chain(id, e)
        /\ pending[t] \subseteq Nat
    BY <1>1 DEF SchemaInv, SchemaTypeOK, IndexesFollowConstraints
  <1>3. PICK id \in pending[t] :
          \/ UNCHANGED <<versions, clobbered, dropped>>
          \/ \E v \in versions :
                /\ get_versioned_row(v, Chain(id, c), t)
                /\ versions' = remove(v, t)
                /\ NoteClobber(v)
                /\ dropped' = dropped \cup {[column |-> Chain(id, c), by |-> t]}
    BY DEF drop_column
  <1>4. CASE UNCHANGED <<versions, clobbered, dropped>>
    BY <1>1, <1>2, <1>4, LightStepKeeps DEF vars, snapshot
  <1>5. ASSUME NEW v \in versions,
               get_versioned_row(v, Chain(id, c), t),
               versions' = MarkDeleted(v, t),
               NoteClobber(v),
               dropped' = dropped \cup {[column |-> Chain(id, c), by |-> t]}
        PROVE  SchemaInv'
    <2> DEFINE r == Chain(id, c)
               m == [v EXCEPT !.deleted_by = t]
    <2>1. CoreInv /\ CoreInv'
      <3>1. delete_row(t, r)
        BY <1>1, <1>5 DEF delete_row, snapshot
      <3> QED  BY <3>1, CoreOfSchema, DeleteKeepsCore
    <2>2. /\ v.row = r /\ v \in Version /\ versions \subseteq Version
          /\ t \in Begun /\ t \in Nat /\ t \notin Aborted /\ t # None
          /\ Begun' = Begun /\ Aborted' = Aborted
      BY <1>1, <1>5, <2>1, Fates
         DEF get_versioned_row, VisibleVersions, CoreInv, TypeOK, Begun, Aborted
    <2>0. \E d \in dropped' : d.column = r /\ d.by = t /\ dropped' = dropped \cup {d}
      <3> DEFINE d == [column |-> r, by |-> t]
      <3>1. d.column = r /\ d.by = t /\ dropped' = dropped \cup {d}
        BY <1>5
      <3> QED  BY <3>1
    <2>3. r \in Nat /\ TableOf(r) = id /\ id \in Registered
      BY <1>2, <2>2, ChainParts DEF SchemaInv, TablesKnown
    <2>4. Shape'
      <3>1. \A w \in versions' : \E u \in versions :
               w.row = u.row /\ w.created_by = u.created_by /\ w.data = u.data
        BY <1>5, <2>2 DEF MarkDeleted, Version
      <3>2. \A d \in dropped' : \/ d \in dropped
                                \/ /\ d.column \in Nat /\ d.by \in Begun
                                   /\ TableOf(d.column) \in Registered
        BY <1>5, <2>2, <2>3
      <3>3. \A q \in clobbered' : q \in clobbered \/ \E d \in dropped' : d.column = q
        BY <1>5, <2>0, <2>2 DEF NoteClobber
      <3> QED  BY <1>1, <1>2, <1>5, <2>1, <2>2, <3>1, <3>2, <3>3, Frame
    <2>5. ColumnsFollowed'
      <3>1. /\ ColumnsFollowed /\ Registered' = Registered
            /\ clobbered \subseteq clobbered'
        BY <1>1, <1>5 DEF SchemaInv, Registered, NoteClobber
      <3> SUFFICES ASSUME NEW i \in Registered, NEW e \in born[i].columns,
                          Chain(i, e) \notin clobbered', born[i].creator \notin Aborted
                   PROVE  Followed(Chain(i, e), born[i].creator)'
        BY <1>1, <2>2, <3>1 DEF ColumnsFollowed
      <3> DEFINE q == Chain(i, e)
                 k == born[i].creator
      <3>2. Followed(q, k) /\ k \in Begun
        BY <3>1, Fates DEF ColumnsFollowed
      <3>3. CASE q # r
        <4>1. OfColumn(q)' = OfColumn(q)
          BY <1>1, <1>5, <2>2, <3>3 DEF OfColumn, MarkDeleted, Version
        <4>2. Droppers(q)' = Droppers(q)
          BY <1>1, <1>5, <2>2, <3>3 DEF Droppers
        <4> QED  BY <1>1, <3>2, <4>1, <4>2 DEF Followed
      <3>4. CASE q = r
        <4>1. v.deleted_by = None /\ None \notin Begun /\ k # None
          BY <1>5, <2>2, <3>2, <3>4, Fates DEF NoteClobber
        <4>2. Droppers(r) = {}
          <5> SUFFICES ASSUME NEW x \in Droppers(r) PROVE FALSE
            OBVIOUS
          <5>1. x \in Begun /\ v.deleted_by \in {k, x}
            BY <2>2, <3>2, <3>4, Fates DEF Followed, Droppers, OfColumn
          <5> QED  BY <3>2, <4>1, <5>1
        <4>3. Droppers(r)' = {t}
          <5>1. PICK d \in dropped' : /\ d.column = r /\ d.by = t
                                      /\ dropped' = dropped \cup {d}
            BY <2>0
          <5>2. \A f \in dropped : f.column = r => f.by \in Aborted
            BY <4>2 DEF Droppers
          <5> QED  BY <2>2, <5>1, <5>2 DEF Droppers
        <4>4. \A w \in OfColumn(r) : w = v \/ w.deleted_by = k
          BY <2>2, <3>2, <3>4, <4>1 DEF Followed, OfColumn
        <4>5. /\ m \in OfColumn(r)' /\ m.deleted_by = t
              /\ \A w \in OfColumn(r)' : w = m \/ w.deleted_by = k
          BY <1>1, <1>5, <2>2, <4>4 DEF OfColumn, MarkDeleted, Version
        <4> HIDE DEF r, m, q, k
        <4>6. Followed(r, k)'
          <5>1. k' = k /\ r' = r
            BY <1>1 DEF k, r
          <5> QED  BY <4>3, <4>5, <5>1 DEF Followed
        <4> QED  BY <3>4, <4>6 DEF q, k
      <3> QED  BY <3>3, <3>4
    <2> QED  BY <2>4, <2>5 DEF Shape, SchemaInv
  <1> QED  BY <1>3, <1>4, <1>5 DEF remove

\* DROP INDEX (table.rs:917-950, column.rs:520-535): an index that goes with a
\* constraint is refused, and there is no other.
LEMMA DropIndexKeeps ==
  ASSUME SchemaInv, NEW t \in TxnIds, NEW r \in index_names, drop_column_index(t, r)
  PROVE  SchemaInv'
  <1>1. PICK v \in versions :
          /\ versions' = IF Droppable(v)
                         THEN (versions \ {v}) \cup {[v EXCEPT !.data.indexed = FALSE]}
                         ELSE versions
          /\ index_names' = IF Droppable(v) THEN index_names \ {r} ELSE index_names
    BY DEF drop_column_index
  <1>2. ~Droppable(v)
    BY DEF SchemaInv, IndexesFollowConstraints, Droppable
  <1>3. UNCHANGED <<vars, tables, next_table_id, pending, born, dropped, index_names>>
    BY <1>1, <1>2 DEF drop_column_index, vars
  <1> QED
    BY <1>3, LightStepKeeps DEF SchemaInv, SchemaTypeOK, IndexesFollowConstraints

\* DROP TABLE (database.rs:165-175): nothing is left of the table.
LEMMA DropTableKeeps ==
  ASSUME SchemaInv, NEW n \in Names, drop_table(n)
  PROVE  SchemaInv'
  <1> DEFINE gone == tables[n]
  <1>1. /\ n \in DOMAIN tables
        /\ tables' = [m \in DOMAIN tables \ {n} |-> tables[m]]
        /\ versions' = {v \in versions : TableOf(v.row) # gone}
        /\ index_names' = {r \in index_names : TableOf(r) # gone}
        /\ born' = [id \in DOMAIN born \ {gone} |-> born[id]]
        /\ dropped' = {d \in dropped : TableOf(d.column) # gone}
        /\ clobbered' = {r \in clobbered : TableOf(r) # gone}
        /\ UNCHANGED <<next_transaction_id, active_transaction, last_possible,
                       smallest_active, next_row_id, committed, late, next_table_id, pending>>
    BY DEF drop_table, snapshot
  <1>2. /\ SchemaTypeOK /\ Bookkeeping /\ HeadersConsistent /\ TablesKnown /\ ColumnsDeclared
        /\ ColumnsFollowed /\ ReferencesFollowed /\ IndexesFollowConstraints
    BY DEF SchemaInv
  <1>3. /\ Begun' = Begun /\ Aborted' = Aborted
        /\ DOMAIN tables' = DOMAIN tables \ {n}
        /\ \A m \in DOMAIN tables' : tables'[m] = tables[m] /\ tables[m] # gone
        /\ DOMAIN born' = DOMAIN born \ {gone}
        /\ \A id \in DOMAIN born' : born'[id] = born[id]
    BY <1>1, <1>2 DEF Begun, Aborted, TablesKnown
  <1>4. Registered' = Registered \ {gone} /\ Registered \subseteq Nat
    BY <1>1, <1>2, <1>3 DEF Registered, TablesKnown
  <1> HIDE DEF gone
  <1>5. SchemaTypeOK' /\ Bookkeeping' /\ HeadersConsistent'
    <2>1. TypeOK'
      BY <1>1, <1>2 DEF SchemaTypeOK, TypeOK
    <2>2. SchemaTypeOK'
      BY <1>1, <1>2, <1>3, <2>1 DEF SchemaTypeOK
    <2>3. HeadersConsistent'
      BY <1>1, <1>2, <1>3 DEF HeadersConsistent, TablesKnown, Late, Undone
    <2> QED  BY <1>1, <1>2, <1>3, <2>2, <2>3 DEF Bookkeeping
  <1>6. TablesKnown'
    <2>1. \A r \in clobbered' : \E d \in dropped' : d.column = r
      BY <1>1, <1>2 DEF TablesKnown
    <2>2. /\ \A m \in DOMAIN tables' : tables'[m] \in Nat /\ tables'[m] < next_table_id'
          /\ \A m, o \in DOMAIN tables' : tables'[m] = tables'[o] => m = o
      BY <1>1, <1>2, <1>3 DEF TablesKnown
    <2> QED  BY <1>1, <1>2, <1>3, <1>4, <2>1, <2>2 DEF TablesKnown
  <1>7. ColumnsDeclared'
    BY <1>1, <1>2, <1>3, <1>4, <1>6 DEF ColumnsDeclared, TablesKnown
  <1>8. ReferencesFollowed'
    <2> SUFFICES ASSUME NEW v \in versions', NEW k \in v.data.refers
                 PROVE  /\ k.table \in 0..(next_table_id - 1)
                        /\ k.table \in Registered' =>
                              /\ k.name \in DOMAIN tables' /\ tables'[k.name] = k.table
                              /\ KeyColumn \in born'[k.table].columns
                              /\ born'[k.table].creator \in committed \cup {v.created_by}
      BY <1>1 DEF ReferencesFollowed
    <2>1. /\ k.table \in 0..(next_table_id - 1)
          /\ k.table \in Registered =>
                /\ k.name \in DOMAIN tables /\ tables[k.name] = k.table
                /\ KeyColumn \in born[k.table].columns
                /\ born[k.table].creator \in committed \cup {v.created_by}
      BY <1>1, <1>2 DEF ReferencesFollowed
    <2>2. ASSUME k.table \in Registered' PROVE k.name # n
      BY <1>4, <2>1, <2>2 DEF gone
    <2> QED  BY <1>3, <1>4, <1>6, <2>1, <2>2 DEF TablesKnown
  <1>9. IndexesFollowConstraints'
    <2>1. ASSUME NEW r \in index_names'
          PROVE  \E c \in Columns, id \in Registered' : r = Chain(id, c)
      <3>1. PICK c \in Columns, id \in Registered : r = Chain(id, c)
        BY <1>1, <1>2 DEF IndexesFollowConstraints
      <3>2. id # gone
        BY <1>1, <1>4, <3>1, ChainParts
      <3> QED  BY <1>4, <3>1, <3>2
    <2> QED  BY <1>1, <1>2, <2>1 DEF IndexesFollowConstraints
  <1>10. ColumnsFollowed'
    <2> SUFFICES ASSUME NEW id \in Registered', NEW c \in born'[id].columns,
                        Chain(id, c) \notin clobbered', born'[id].creator \notin Aborted'
                 PROVE  Followed(Chain(id, c), born[id].creator)'
      <3>1. \A id \in Registered' : born'[id] = born[id]
        BY <1>3, <1>6 DEF TablesKnown
      <3> QED  BY <3>1 DEF ColumnsFollowed
    <2> DEFINE r == Chain(id, c)
               k == born[id].creator
    <2>1. /\ id \in Registered /\ id # gone /\ id \in Nat
          /\ born'[id] = born[id] /\ c \in born[id].columns /\ c \in Columns
      BY <1>2, <1>3, <1>4, <1>6 DEF TablesKnown, SchemaTypeOK
    <2>2. r \in Nat /\ TableOf(r) = id
      BY <2>1, ChainParts
    <2>3. Followed(r, k) /\ k = born'[id].creator
      BY <1>1, <1>2, <1>3, <2>1, <2>2 DEF ColumnsFollowed
    <2>4. OfColumn(r)' = OfColumn(r)
      BY <1>1, <2>1, <2>2 DEF OfColumn
    <2>5. Droppers(r)' = Droppers(r)
      BY <1>1, <1>3, <2>1, <2>2 DEF Droppers
    <2> QED  BY <1>1, <2>3, <2>4, <2>5 DEF Followed
  <1> QED
    BY <1>5, <1>6, <1>7, <1>8, <1>9, <1>10 DEF SchemaInv

\* The versions that CREATE TABLE makes of one column: one without a mark, and
\* any other marked by the creator itself (column.rs:255-310).
LEMMA DeclaredFacts ==
  ASSUME NEW id \in Nat, NEW c \in Columns, NEW t \in Nat \ {0},
         NEW data \in ColumnData, data.indexed = data.unique, NEW constrained
  PROVE  LET D == Declared(id, c, t, data, constrained)
         IN /\ D \subseteq Version
            /\ \A v \in D : /\ v.row = Chain(id, c) /\ v.created_by = t
                            /\ v.deleted_by \in {None, t}
                            /\ v.data.refers = data.refers
                            /\ v.data.indexed <=> v.data.unique
            /\ \E v \in D : v.deleted_by = None
            /\ \A v, w \in D : v = w \/ v.deleted_by = t \/ w.deleted_by = t
  <1> DEFINE first == NewVersion(Chain(id, c), 1, t, data)
             old == [first EXCEPT !.deleted_by = t]
             merged == Updated(data, TRUE)
             young == NewVersion(Chain(id, c), 2, t, merged)
  <1>1. Chain(id, c) \in Nat /\ ColumnData \subseteq Values
    BY ChainParts, SchemaAssumption
  <1>2. /\ merged \in ColumnData /\ merged.refers = data.refers
        /\ merged.indexed <=> merged.unique
    BY DEF Updated, ColumnData
  <1> HIDE DEF merged
  <1>3. /\ first \in Version /\ first.row = Chain(id, c) /\ first.created_by = t
        /\ first.deleted_by = None /\ first.data = data
    BY <1>1 DEF NewVersion, Version, None
  <1>4. /\ young \in Version /\ young.row = Chain(id, c) /\ young.created_by = t
        /\ young.deleted_by = None /\ young.data = merged
    BY <1>1, <1>2 DEF NewVersion, Version, None
  <1>5. /\ old \in Version /\ old.row = Chain(id, c) /\ old.created_by = t
        /\ old.deleted_by = t /\ old.data = data
    BY <1>1 DEF NewVersion, Version, None
  <1>6. Declared(id, c, t, data, constrained) = IF constrained THEN {old, young} ELSE {first}
    BY DEF Declared, merged
  <1> HIDE DEF first, old, young
  <1> QED  BY <1>2, <1>3, <1>4, <1>5, <1>6

\* A reference is resolved to a table whose key its transaction sees
\* (pg_wire.rs:181-208).
LEMMA ResolvedFacts ==
  ASSUME SchemaInv, NEW t \in active_transaction,
         NEW refers \in {{}} \cup resolve_foreign_key_reference(t), NEW k \in refers
  PROVE  /\ k.name \in DOMAIN tables /\ tables[k.name] = k.table
         /\ KeyColumn \in born[k.table].columns
         /\ born[k.table].creator \in committed \cup {t}
         /\ k \in [table : 0..(next_table_id - 1), name : Names]
  <1>1. PICK m \in DOMAIN tables :
          /\ refers = {[table |-> tables[m], name |-> m]}
          /\ KeyColumn \in get_visible_column_map(tables[m], t)
    BY DEF resolve_foreign_key_reference
  <1>2. k = [table |-> tables[m], name |-> m] /\ k.table = tables[m] /\ k.name = m
    BY <1>1
  <1>3. PICK v \in versions : v.row = Chain(tables[m], KeyColumn) /\ is_visible(v, t)
    BY <1>1 DEF get_visible_column_map, VisibleVersions
  <1>4. v.created_by \in committed \cup {t}
    BY <1>3, CoreOfSchema, NothingLate, VisibleFate DEF Readers
  <1>5. /\ tables[m] \in Registered /\ tables[m] \in 0..(next_table_id - 1) /\ m \in Names
        /\ KeyColumn \in Columns
    BY DEF SchemaInv, SchemaTypeOK, TablesKnown, Registered, Columns, KeyColumn
  <1>6. KeyColumn \in born[tables[m]].columns /\ v.created_by = born[tables[m]].creator
    BY <1>3, <1>5 DEF SchemaInv, ColumnsDeclared
  <1> QED  BY <1>2, <1>4, <1>5, <1>6

\* CREATE TABLE (pg_wire.rs:746-800, database.rs:148-163).
LEMMA CreateTableKeeps ==
  ASSUME SchemaInv, NEW t \in TxnIds, NEW n \in Names, create_table(t, n)
  PROVE  SchemaInv'
  <1> DEFINE j == next_table_id
  <1>1. PICK added \in 0..2, unique \in {"option", "constraint", "no"},
             refers \in {{}} \cup resolve_foreign_key_reference(t) :
          /\ tables' = Put(tables, n, j)
          /\ versions' = versions
                \cup (IF added > KeyColumn
                      THEN Declared(j, KeyColumn, t, InternalColumn(unique = "option", {}),
                                    unique = "constraint")
                      ELSE {})
                \cup (IF added > RefColumn
                      THEN Declared(j, RefColumn, t, InternalColumn(FALSE, refers), FALSE)
                      ELSE {})
          /\ born' = Put(born, j, [creator |-> t, columns |-> {c \in Columns : c < added}])
    BY DEF create_table, NewTableId
  <1>2. /\ t \in active_transaction /\ n \notin DOMAIN tables /\ j < MaxTables
        /\ next_table_id' = j + 1
        /\ UNCHANGED <<next_transaction_id, active_transaction, last_possible,
                       smallest_active, next_row_id, committed, clobbered, late,
                       index_names, pending, dropped>>
    BY DEF create_table, Idle, snapshot
  <1>3. /\ SchemaTypeOK /\ Bookkeeping /\ HeadersConsistent /\ TablesKnown /\ ColumnsDeclared
        /\ ColumnsFollowed /\ ReferencesFollowed /\ IndexesFollowConstraints
    BY DEF SchemaInv
  <1>4. /\ j \in Nat /\ MaxTables \in Nat /\ t \in Nat \ {0} /\ t \in Begun /\ t \notin Aborted
        /\ t # None
        /\ Begun' = Begun /\ Aborted' = Aborted
    BY <1>2, <1>3, SchemaAssumption
       DEF SchemaTypeOK, TypeOK, Bookkeeping, Begun, Aborted, None
  <1>5. /\ j \notin Registered /\ Registered' = Registered \cup {j} /\ Registered \subseteq Nat
        /\ DOMAIN tables' = DOMAIN tables \cup {n}
        /\ tables'[n] = j /\ \A m \in DOMAIN tables : tables'[m] = tables[m]
    <2>1. \A m \in DOMAIN tables : tables[m] \in Nat /\ tables[m] < j
      BY <1>3 DEF TablesKnown
    <2>2. /\ DOMAIN tables' = DOMAIN tables \cup {n}
          /\ tables'[n] = j /\ \A m \in DOMAIN tables : tables'[m] = tables[m]
      BY <1>1, <1>2 DEF Put
    <2> QED  BY <1>4, <2>1, <2>2 DEF Registered
  <1>6. /\ DOMAIN born' = DOMAIN born \cup {j}
        /\ born'[j].creator = t /\ born'[j].columns = {c \in Columns : c < added}
        /\ \A id \in Registered : born'[id] = born[id]
    <2>1. j \notin DOMAIN born /\ DOMAIN born = Registered
      BY <1>3, <1>5 DEF TablesKnown
    <2> QED  BY <1>1, <1>5, <2>1 DEF Put
  <1> DEFINE K == IF added > KeyColumn
                  THEN Declared(j, KeyColumn, t, InternalColumn(unique = "option", {}),
                                unique = "constraint")
                  ELSE {}
             R == IF added > RefColumn
                  THEN Declared(j, RefColumn, t, InternalColumn(FALSE, refers), FALSE)
                  ELSE {}
             New == K \cup R
  <1>7. versions' = versions \cup New
    BY <1>1
  <1>8. /\ K \subseteq Version
        /\ \A v \in K : /\ v.row = Chain(j, KeyColumn) /\ v.created_by = t /\ added > KeyColumn
                        /\ v.deleted_by \in {None, t}
                        /\ v.data.refers = {}
                        /\ v.data.indexed <=> v.data.unique
        /\ added > KeyColumn => \E v \in K : v.deleted_by = None
        /\ \A v, w \in K : v = w \/ v.deleted_by = t \/ w.deleted_by = t
    <2> DEFINE data == InternalColumn(unique = "option", {})
    <2>1. /\ data \in ColumnData /\ data.indexed = data.unique /\ data.refers = {}
          /\ KeyColumn \in Columns
      BY DEF InternalColumn, ColumnData, KeyColumn, Columns
    <2> HIDE DEF data
    <2>2. K = IF added > KeyColumn THEN Declared(j, KeyColumn, t, data, unique = "constraint")
              ELSE {}
      BY DEF data
    <2> DEFINE D == Declared(j, KeyColumn, t, data, unique = "constraint")
    <2>3. /\ D \subseteq Version
          /\ \A v \in D : /\ v.row = Chain(j, KeyColumn) /\ v.created_by = t
                          /\ v.deleted_by \in {None, t}
                          /\ v.data.refers = data.refers
                          /\ v.data.indexed <=> v.data.unique
          /\ \E v \in D : v.deleted_by = None
          /\ \A v, w \in D : v = w \/ v.deleted_by = t \/ w.deleted_by = t
      BY <1>4, <2>1, DeclaredFacts
    <2> HIDE DEF D, K
    <2> QED  BY <2>1, <2>2, <2>3 DEF D
  <1>9. /\ R \subseteq Version
        /\ \A v \in R : /\ v.row = Chain(j, RefColumn) /\ v.created_by = t /\ added > RefColumn
                        /\ v.deleted_by \in {None, t}
                        /\ v.data.refers = refers
                        /\ v.data.indexed <=> v.data.unique
        /\ added > RefColumn => \E v \in R : v.deleted_by = None
        /\ \A v, w \in R : v = w \/ v.deleted_by = t \/ w.deleted_by = t
    <2> DEFINE data == InternalColumn(FALSE, refers)
               plain == FALSE
    <2>1. \A k \in refers : k \in [table : 0..(MaxTables - 1), name : Names]
      <3>1. \A k \in refers : k \in [table : 0..(j - 1), name : Names]
        BY <1>2, ResolvedFacts
      <3> QED  BY <1>2, <1>4, <3>1
    <2>2. /\ data \in ColumnData /\ data.indexed = data.unique /\ data.refers = refers
          /\ RefColumn \in Columns
      BY <2>1 DEF InternalColumn, ColumnData, RefColumn, Columns
    <2> HIDE DEF data, plain
    <2>3. R = IF added > RefColumn THEN Declared(j, RefColumn, t, data, plain) ELSE {}
      BY DEF data, plain
    <2> DEFINE D == Declared(j, RefColumn, t, data, plain)
    <2>4. /\ D \subseteq Version
          /\ \A v \in D : /\ v.row = Chain(j, RefColumn) /\ v.created_by = t
                          /\ v.deleted_by \in {None, t}
                          /\ v.data.refers = data.refers
                          /\ v.data.indexed <=> v.data.unique
          /\ \E v \in D : v.deleted_by = None
          /\ \A v, w \in D : v = w \/ v.deleted_by = t \/ w.deleted_by = t
      BY <1>4, <2>2, DeclaredFacts
    <2> HIDE DEF D, R
    <2> QED  BY <2>2, <2>3, <2>4 DEF D
  <1> HIDE DEF K, R
  <1>10. KeyColumn \in Columns /\ RefColumn \in Columns
         /\ \A c \in Columns : c = KeyColumn \/ c = RefColumn
    BY DEF KeyColumn, RefColumn, Columns
  <1>11. \A v \in New : /\ v \in Version /\ v.created_by = t /\ v.deleted_by \in {None, t}
                        /\ TableOf(v.row) = j
                        /\ v.data.indexed <=> v.data.unique
                        /\ v.data.refers \subseteq refers
    BY <1>4, <1>8, <1>9, <1>10, ChainParts
  <1>12. SchemaTypeOK' /\ Bookkeeping' /\ HeadersConsistent'
    <2>1. TypeOK'
      BY <1>2, <1>3, <1>7, <1>11 DEF SchemaTypeOK, TypeOK
    <2>2. \A id \in DOMAIN born' : /\ born'[id].creator \in Begun'
                                   /\ born'[id].columns \subseteq Columns
      BY <1>3, <1>4, <1>6 DEF SchemaTypeOK, TablesKnown
    <2>3. SchemaTypeOK'
      BY <1>2, <1>3, <1>4, <2>1, <2>2 DEF SchemaTypeOK
    <2>4. Bookkeeping'
      BY <1>2, <1>3, <1>4 DEF Bookkeeping
    <2>5. HeadersConsistent'
      <3>1. late = {} /\ late' = {}
        BY <1>2, <1>3 DEF TablesKnown
      <3> QED  BY <1>2, <1>3, <1>4, <1>7, <1>11, <3>1, Fates
               DEF HeadersConsistent, Late, Undone
    <2> QED  BY <2>3, <2>4, <2>5
  <1>13. TablesKnown'
    <2>1. /\ \A m \in DOMAIN tables' : tables'[m] \in Nat /\ tables'[m] < next_table_id'
          /\ \A m, o \in DOMAIN tables' : tables'[m] = tables'[o] => m = o
          /\ DOMAIN tables' \subseteq Names
      BY <1>2, <1>3, <1>4, <1>5 DEF TablesKnown, Registered
    <2>2. \A v \in versions' : TableOf(v.row) \in Registered'
      BY <1>3, <1>5, <1>7, <1>11 DEF TablesKnown
    <2> QED  BY <1>2, <1>3, <1>5, <1>6, <2>1, <2>2 DEF TablesKnown
  <1>14. ColumnsDeclared'
    <2> SUFFICES ASSUME NEW v \in versions', NEW id \in Registered', NEW c \in Columns,
                        v.row = Chain(id, c)
                 PROVE  c \in born'[id].columns /\ v.created_by = born'[id].creator
      BY DEF ColumnsDeclared
    <2>1. id \in Nat /\ TableOf(v.row) = id
      BY <1>4, <1>5, ChainParts
    <2>2. CASE v \in versions
      BY <1>3, <1>5, <1>6, <2>1, <2>2 DEF ColumnsDeclared, TablesKnown
    <2>3. CASE v \in New
      <3>1. id = j
        BY <1>11, <2>1, <2>3
      <3>2. c < added
        BY <1>4, <1>8, <1>9, <1>10, <2>3, <3>1, ChainParts
      <3> QED  BY <1>6, <1>11, <2>3, <3>1, <3>2
    <2> QED  BY <1>7, <2>2, <2>3
  <1>15. ReferencesFollowed'
    <2> SUFFICES ASSUME NEW v \in versions', NEW k \in v.data.refers
                 PROVE  /\ k.table \in 0..j
                        /\ k.table \in Registered' =>
                              /\ k.name \in DOMAIN tables' /\ tables'[k.name] = k.table
                              /\ KeyColumn \in born'[k.table].columns
                              /\ born'[k.table].creator \in committed \cup {v.created_by}
      BY <1>2, <1>4 DEF ReferencesFollowed
    <2>1. CASE v \in versions
      <3>1. /\ k.table \in 0..(j - 1)
            /\ k.table \in Registered =>
                  /\ k.name \in DOMAIN tables /\ tables[k.name] = k.table
                  /\ KeyColumn \in born[k.table].columns
                  /\ born[k.table].creator \in committed \cup {v.created_by}
        BY <1>3, <2>1 DEF ReferencesFollowed
      <3> QED  BY <1>4, <1>5, <1>6, <3>1
    <2>2. CASE v \in New
      <3>1. k \in refers /\ v.created_by = t
        BY <1>11, <2>2
      <3>2. /\ k.name \in DOMAIN tables /\ tables[k.name] = k.table
            /\ KeyColumn \in born[k.table].columns
            /\ born[k.table].creator \in committed \cup {t}
            /\ k \in [table : 0..(j - 1), name : Names]
        BY <1>2, <3>1, ResolvedFacts
      <3>3. k.table \in Registered /\ k.table \in 0..j
        BY <1>4, <3>2 DEF Registered
      <3> QED  BY <1>5, <1>6, <3>1, <3>2, <3>3
    <2> QED  BY <1>7, <2>1, <2>2
  <1>16. IndexesFollowConstraints'
    BY <1>2, <1>3, <1>5, <1>7, <1>11 DEF IndexesFollowConstraints
  <1>17. ColumnsFollowed'
    <2> SUFFICES ASSUME NEW id \in Registered', NEW c \in born'[id].columns,
                        Chain(id, c) \notin clobbered, born'[id].creator \notin Aborted
                 PROVE  Followed(Chain(id, c), born[id].creator)'
      BY <1>2, <1>4 DEF ColumnsFollowed
    <2> DEFINE r == Chain(id, c)
    <2>1. id \in Nat /\ c \in Columns /\ r \in Nat /\ TableOf(r) = id
      BY <1>4, <1>5, <1>12, <1>13, ChainParts DEF SchemaTypeOK, TablesKnown
    <2>2. CASE id \in Registered
      <3>1. /\ Followed(r, born[id].creator) /\ born'[id] = born[id]
            /\ id # j
        BY <1>3, <1>5, <1>6, <2>2 DEF ColumnsFollowed
      <3>2. OfColumn(r)' = OfColumn(r) /\ Droppers(r)' = Droppers(r)
        BY <1>2, <1>4, <1>7, <1>11, <2>1, <3>1 DEF OfColumn, Droppers
      <3> QED  BY <1>2, <3>1, <3>2 DEF Followed
    <2>3. CASE id = j
      <3>1. born'[id].creator = t /\ c < added
        BY <1>6, <2>3
      <3>2. OfColumn(r)' = IF c = KeyColumn THEN K ELSE R
        <4>1. \A v \in versions : v.row # r
          BY <1>3, <1>5, <2>1, <2>3 DEF TablesKnown
        <4>2. /\ c = KeyColumn => \A v \in R : v.row # r
              /\ c = RefColumn => \A v \in K : v.row # r
              /\ KeyColumn # RefColumn
          BY <1>4, <1>8, <1>9, <1>10, <2>1, <2>3, ChainParts DEF KeyColumn, RefColumn
        <4> QED  BY <1>7, <1>8, <1>9, <1>10, <2>1, <2>3, <4>1, <4>2 DEF OfColumn
      <3>3. Droppers(r)' = {}
        <4>1. \A d \in dropped : d.column # r
          BY <1>3, <1>5, <2>1, <2>3 DEF TablesKnown
        <4> QED  BY <1>2, <4>1 DEF Droppers
      <3>4. /\ \E v \in OfColumn(r)' : v.deleted_by = None
            /\ \A v, w \in OfColumn(r)' : v = w \/ v.deleted_by = t \/ w.deleted_by = t
        BY <1>8, <1>9, <1>10, <2>1, <3>1, <3>2
      <3> QED  BY <3>1, <3>3, <3>4 DEF Followed
    <2> QED  BY <1>5, <2>2, <2>3
  <1> QED
    BY <1>12, <1>13, <1>14, <1>15, <1>16, <1>17 DEF SchemaInv

\* The inductive invariant holds in every reachable state, for any names,
\* tables, transactions and index names.
THEOREM SchemaInvariance == SSpec => []SchemaInv
  <1>1. SInit => SchemaInv
    <2> SUFFICES ASSUME SInit PROVE SchemaInv
      OBVIOUS
    <2>1. /\ CoreInv /\ versions = {} /\ clobbered = {} /\ next_table_id = 0
          /\ index_names = {} /\ dropped = {} /\ pending = [t \in TxnIds |-> {}]
          /\ DOMAIN tables = {} /\ DOMAIN born = {} /\ late = {}
      BY InitInv DEF SInit, Init
    <2>2. Registered = {}
      BY <2>1 DEF Registered
    <2>3. pending \in [TxnIds -> SUBSET Nat]
      BY <2>1
    <2> QED
      BY <2>1, <2>2, <2>3
         DEF SchemaInv, CoreInv, SchemaTypeOK, TablesKnown, ColumnsDeclared,
             ColumnsFollowed, ReferencesFollowed, IndexesFollowConstraints
  <1>2. SchemaInv /\ [SNext]_svars => SchemaInv'
    <2> SUFFICES ASSUME SchemaInv, [SNext]_svars PROVE SchemaInv'
      OBVIOUS
    <2>0. /\ pending \in [TxnIds -> SUBSET Nat]
          /\ \A r \in index_names : \E c \in Columns, id \in Registered : r = Chain(id, c)
          /\ \A n \in DOMAIN tables : tables[n] \in Nat
      BY DEF SchemaInv, SchemaTypeOK, IndexesFollowConstraints, TablesKnown
    <2>1. CASE Transactions
      BY <2>1, TransactionsKeep
    <2>2. ASSUME NEW n \in Names, drop_table(n) PROVE SchemaInv'
      BY <2>2, DropTableKeeps
    <2>3. ASSUME NEW t \in TxnIds, NEW n \in Names, create_table(t, n) PROVE SchemaInv'
      BY <2>3, CreateTableKeeps
    <2>4. ASSUME NEW t \in TxnIds, NEW n \in Names, get_table(t, n) PROVE SchemaInv'
      BY <2>0, <2>4, LightStepKeeps DEF get_table
    <2>5. ASSUME NEW t \in TxnIds, NEW c \in Columns, drop_column(t, c) PROVE SchemaInv'
      BY <2>5, DropColumnKeeps
    <2>6. ASSUME NEW t \in TxnIds, NEW c \in Columns, create_column_index(t, c)
          PROVE  SchemaInv'
      <3>1. PICK id \in pending[t] : /\ id \in Registered
                                     /\ index_names' = index_names \cup {Chain(id, c)}
        BY <2>6 DEF create_column_index
      <3>2. UNCHANGED <<vars, tables, next_table_id, born, dropped>>
            /\ pending' = [pending EXCEPT ![t] = {}]
        BY <2>6 DEF create_column_index
      <3> QED  BY <2>0, <3>1, <3>2, LightStepKeeps
    <2>7. ASSUME NEW t \in TxnIds, FailStatement(t) PROVE SchemaInv'
      BY <2>0, <2>7, LightStepKeeps DEF FailStatement
    <2>8. ASSUME NEW t \in TxnIds, NEW r \in index_names, drop_column_index(t, r)
          PROVE  SchemaInv'
      BY <2>8, DropIndexKeeps
    <2>9. CASE UNCHANGED svars
      BY <2>0, <2>9, LightStepKeeps DEF svars, schema
    <2> QED
      BY <2>1, <2>2, <2>3, <2>4, <2>5, <2>6, <2>7, <2>8, <2>9 DEF SNext
  <1> QED  BY <1>1, <1>2, PTL DEF SSpec

\* Indexes go with UNIQUE and PRIMARY KEY, and with nothing else
\* (column.rs:285-310, 510-535).
THEOREM IndexesGoWithConstraints == SSpec => []IndexesFollowConstraints
  <1>1. SchemaInv => IndexesFollowConstraints
    BY DEF SchemaInv
  <1> QED  BY <1>1, SchemaInvariance, PTL

\* The invariant decides what a reader sees of a column.
LEMMA ColumnSeen ==
  ASSUME SchemaInv, WatermarkCurrent, NEW id \in Registered, NEW t \in Readers,
         NEW c \in Columns, Chain(id, c) \notin clobbered
  PROVE  c \in get_visible_column_map(id, t)
            <=> /\ c \in born[id].columns
                /\ born[id].creator \in committed \cup {t}
                /\ ~DroppedFor(Chain(id, c), t)
  <1> DEFINE r == Chain(id, c)
             k == born[id].creator
  <1>1. c \in get_visible_column_map(id, t)
          <=> \E v \in OfColumn(r) : Intended(v, t)
    BY CoreOfSchema, ExactFor DEF get_visible_column_map, VisibleVersions, OfColumn
  <1>2. \A v \in OfColumn(r) : c \in born[id].columns /\ v.created_by = k
    BY DEF OfColumn, SchemaInv, ColumnsDeclared
  <1>3. /\ k \in Begun /\ \A d \in dropped : d.by \in Begun
        /\ None \notin committed /\ None # t /\ None \notin Begun
        /\ \A b \in Begun : b \in committed \cup {t} => b \notin Aborted
        /\ \A b \in Begun : b \in Aborted \cup active_transaction \cup committed
    BY Fates DEF Readers, Aborted, SchemaInv, SchemaTypeOK, TypeOK, None
  <1>4. c \in born[id].columns /\ k \notin Aborted => Followed(r, k)
    BY DEF SchemaInv, ColumnsFollowed
  <1>5. ASSUME NEW v \in OfColumn(r), Intended(v, t)
        PROVE  c \in born[id].columns /\ k \in committed \cup {t} /\ ~DroppedFor(r, t)
    <2>1. c \in born[id].columns /\ k \in committed \cup {t} /\ Followed(r, k)
      BY <1>2, <1>3, <1>4, <1>5, NothingLate
    <2>2. ASSUME NEW d \in dropped, d.column = r, d.by \in committed \cup {t} PROVE FALSE
      <3>1. d.by \in Droppers(r)
        BY <1>3, <2>2 DEF Droppers
      <3>2. v.deleted_by \in {k, d.by}
        BY <2>1, <3>1 DEF Followed
      <3> QED  BY <1>5, <2>1, <2>2, <3>2, NothingLate
    <2> QED  BY <2>1, <2>2 DEF DroppedFor
  <1>6. ASSUME c \in born[id].columns, k \in committed \cup {t}, ~DroppedFor(r, t)
        PROVE  \E v \in OfColumn(r) : Intended(v, t)
    <2>1. Followed(r, k)
      BY <1>3, <1>4, <1>6
    <2>2. CASE Droppers(r) = {}
      <3>1. PICK v \in OfColumn(r) : v.deleted_by = None
        BY <2>1, <2>2 DEF Followed
      <3> QED  BY <1>2, <1>3, <1>6, <3>1, NothingLate
    <2>3. ASSUME NEW x \in Droppers(r) PROVE \E v \in OfColumn(r) : Intended(v, t)
      <3>1. x \notin committed \cup {t} /\ x \in active_transaction
        BY <1>3, <1>6, <2>3 DEF Droppers, DroppedFor
      <3>2. PICK v \in OfColumn(r) : v.deleted_by = x
        BY <2>1, <3>1 DEF Followed
      <3> QED  BY <1>2, <1>6, <3>1, <3>2, NothingLate
    <2> QED  BY <2>2, <2>3
  <1> QED  BY <1>1, <1>5, <1>6

\* What transactions see of a table is what was declared and not dropped
\* (pg_wire.rs:746-800, column.rs:363-470).
THEOREM SchemaIsAsDeclared == SSpec => []SchemaAsDeclared
  <1>1. SchemaInv => SchemaAsDeclared
    BY ColumnSeen DEF SchemaAsDeclared
  <1> QED  BY <1>1, SchemaInvariance, PTL

\* Foreign keys keep their targets (pg_wire.rs:181-208, database.rs:148-200).
THEOREM ForeignKeysKeepTargets == SSpec => []ReferencesHold
  <1>1. SchemaInv => ReferencesHold
    <2> SUFFICES ASSUME SchemaInv, WatermarkCurrent,
                        NEW v \in versions, NEW t \in Readers, is_visible(v, t),
                        NEW k \in v.data.refers, k.table \in Registered
                 PROVE  /\ k.name \in DOMAIN tables /\ tables[k.name] = k.table
                        /\ \/ KeyColumn \in get_visible_column_map(k.table, t)
                           \/ \E d \in dropped : d.column = Chain(k.table, KeyColumn)
      BY DEF ReferencesHold
    <2> DEFINE r == Chain(k.table, KeyColumn)
    <2>1. /\ k.name \in DOMAIN tables /\ tables[k.name] = k.table
          /\ KeyColumn \in born[k.table].columns
          /\ born[k.table].creator \in committed \cup {v.created_by}
      BY DEF SchemaInv, ReferencesFollowed
    <2>2. v.created_by \in committed \cup {t}
      BY CoreOfSchema, NothingLate, VisibleFate
    <2>3. CASE r \in clobbered
      BY <2>1, <2>3 DEF SchemaInv, TablesKnown
    <2>4. CASE r \notin clobbered
      <3>1. KeyColumn \in Columns
        BY DEF KeyColumn, Columns
      <3>2. \/ KeyColumn \in get_visible_column_map(k.table, t)
            \/ DroppedFor(r, t)
        BY <2>1, <2>2, <2>4, <3>1, ColumnSeen
      <3> QED  BY <2>1, <3>2 DEF DroppedFor
    <2> QED  BY <2>3, <2>4
  <1> QED  BY <1>1, SchemaInvariance, PTL
=============================================================================
