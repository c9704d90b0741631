---------------------------- MODULE SessionProofs ----------------------------
(***************************************************************************)
(* Proofs about client sessions, for any number of connections and         *)
(* requests.  SessionInv is the inductive invariant.  A step belongs to    *)
(* one connection; Frame says once what it must leave alone and what it    *)
(* must establish for its own connection, and every action is shown to be  *)
(* such a step.                                                            *)
(***************************************************************************)
EXTENDS Session, TLAPS

ConnType == [pc : Pcs, op : Ops, txn : Nat, auto : BOOLEAN, ok : BOOLEAN]
WireType == [state : {"ready", "batch", "copy"}, copy_in : BOOLEAN]

\* What SessionInv says of one connection.
LocalInv(c) ==
    Held(c) \subseteq Begun /\ AtRightPlace(c) /\ HoldsProperly(c) /\ CopyAwaited(c)

\* Nothing of connection d changes.
Same(d) ==
    /\ conn'[d] = conn[d] /\ wire'[d] = wire[d]
    /\ d \in DOMAIN active_transactions' <=> d \in DOMAIN active_transactions
    /\ d \in DOMAIN active_transactions => active_transactions'[d] = active_transactions[d]
    /\ d \in DOMAIN copy_sessions' <=> d \in DOMAIN copy_sessions
    /\ d \in DOMAIN copy_sessions => copy_sessions'[d] = copy_sessions[d]

\* Membership in LeftBehind.
LEMMA LeftMembers ==
  ASSUME NEW c
  PROVE  /\ \A t : t \in LeftBehind(c) <=>
               c \in DOMAIN copy_sessions /\ copy_sessions[c].auto /\ t = copy_sessions[c].txn
         /\ \A t : t \in LeftBehind(c)' <=>
               c \in DOMAIN copy_sessions' /\ copy_sessions'[c].auto /\ t = copy_sessions'[c].txn
  BY DEF LeftBehind

\* Membership in Held.
LEMMA HeldMembers ==
  ASSUME NEW c
  PROVE  /\ \A t : t \in Held(c) <=>
               \/ c \in DOMAIN active_transactions /\ t = active_transactions[c]
               \/ c \in DOMAIN copy_sessions /\ t = copy_sessions[c].txn
               \/ t = conn[c].txn /\ t # None
         /\ \A t : t \in Held(c)' <=>
               \/ c \in DOMAIN active_transactions' /\ t = active_transactions'[c]
               \/ c \in DOMAIN copy_sessions' /\ t = copy_sessions'[c].txn
               \/ t = conn'[c].txn /\ t # None
  BY DEF Held

\* What a step does to the database's bookkeeping: nothing, a begin, or the end
\* of a transaction in T (database.rs:213-314).
DbStep(T) ==
    \/ UNCHANGED dbvars
    \/ create_transaction
    \/ \E t \in T \cap active, b \in BOOLEAN : EndTransaction(t, b)

LEMMA DbFacts ==
  ASSUME TypeOK, FatesDisjoint, NEW T, DbStep(T)
  PROVE  /\ next_transaction_id' \in Nat \ {0}
         /\ Begun \subseteq Begun' /\ active' \subseteq Begun' /\ FatesDisjoint'
         /\ active' \ active \subseteq Begun' \ Begun
         /\ active \ active' \subseteq T
         /\ None \notin active /\ None \notin active'
  <1>1. CASE UNCHANGED dbvars
    BY <1>1 DEF dbvars, TypeOK, FatesDisjoint, Begun, None
  <1>2. CASE create_transaction
    <2>0. /\ next_transaction_id \in Nat \ {0}
          /\ next_transaction_id' = next_transaction_id + 1
      BY <1>2 DEF create_transaction, TypeOK
    <2>1. /\ Begun' = Begun \cup {next_transaction_id}
          /\ next_transaction_id \notin Begun
      BY <2>0 DEF Begun
    <2>2. None \notin Begun'
      BY DEF Begun, None
    <2> QED  BY <1>2, <2>0, <2>1, <2>2 DEF create_transaction, TypeOK, FatesDisjoint
  <1>3. ASSUME NEW t \in T \cap active, NEW b \in BOOLEAN, EndTransaction(t, b)
        PROVE  /\ next_transaction_id' \in Nat \ {0}
               /\ Begun \subseteq Begun' /\ active' \subseteq Begun' /\ FatesDisjoint'
               /\ active' \ active \subseteq Begun' \ Begun
               /\ active \ active' \subseteq T
               /\ None \notin active /\ None \notin active'
    <2>1. next_transaction_id \in Nat \ {0} /\ next_transaction_id' = next_transaction_id
      BY <1>3 DEF EndTransaction, TypeOK
    <2>2. Begun' = Begun /\ None \notin Begun
      BY <2>1 DEF Begun, None
    <2>3. CASE b = TRUE
      BY <1>3, <2>1, <2>2, <2>3 DEF EndTransaction, TypeOK, FatesDisjoint
    <2>4. CASE b = FALSE
      BY <1>3, <2>1, <2>2, <2>4 DEF EndTransaction, TypeOK, FatesDisjoint
    <2> QED  BY <2>3, <2>4
  <1> QED  BY <1>1, <1>2, <1>3 DEF DbStep

\* A step of connection c that leaves the other connections alone, ends only
\* transactions of its own, drops none but those it records, and keeps what
\* SessionInv says of c, keeps SessionInv.
LEMMA Frame ==
  ASSUME SessionInv, NEW c \in Addresses,
         \A d \in Addresses \ {c} : Same(d),
         TypeOK', DbStep(Held(c)), lost \subseteq lost',
         Held(c)' \subseteq Held(c) \cup (Begun' \ Begun),
         \A t \in active' : t \in Held(c) \cup (Begun' \ Begun) => t \in Held(c)' \cup lost',
         LocalInv(c)'
  PROVE  SessionInv'
  <1>0. TypeOK /\ FatesDisjoint /\ HeldApart /\ NoneForgotten
        /\ \A d \in Addresses : LocalInv(d)
    BY DEF SessionInv, LocalInv
  <1>1. /\ Begun \subseteq Begun' /\ FatesDisjoint'
        /\ active' \ active \subseteq Begun' \ Begun
        /\ active \ active' \subseteq Held(c)
        /\ None \notin active /\ None \notin active'
    BY <1>0, DbFacts
  <1>2. ASSUME NEW d \in Addresses \ {c}
        PROVE  /\ Held(d)' = Held(d) /\ LocalInv(d)'
    <2>1. Same(d)
      OBVIOUS
    <2>2. \A t : t \in Held(d)' <=> t \in Held(d)
      BY <2>1, HeldMembers DEF Same
    <2>3. Held(d) \subseteq Begun /\ \A t \in Held(d) : t \notin Held(c)
      BY <1>0 DEF LocalInv, HeldApart
    <2>4. \A t \in Held(d) : t \in active' <=> t \in active
      BY <1>1, <2>3
    <2>5. \A t : t \in Held(d) \cup {None} => (t \in active' <=> t \in active)
      BY <1>1, <2>4
    <2>6. AtRightPlace(d)'
      BY <1>0, <2>1 DEF AtRightPlace, Same, LocalInv
    <2>7. CopyAwaited(d)'
      <3>1. CopyAwaited(d) /\ \A t : t \in LeftBehind(d)' <=> t \in LeftBehind(d)
        BY <1>0, <2>1, LeftMembers DEF Same, LocalInv
      <3> QED  BY <2>1, <3>1 DEF CopyAwaited, Same
    <2>8. HoldsProperly(d)'
      <3>1. HoldsProperly(d)
        BY <1>0 DEF LocalInv
      <3>2. /\ d \in DOMAIN active_transactions =>
                 (active_transactions[d] \in active' <=> active_transactions[d] \in active)
            /\ d \in DOMAIN copy_sessions =>
                 (copy_sessions[d].txn \in active' <=> copy_sessions[d].txn \in active)
            /\ conn[d].txn \in active' <=> conn[d].txn \in active
        BY <2>5, HeldMembers
      <3> QED  BY <2>1, <3>1, <3>2 DEF HoldsProperly, UsesEntry, Same
    <2> QED  BY <1>1, <2>2, <2>3, <2>6, <2>7, <2>8 DEF LocalInv
  <1>3. HeldApart'
    BY <1>0, <1>2 DEF HeldApart, LocalInv
  <1>4. NoneForgotten'
    <2> SUFFICES ASSUME NEW t \in active', t \notin lost'
                 PROVE  \E d \in Addresses : t \in Held(d)'
      BY DEF NoneForgotten
    <2>1. CASE t \in Held(c) \cup (Begun' \ Begun)
      BY <2>1
    <2>2. CASE t \notin Held(c) \cup (Begun' \ Begun)
      <3>1. t \in active
        BY <1>1, <2>2
      <3>2. PICK d \in Addresses : t \in Held(d)
        BY <1>0, <3>1 DEF NoneForgotten
      <3> QED  BY <1>2, <2>2, <3>2
    <2> QED  BY <2>1, <2>2
  <1>5. \A d \in Addresses : LocalInv(d)'
    BY <1>2
  <1> QED  BY <1>1, <1>3, <1>4, <1>5 DEF SessionInv, LocalInv

\* How the map changes for the connections other than c.
OthersKept(c) ==
    /\ DOMAIN active_transactions' \subseteq Addresses
    /\ \A d \in Addresses \ {c} :
          /\ d \in DOMAIN active_transactions' <=> d \in DOMAIN active_transactions
          /\ d \in DOMAIN active_transactions
               => active_transactions'[d] = active_transactions[d]

SessionsKept(c) ==
    /\ DOMAIN copy_sessions' \subseteq Addresses
    /\ c \in DOMAIN copy_sessions' => copy_sessions'[c] \in [txn : Nat, auto : BOOLEAN]
    /\ \A d \in Addresses \ {c} :
          /\ d \in DOMAIN copy_sessions' <=> d \in DOMAIN copy_sessions
          /\ d \in DOMAIN copy_sessions => copy_sessions'[d] = copy_sessions[d]

\* A step in which connection c keeps its transactions, though it may pass them
\* between its thread and its two maps, and the database does nothing.
LEMMA Passes ==
  ASSUME SessionInv, NEW c \in Addresses, NEW o \in ConnType,
         conn' = [conn EXCEPT ![c] = o], UNCHANGED <<dbvars, wire, lost>>,
         OthersKept(c), SessionsKept(c),
         \A t : t \in Held(c)' <=> t \in Held(c),
         AtRightPlace(c)', HoldsProperly(c)', CopyAwaited(c)'
  PROVE  SessionInv'
  <1>1. conn'[c] = o /\ \A d \in Addresses \ {c} : conn'[d] = conn[d]
    BY DEF SessionInv, TypeOK
  <1>2. \A d \in Addresses \ {c} : Same(d)
    BY <1>1 DEF Same, OthersKept, SessionsKept
  <1>3. TypeOK'
    <2>1. TypeOK /\ Begun' = Begun
      BY DEF SessionInv, dbvars, Begun
    <2>2. conn' \in [Addresses -> ConnType]
      BY <2>1 DEF TypeOK, ConnType
    <2>3. \A d \in DOMAIN copy_sessions' : copy_sessions'[d] \in [txn : Nat, auto : BOOLEAN]
      BY <2>1 DEF TypeOK, SessionsKept
    <2> QED
      BY <2>1, <2>2, <2>3 DEF TypeOK, ConnType, dbvars, OthersKept, SessionsKept
  <1>4. DbStep(Held(c)) /\ lost \subseteq lost' /\ Begun' = Begun
    BY DEF DbStep, dbvars, Begun
  <1>5. Held(c) \subseteq Begun
    BY DEF SessionInv
  <1>6. LocalInv(c)'
    BY <1>4, <1>5 DEF LocalInv
  <1> QED  BY <1>2, <1>3, <1>4, <1>6, Frame

\* The maps of a step that leaves them alone.
LEMMA MapsKept ==
  ASSUME TypeOK, NEW c \in Addresses, UNCHANGED maps
  PROVE  OthersKept(c) /\ SessionsKept(c)
  BY DEF TypeOK, maps, OthersKept, SessionsKept

\* The result of Answer: the thread is idle and the client may go on.
LEMMA AnswerFacts ==
  ASSUME TypeOK, NEW c \in Addresses, NEW ok \in BOOLEAN, Answer(c, ok), CopyAwaited(c)
  PROVE  /\ conn' \in [Addresses -> ConnType] /\ wire' \in [Addresses -> WireType]
         /\ conn'[c] = Idle
         /\ \A d \in Addresses \ {c} : conn'[d] = conn[d] /\ wire'[d] = wire[d]
         /\ wire'[c].state = "copy" => wire'[c].copy_in
         /\ wire'[c].copy_in <=> wire[c].copy_in /\ conn[c].op \notin CopyMessages
  <1>1. conn \in [Addresses -> ConnType] /\ wire \in [Addresses -> WireType]
    BY DEF TypeOK, ConnType, WireType
  <1>2. Idle \in ConnType
    BY DEF Idle, ConnType, Pcs, Ops, None
  <1>3. /\ conn' \in [Addresses -> ConnType] /\ conn'[c] = Idle
        /\ \A d \in Addresses \ {c} : conn'[d] = conn[d]
    BY <1>1, <1>2 DEF Answer
  <1>4. CASE conn[c].op \in CopyMessages
    <2>1. wire' = [wire EXCEPT ![c] = [state |-> "ready", copy_in |-> FALSE]]
      BY <1>4 DEF Answer
    <2> QED  BY <1>1, <1>3, <1>4, <2>1 DEF WireType
  <1>5. CASE conn[c].op \notin CopyMessages
    <2>1. PICK s : s = IF ok THEN "batch" ELSE AfterBatch(c)
      OBVIOUS
    <2>2. wire' = [wire EXCEPT ![c] = [wire[c] EXCEPT !.state = s]]
      BY <1>5, <2>1 DEF Answer
    <2>3. s \in {"ready", "batch", "copy"} /\ (s = "copy" => wire[c].copy_in)
      BY <2>1 DEF AfterBatch
    <2>4. /\ [wire[c] EXCEPT !.state = s] \in WireType
          /\ [wire[c] EXCEPT !.state = s].state = s
          /\ [wire[c] EXCEPT !.state = s].copy_in = wire[c].copy_in
      BY <1>1, <2>3 DEF WireType
    <2> QED  BY <1>1, <1>3, <1>5, <2>2, <2>3, <2>4
  <1> QED  BY <1>4, <1>5

\* A step that ends in an answer.
LEMMA Answers ==
  ASSUME SessionInv, NEW c \in Addresses, NEW ok \in BOOLEAN, Answer(c, ok),
         DbStep(Held(c)), lost \subseteq lost', copy_sessions' = copy_sessions,
         OthersKept(c), HoldsProperly(c)',
         Held(c)' \subseteq Held(c) \cup (Begun' \ Begun), Held(c)' \subseteq Begun',
         \A t \in active' : t \in Held(c) \cup (Begun' \ Begun) => t \in Held(c)' \cup lost'
  PROVE  SessionInv'
  <1>1. TypeOK /\ FatesDisjoint /\ CopyAwaited(c) /\ HoldsProperly(c)
    BY DEF SessionInv
  <1>2. /\ conn' \in [Addresses -> ConnType] /\ wire' \in [Addresses -> WireType]
        /\ conn'[c] = Idle
        /\ \A d \in Addresses \ {c} : conn'[d] = conn[d] /\ wire'[d] = wire[d]
        /\ wire'[c].state = "copy" => wire'[c].copy_in
        /\ wire'[c].copy_in <=> wire[c].copy_in /\ conn[c].op \notin CopyMessages
    BY <1>1, AnswerFacts
  <1>3. TypeOK'
    BY <1>1, <1>2, DbFacts DEF TypeOK, ConnType, WireType, OthersKept
  <1>4. \A d \in Addresses \ {c} : Same(d)
    BY <1>2 DEF Same, OthersKept
  <1>5. AtRightPlace(c)'
    BY <1>2 DEF AtRightPlace, Idle, None
  <1>6. CopyAwaited(c)'
    <2>1. ~wire'[c].copy_in => LeftBehind(c)' \subseteq lost'
      BY <1>1, <1>2, LeftMembers DEF CopyAwaited, HoldsProperly
    <2> QED  BY <1>1, <1>2, <2>1 DEF CopyAwaited
  <1>7. LocalInv(c)'
    BY <1>5, <1>6 DEF LocalInv
  <1> QED  BY <1>3, <1>4, <1>7, Frame

\* An answer after which the database and both maps are as before: the thread's
\* transaction is none, was dropped on record, or stays with the map.
LEMMA PlainAnswer ==
  ASSUME SessionInv, NEW c \in Addresses, NEW ok \in BOOLEAN, Answer(c, ok),
         UNCHANGED <<dbvars, maps>>, lost \subseteq lost',
         conn[c].pc # "end",
         conn[c].txn \in active => UsesEntry(c) \/ conn[c].txn \in lost'
  PROVE  SessionInv'
  <1>1. TypeOK /\ LocalInv(c) /\ FatesDisjoint
    BY DEF SessionInv, LocalInv
  <1>2. conn'[c] = Idle
    BY <1>1, AnswerFacts DEF LocalInv
  <1>3. Idle.txn = None /\ Idle.pc = "idle" /\ Idle.op = "none" /\ Idle.auto = FALSE
    BY DEF Idle
  <1>4. DbStep(Held(c)) /\ Begun' = Begun /\ copy_sessions' = copy_sessions
        /\ active_transactions' = active_transactions /\ active' = active
    BY DEF DbStep, dbvars, Begun, maps
  <1>5. None \notin active
    BY <1>1 DEF TypeOK, Begun, None
  <1>6. OthersKept(c)
    BY <1>1, <1>4 DEF OthersKept, TypeOK
  <1>7. HoldsProperly(c)'
    BY <1>1, <1>2, <1>3, <1>4, <1>5
       DEF HoldsProperly, LocalInv, InTransaction, Statements, Guarded, Unguarded, CopyMessages
  <1>8. Held(c)' \subseteq Held(c) /\ Held(c) \subseteq Begun
    BY <1>1, <1>2, <1>3, <1>4, HeldMembers DEF LocalInv
  <1>9. \A t \in active' : t \in Held(c) => t \in Held(c)' \cup lost'
    BY <1>4, <1>5, HeldMembers DEF UsesEntry
  <1> QED  BY <1>4, <1>6, <1>7, <1>8, <1>9, Answers

\* A thread goes on to another place, with the same request and transaction.
LEMMA GoesOn ==
  ASSUME SessionInv, NEW c \in Addresses, NEW o \in ConnType,
         conn' = [conn EXCEPT ![c] = o],
         o.op = conn[c].op, o.txn = conn[c].txn, o.auto = conn[c].auto,
         conn[c].pc \notin {"create", "end"}, o.pc \notin {"create", "end"},
         UNCHANGED <<dbvars, maps, wire, lost>>, AtRightPlace(c)'
  PROVE  SessionInv'
  <1>1. LocalInv(c) /\ conn'[c] = o
    BY DEF SessionInv, LocalInv, TypeOK
  <1>2. HoldsProperly(c)'
    BY <1>1 DEF HoldsProperly, UsesEntry, LocalInv, dbvars, maps
  <1>3. CopyAwaited(c)'
    BY <1>1 DEF CopyAwaited, LeftBehind, LocalInv, maps
  <1>4. \A t : t \in Held(c)' <=> t \in Held(c)
    BY <1>1, HeldMembers DEF maps
  <1>5. OthersKept(c) /\ SessionsKept(c)
    BY MapsKept DEF SessionInv
  <1> QED  BY <1>2, <1>3, <1>4, <1>5, Passes

\* Nothing that SessionInv is about changes.
LEMMA Stutters ==
  SessionInv /\ UNCHANGED <<dbvars, maps, conn, wire, lost>> => SessionInv'
  <1> SUFFICES ASSUME SessionInv, UNCHANGED <<dbvars, maps, conn, wire, lost>>
               PROVE  SessionInv'
    OBVIOUS
  <1>1. TypeOK' /\ FatesDisjoint'
    BY DEF SessionInv, dbvars, maps, TypeOK, FatesDisjoint, Begun
  <1>2. \A c \in Addresses : Held(c)' = Held(c)
    BY DEF Held, maps
  <1>3. HeldApart' /\ NoneForgotten'
    BY <1>2 DEF SessionInv, HeldApart, NoneForgotten, dbvars
  <1>4. \A c \in Addresses : Held(c)' \subseteq Begun'
    BY <1>2 DEF SessionInv, Begun, dbvars
  <1>5. \A c \in Addresses : AtRightPlace(c)' /\ CopyAwaited(c)'
    BY DEF SessionInv, maps, AtRightPlace, CopyAwaited, LeftBehind
  <1>6. \A c \in Addresses : HoldsProperly(c)'
    BY DEF SessionInv, dbvars, maps, HoldsProperly, UsesEntry
  <1> QED  BY <1>1, <1>3, <1>4, <1>5, <1>6 DEF SessionInv

\* The steps of a thread between its locks (pg_wire.rs:546-558, database.rs:177-199).
LEMMA LockSteps ==
  ASSUME SessionInv, NEW c \in Addresses,
         \/ Enqueue(c) \/ ReadLock(c) \/ DropGuard(c)
         \/ ForeignKeyCheck(c) \/ ForeignKeyDone(c)
  PROVE  SessionInv'
  <1>0. TypeOK /\ AtRightPlace(c) /\ conn \in [Addresses -> ConnType]
    BY DEF SessionInv, TypeOK, ConnType
  <1>1. CASE Enqueue(c) \/ DropGuard(c)
    BY <1>1, Stutters DEF Enqueue, DropGuard
  <1>2. ASSUME NEW pc \in {"run", "foreign_key", "checked"}, Goto(c, pc),
               conn[c].pc \in {"read", "run", "foreign_key"},
               pc \in {"foreign_key", "checked"} => conn[c].op \in Guarded \cup {"copy_done"},
               UNCHANGED <<dbvars, maps, wire, lost>>
        PROVE  SessionInv'
    <2>1. PICK o : o = [conn[c] EXCEPT !.pc = pc]
      OBVIOUS
    <2>2. /\ o \in ConnType /\ o.pc = pc /\ o.op = conn[c].op /\ o.txn = conn[c].txn
          /\ o.auto = conn[c].auto
      BY <1>0, <1>2, <2>1 DEF ConnType, Pcs
    <2>3. conn' = [conn EXCEPT ![c] = o] /\ conn'[c] = o
      BY <1>0, <1>2, <2>1 DEF Goto, ConnType
    <2>4. AtRightPlace(c)'
      BY <1>0, <1>2, <2>2, <2>3
         DEF AtRightPlace, Statements, Guarded, Unguarded, CopyMessages
    <2> QED  BY <1>2, <2>2, <2>3, <2>4, GoesOn
  <1>3. CASE ReadLock(c)
    BY <1>2, <1>3 DEF ReadLock, At
  <1>4. CASE ForeignKeyCheck(c)
    BY <1>2, <1>4 DEF ForeignKeyCheck, At
  <1>5. CASE ForeignKeyDone(c)
    BY <1>0, <1>2, <1>5 DEF ForeignKeyDone, At, AtRightPlace
  <1> QED  BY <1>1, <1>3, <1>4, <1>5

\* The entry is taken out of the map to be ended.
LEMMA TakesOut ==
  ASSUME SessionInv, NEW c \in Addresses, NEW o \in ConnType,
         conn' = [conn EXCEPT ![c] = o],
         c \in DOMAIN active_transactions, o.txn = active_transactions[c],
         conn[c].txn \in {None, o.txn}, o.pc = "end", o.op = conn[c].op,
         conn[c].op \in Statements \cup {"commit", "rollback"},
         o.auto = FALSE, conn[c].pc = "lock",
         active_transactions' = TakeOut(c),
         UNCHANGED <<dbvars, copy_sessions, wire, lost>>
  PROVE  SessionInv'
  <1>1. TypeOK /\ LocalInv(c) /\ conn'[c] = o
    BY DEF SessionInv, LocalInv, TypeOK
  <1>2. /\ c \notin DOMAIN active_transactions'
        /\ \A d : d # c => (d \in DOMAIN active_transactions' <=> d \in DOMAIN active_transactions)
        /\ \A d \in DOMAIN active_transactions' : active_transactions'[d] = active_transactions[d]
    BY DEF TakeOut, Without, Restrict
  <1>3. OthersKept(c) /\ SessionsKept(c)
    BY <1>1, <1>2 DEF OthersKept, SessionsKept, TypeOK
  <1>4. o.txn \in active /\ None \notin active
    BY <1>1 DEF LocalInv, HoldsProperly, TypeOK, Begun, None
  <1>5. \A t : t \in Held(c)' <=> t \in Held(c)
    BY <1>1, <1>2, <1>4, HeldMembers
  <1>6. AtRightPlace(c)'
    BY <1>1 DEF AtRightPlace, Statements, Guarded, Unguarded
  <1>7. HoldsProperly(c)'
    BY <1>1, <1>2, <1>4
       DEF HoldsProperly, UsesEntry, LocalInv, Statements, Guarded, Unguarded, dbvars,
           CopyMessages, InTransaction
  <1>8. CopyAwaited(c)'
    BY <1>1 DEF CopyAwaited, LeftBehind, LocalInv
  <1> QED  BY <1>3, <1>5, <1>6, <1>7, <1>8, Passes

\* txn_lifecycle.lock() (pg_wire.rs:440-471, 500-525).
LEMMA LifecycleLockStep ==
  ASSUME SessionInv, NEW c \in Addresses, LifecycleLock(c)
  PROVE  SessionInv'
  <1>0. TypeOK /\ LocalInv(c) /\ conn \in [Addresses -> ConnType] /\ conn[c].pc = "lock"
        /\ UNCHANGED <<dbvars, copy_sessions, lost>>
    BY DEF SessionInv, LocalInv, TypeOK, ConnType, LifecycleLock, At
  <1>1. CASE conn[c].op = "begin" /\ Goto(c, "begin") /\ UNCHANGED <<active_transactions, wire>>
    <2>1. PICK o : o = [conn[c] EXCEPT !.pc = "begin"]
      OBVIOUS
    <2>2. /\ o \in ConnType /\ o.pc = "begin" /\ o.op = conn[c].op /\ o.txn = conn[c].txn
          /\ o.auto = conn[c].auto
      BY <1>0, <2>1 DEF ConnType, Pcs, WritePcs
    <2>3. conn' = [conn EXCEPT ![c] = o] /\ conn'[c] = o
      BY <1>0, <1>1, <2>1 DEF Goto, ConnType
    <2>4. AtRightPlace(c)'
      BY <1>0, <1>1, <2>2, <2>3 DEF AtRightPlace, LocalInv, Statements, Guarded, Unguarded
    <2> QED  BY <1>0, <1>1, <2>2, <2>3, <2>4, GoesOn DEF maps
  <1>2. CASE /\ conn[c].op \in Statements /\ Goto(c, "end")
             /\ active_transactions' = TakeOut(c) /\ UNCHANGED wire
    <2>1. PICK o : o = [conn[c] EXCEPT !.pc = "end"]
      OBVIOUS
    <2>2. /\ o \in ConnType /\ o.pc = "end" /\ o.op = conn[c].op /\ o.txn = conn[c].txn
          /\ o.auto = conn[c].auto
      BY <1>0, <2>1 DEF ConnType, Pcs, WritePcs
    <2>3. conn' = [conn EXCEPT ![c] = o]
      BY <1>0, <1>2, <2>1 DEF Goto, ConnType
    <2>4. conn[c].auto = FALSE /\ UsesEntry(c)
      BY <1>0, <1>2 DEF LocalInv, AtRightPlace, HoldsProperly, InTransaction, ConnType
    <2> QED  BY <1>0, <1>2, <2>2, <2>3, <2>4, TakesOut DEF UsesEntry
  <1>3. CASE /\ conn[c].op \in {"commit", "rollback"} /\ c \in DOMAIN active_transactions
             /\ conn' = [conn EXCEPT ![c].pc = "end", ![c].txn = active_transactions[c]]
             /\ active_transactions' = TakeOut(c) /\ UNCHANGED wire
    <2>0. active_transactions[c] \in Nat
      BY <1>0, <1>3 DEF LocalInv, HoldsProperly, TypeOK, Begun
    <2>1. PICK o : o = [conn[c] EXCEPT !.pc = "end", !.txn = active_transactions[c]]
      OBVIOUS
    <2>2. /\ o \in ConnType /\ o.pc = "end" /\ o.op = conn[c].op
          /\ o.txn = active_transactions[c] /\ o.auto = conn[c].auto
      BY <1>0, <2>0, <2>1 DEF ConnType, Pcs, WritePcs
    <2>3. conn' = [conn EXCEPT ![c] = o]
      BY <1>0, <1>3, <2>1 DEF ConnType
    <2>4. conn[c].auto = FALSE /\ conn[c].txn = None
      BY <1>0, <1>3 DEF LocalInv, AtRightPlace, ConnType
    <2> QED  BY <1>0, <1>3, <2>2, <2>3, <2>4, TakesOut
  <1>4. CASE /\ conn[c].op \in {"commit", "rollback"} /\ Answer(c, FALSE)
             /\ UNCHANGED active_transactions
    <2>1. conn[c].txn = None /\ None \notin active
      BY <1>0, <1>4 DEF LocalInv, AtRightPlace, TypeOK, Begun, None
    <2> QED  BY <1>0, <1>4, <2>1, PlainAnswer DEF maps
  <1> QED  BY <1>1, <1>2, <1>3, <1>4 DEF LifecycleLock

\* A begin uses a fresh transaction id.
LEMMA FreshId ==
  ASSUME TypeOK, create_transaction
  PROVE  /\ next_transaction_id \in Nat /\ next_transaction_id # None
         /\ Begun' = Begun \cup {next_transaction_id} /\ next_transaction_id \notin Begun
         /\ active' = active \cup {next_transaction_id}
  <1>1. /\ next_transaction_id \in Nat \ {0}
        /\ next_transaction_id' = next_transaction_id + 1
    BY DEF TypeOK, create_transaction
  <1>2. Begun' = Begun \cup {next_transaction_id} /\ next_transaction_id \notin Begun
    BY <1>1 DEF Begun
  <1> QED  BY <1>1, <1>2 DEF create_transaction, None

\* BEGIN (pg_wire.rs:414-431).
LEMMA BeginTransactionStep ==
  ASSUME SessionInv, NEW c \in Addresses, BeginTransaction(c)
  PROVE  SessionInv'
  <1> DEFINE f == next_transaction_id
  <1>0. TypeOK /\ LocalInv(c) /\ conn[c].pc = "begin"
    BY DEF SessionInv, LocalInv, BeginTransaction, Writing, At
  <1>1. /\ create_transaction /\ Answer(c, TRUE)
        /\ active_transactions' = Put(active_transactions, c, f)
        /\ UNCHANGED <<copy_sessions, lost>>
    BY DEF BeginTransaction
  <1>2. /\ f # None /\ Begun' = Begun \cup {f} /\ f \notin Begun
        /\ active' = active \cup {f} /\ active \subseteq Begun
    BY <1>0, <1>1, FreshId DEF TypeOK
  <1>3. /\ conn[c].op = "begin" /\ conn[c].txn = None
        /\ c \notin DOMAIN active_transactions
    BY <1>0 DEF LocalInv, AtRightPlace, HoldsProperly
  <1>4. /\ c \in DOMAIN active_transactions' /\ active_transactions'[c] = f
        /\ \A d : d # c => (d \in DOMAIN active_transactions' <=> d \in DOMAIN active_transactions)
        /\ \A d \in DOMAIN active_transactions :
              d # c => active_transactions'[d] = active_transactions[d]
    BY <1>1 DEF Put
  <1>5. conn'[c] = Idle /\ Idle.txn = None /\ Idle.pc = "idle" /\ Idle.op = "none"
        /\ Idle.auto = FALSE
    BY <1>0, <1>1, AnswerFacts DEF LocalInv, Idle
  <1>6. OthersKept(c)
    BY <1>0, <1>4 DEF OthersKept, TypeOK
  <1>7. Held(c)' \subseteq Held(c) \cup {f} /\ f \in Held(c)' /\ Held(c) \subseteq Held(c)'
    BY <1>1, <1>3, <1>4, <1>5, HeldMembers
  <1>8. Held(c) \subseteq Begun
    BY <1>0 DEF LocalInv
  <1>9. c \in DOMAIN copy_sessions => copy_sessions[c].txn \in Begun /\ copy_sessions[c].txn # None
    BY <1>8, HeldMembers DEF Begun, None
  <1>10. HoldsProperly(c)'
    BY <1>0, <1>1, <1>2, <1>3, <1>4, <1>5, <1>9
       DEF HoldsProperly, LocalInv, InTransaction, Statements, Guarded, Unguarded, CopyMessages
  <1>11. DbStep(Held(c))
    BY <1>1 DEF DbStep
  <1> QED  BY <1>1, <1>2, <1>6, <1>7, <1>8, <1>10, <1>11, Answers

\* A thread ends the transaction it holds alone and answers.
LEMMA Ends ==
  ASSUME SessionInv, NEW c \in Addresses, NEW ok \in BOOLEAN, NEW b \in BOOLEAN,
         EndTransaction(conn[c].txn, b), Answer(c, ok),
         conn[c].pc \in {"end", "finish"}, UNCHANGED <<maps, lost>>
  PROVE  SessionInv'
  <1> DEFINE t == conn[c].txn
  <1>0. TypeOK /\ LocalInv(c) /\ FatesDisjoint
    BY DEF SessionInv, LocalInv
  <1>1. /\ t \in active /\ t # None
        /\ c \in DOMAIN active_transactions => active_transactions[c] # t
        /\ c \in DOMAIN copy_sessions /\ copy_sessions[c].auto => copy_sessions[c].txn # t
    BY <1>0 DEF LocalInv, AtRightPlace, HoldsProperly, TypeOK, Begun, None
  <1>2. t \in Held(c) /\ Held(c) \subseteq Begun
    BY <1>0, <1>1, HeldMembers DEF LocalInv
  <1>3. DbStep(Held(c)) /\ active' = active \ {t} /\ Begun' = Begun
    BY <1>1, <1>2 DEF DbStep, EndTransaction, Begun
  <1>4. conn'[c] = Idle /\ Idle.txn = None /\ Idle.pc = "idle" /\ Idle.op = "none"
        /\ Idle.auto = FALSE
    BY <1>0, AnswerFacts DEF LocalInv, Idle
  <1>5. OthersKept(c) /\ copy_sessions' = copy_sessions
        /\ active_transactions' = active_transactions
    BY <1>0, MapsKept DEF maps
  <1>6. /\ Held(c)' \subseteq Held(c)
        /\ \A u \in active' : u \in Held(c) => u \in Held(c)'
    BY <1>3, <1>4, <1>5, HeldMembers
  <1>7. None \notin active
    BY <1>0 DEF TypeOK, Begun, None
  <1>8. HoldsProperly(c)'
    BY <1>0, <1>1, <1>3, <1>4, <1>5, <1>7
       DEF HoldsProperly, LocalInv, InTransaction, Statements, Guarded, Unguarded, CopyMessages
  <1> QED  BY <1>2, <1>3, <1>5, <1>6, <1>8, Answers

\* COMMIT, ROLLBACK and the end of a statement (pg_wire.rs:508-525, 1132-1174).
LEMMA EndSteps ==
  ASSUME SessionInv, NEW c \in Addresses, EndConnectionTransaction(c) \/ FinishAuto(c)
  PROVE  SessionInv'
  <1>1. CASE EndConnectionTransaction(c)
    <2>1. PICK b \in BOOLEAN : b <=> conn[c].op = "commit"
      OBVIOUS
    <2>2. PICK ok \in BOOLEAN : ok <=> conn[c].op \in {"commit", "rollback"}
      OBVIOUS
    <2>3. EndTransaction(conn[c].txn, b)
      BY <1>1, <2>1 DEF EndConnectionTransaction, EndTransaction
    <2>4. Answer(c, ok)
      BY <1>1, <2>2 DEF EndConnectionTransaction, Answer
    <2> QED  BY <1>1, <2>3, <2>4, Ends DEF EndConnectionTransaction, Writing, At
  <1>2. CASE FinishAuto(c)
    <2>1. conn[c].ok \in BOOLEAN
      BY DEF SessionInv, TypeOK
    <2> QED  BY <1>2, <2>1, Ends DEF FinishAuto, Writing, At
  <1> QED  BY <1>1, <1>2

\* A transaction of its own for a statement or a COPY (pg_wire.rs:480-491, 573-584).
LEMMA CreateAutoStep ==
  ASSUME SessionInv, NEW c \in Addresses, CreateAuto(c)
  PROVE  SessionInv'
  <1> DEFINE f == next_transaction_id
  <1>0. /\ TypeOK /\ LocalInv(c) /\ conn \in [Addresses -> ConnType]
        /\ conn[c].pc = "create" /\ create_transaction
        /\ UNCHANGED <<maps, wire, lost>>
    BY DEF SessionInv, LocalInv, TypeOK, ConnType, CreateAuto, Writing, At
  <1>1. /\ f # None /\ f \in Nat /\ Begun' = Begun \cup {f} /\ f \notin Begun
        /\ active' = active \cup {f} /\ active \subseteq Begun
    BY <1>0, FreshId DEF TypeOK
  <1>2. conn[c].op \in InTransaction /\ conn[c].txn = None
    BY <1>0 DEF LocalInv, AtRightPlace
  <1>3. PICK o : o = [conn[c] EXCEPT !.pc = Use(conn[c].op), !.auto = TRUE, !.txn = f]
    OBVIOUS
  <1>4. /\ o \in ConnType /\ o.pc = Use(conn[c].op) /\ o.op = conn[c].op
        /\ o.auto = TRUE /\ o.txn = f
    BY <1>0, <1>1, <1>3 DEF ConnType, Use, Pcs, WritePcs
  <1>5. conn' = [conn EXCEPT ![c] = o]
    BY <1>0, <1>3 DEF CreateAuto, ConnType
  <1>6. conn'[c] = o /\ conn' \in [Addresses -> ConnType]
        /\ \A d \in Addresses \ {c} : conn'[d] = conn[d]
    BY <1>0, <1>4, <1>5
  <1>7. \A d \in Addresses \ {c} : Same(d)
    BY <1>0, <1>6 DEF Same, maps
  <1>8. DbStep(Held(c))
    BY <1>0 DEF DbStep
  <1>9. TypeOK'
    BY <1>0, <1>6, <1>8, DbFacts DEF SessionInv, TypeOK, ConnType, maps
  <1>10. Held(c) \subseteq Begun /\ Held(c)' \subseteq Held(c) \cup {f}
         /\ f \in Held(c)' /\ Held(c) \subseteq Held(c)'
    BY <1>0, <1>1, <1>2, <1>4, <1>6, HeldMembers DEF LocalInv, maps
  <1>11. AtRightPlace(c)'
    BY <1>2, <1>4, <1>6
       DEF AtRightPlace, Use, InTransaction, Statements, Guarded, Unguarded
  <1>12. /\ c \in DOMAIN copy_sessions => copy_sessions[c].txn \in Begun
         /\ c \in DOMAIN active_transactions => active_transactions[c] \in Begun
    BY <1>10, HeldMembers
  <1>13. HoldsProperly(c)'
    BY <1>0, <1>1, <1>2, <1>4, <1>6, <1>12
       DEF HoldsProperly, LocalInv, Use, InTransaction, Statements, Guarded, Unguarded,
           CopyMessages, maps
  <1>14. CopyAwaited(c)'
    BY <1>0, <1>4, <1>6 DEF CopyAwaited, LeftBehind, LocalInv, maps
  <1>15. LocalInv(c)'
    BY <1>1, <1>10, <1>11, <1>13, <1>14 DEF LocalInv
  <1> QED  BY <1>0, <1>1, <1>7, <1>8, <1>9, <1>10, <1>15, Frame

\* The thread of c moves to pc with an outcome, in the same transaction.
LEMMA Concludes ==
  ASSUME SessionInv, NEW c \in Addresses, NEW pc \in {"finish", "lock", "copied"},
         NEW ok \in BOOLEAN,
         conn' = [conn EXCEPT ![c].pc = pc, ![c].ok = ok],
         conn[c].pc \in {"run", "checked", "ddl", "copied"},
         pc = "finish" => conn[c].auto,
         pc = "lock" => ~conn[c].auto /\ conn[c].op \in Statements,
         pc = "copied" => conn[c].op \in CopyMessages,
         UNCHANGED <<dbvars, maps, wire, lost>>
  PROVE  SessionInv'
  <1>0. AtRightPlace(c) /\ conn \in [Addresses -> ConnType]
    BY DEF SessionInv, TypeOK, ConnType
  <1>1. PICK o : o = [conn[c] EXCEPT !.pc = pc, !.ok = ok]
    OBVIOUS
  <1>2. /\ o \in ConnType /\ o.pc = pc /\ o.op = conn[c].op /\ o.txn = conn[c].txn
        /\ o.auto = conn[c].auto
    BY <1>0, <1>1 DEF ConnType, Pcs, WritePcs
  <1>3. conn' = [conn EXCEPT ![c] = o] /\ conn'[c] = o
    BY <1>0, <1>1 DEF ConnType
  <1>4. AtRightPlace(c)'
    BY <1>0, <1>2, <1>3
       DEF AtRightPlace, Statements, Guarded, Unguarded, InTransaction, CopyMessages
  <1> QED  BY <1>2, <1>3, <1>4, GoesOn

\* A statement returns (pg_wire.rs:500-525), and so do CREATE and DROP TABLE.
LEMMA StatementSteps ==
  ASSUME SessionInv, NEW c \in Addresses, EndStatement(c) \/ Ddl(c)
  PROVE  SessionInv'
  <1>0. TypeOK /\ LocalInv(c) /\ None \notin active
    BY DEF SessionInv, LocalInv, TypeOK, Begun, None
  <1>1. CASE EndStatement(c)
    <2>1. PICK ok \in BOOLEAN : AfterStatement(c, ok)
      BY <1>1 DEF EndStatement
    <2>2. /\ UNCHANGED <<dbvars, maps, lost>> /\ conn[c].op \in Statements
          /\ conn[c].pc \in {"run", "checked"}
      BY <1>1 DEF EndStatement, Running
    <2>3. CASE conn[c].auto
      BY <2>1, <2>2, <2>3, Concludes DEF AfterStatement
    <2>4. CASE ~conn[c].auto /\ ok
      <3>1. UsesEntry(c)
        BY <1>0, <2>2, <2>4 DEF LocalInv, HoldsProperly, InTransaction
      <3> QED  BY <2>1, <2>2, <2>4, <3>1, PlainAnswer DEF AfterStatement
    <2>5. CASE ~conn[c].auto /\ ~ok
      BY <2>1, <2>2, <2>5, Concludes DEF AfterStatement
    <2> QED  BY <2>3, <2>4, <2>5
  <1>2. CASE Ddl(c)
    <2>1. PICK ok \in BOOLEAN :
             IF conn[c].auto
             THEN conn' = [conn EXCEPT ![c].pc = "finish", ![c].ok = ok] /\ UNCHANGED wire
             ELSE Answer(c, ok)
      BY <1>2 DEF Ddl
    <2>2. UNCHANGED <<dbvars, maps, lost>> /\ conn[c].pc = "ddl"
      BY <1>2 DEF Ddl, Writing, At
    <2>3. CASE conn[c].auto
      BY <2>1, <2>2, <2>3, Concludes
    <2>4. CASE ~conn[c].auto
      <3>1. conn[c].txn \in active => UsesEntry(c)
        BY <1>0, <2>2, <2>4 DEF LocalInv, AtRightPlace, HoldsProperly, InTransaction
      <3> QED  BY <2>1, <2>2, <2>4, <3>1, PlainAnswer
    <2> QED  BY <2>3, <2>4
  <1> QED  BY <1>1, <1>2

\* The steps of a COPY that keep or finish its session (pg_wire.rs:586-602, 1374-1400, 1656-1714).
LEMMA CopySteps ==
  ASSUME SessionInv, NEW c \in Addresses,
         CopyInFails(c) \/ CopyRows(c) \/ finish_copy_transaction(c)
  PROVE  SessionInv'
  <1>0. TypeOK /\ LocalInv(c) /\ conn \in [Addresses -> ConnType]
    BY DEF SessionInv, LocalInv, TypeOK, ConnType
  <1>1. CASE CopyInFails(c)
    <2>1. /\ conn[c].pc = "run" /\ conn[c].op = "copy_in" /\ Answer(c, FALSE)
          /\ lost' = IF conn[c].auto THEN lost \cup {conn[c].txn} ELSE lost
          /\ UNCHANGED <<dbvars, maps>>
      BY <1>1 DEF CopyInFails, At
    <2>2. UsesEntry(c) \/ conn[c].txn \in lost'
      BY <1>0, <2>1 DEF LocalInv, HoldsProperly, InTransaction
    <2>3. lost \subseteq lost'
      BY <2>1
    <2> QED  BY <2>1, <2>2, <2>3, PlainAnswer
  <1>2. CASE CopyRows(c)
    <2>1. PICK ok \in BOOLEAN : conn' = [conn EXCEPT ![c].pc = "copied", ![c].ok = ok]
      BY <1>2 DEF CopyRows
    <2> QED  BY <1>2, <2>1, Concludes DEF CopyRows, Running, CopyMessages
  <1>3. CASE finish_copy_transaction(c)
    <2>1. UNCHANGED <<dbvars, maps, lost>> /\ conn[c].pc = "copied"
          /\ conn[c].ok \in BOOLEAN /\ conn[c].op \in CopyMessages
      BY <1>0, <1>3 DEF finish_copy_transaction, At, LocalInv, AtRightPlace, ConnType
    <2>2. CASE conn[c].auto
      <3>1. conn' = [conn EXCEPT ![c].pc = "finish"] /\ UNCHANGED wire
        BY <1>3, <2>2 DEF finish_copy_transaction, Goto
      <3>2. conn' = [conn EXCEPT ![c].pc = "finish", ![c].ok = conn[c].ok]
        BY <1>0, <3>1 DEF ConnType
      <3> QED  BY <2>1, <2>2, <3>1, <3>2, Concludes
    <2>3. CASE ~conn[c].auto
      <3>1. Answer(c, conn[c].ok)
        BY <1>3, <2>3 DEF finish_copy_transaction
      <3>2. conn[c].txn \in active => UsesEntry(c)
        BY <1>0, <2>1, <2>3 DEF LocalInv, HoldsProperly
      <3> QED  BY <2>1, <3>1, <3>2, PlainAnswer
    <2> QED  BY <2>2, <2>3
  <1> QED  BY <1>1, <1>2, <1>3

\* COPY FROM STDIN begins: its transaction passes from the thread to a session,
\* and that of a session it replaces is dropped on record (pg_wire.rs:1403-1413).
LEMMA CopyInStartsStep ==
  ASSUME SessionInv, NEW c \in Addresses, CopyInStarts(c)
  PROVE  SessionInv'
  <1> DEFINE s == [txn |-> conn[c].txn, auto |-> conn[c].auto]
  <1>0. /\ TypeOK /\ LocalInv(c) /\ conn \in [Addresses -> ConnType]
        /\ wire \in [Addresses -> WireType] /\ None \notin active
    BY DEF SessionInv, LocalInv, TypeOK, ConnType, WireType, Begun, None
  <1>1. /\ conn[c].pc = "run" /\ conn[c].op = "copy_in"
        /\ copy_sessions' = Put(copy_sessions, c, s) /\ lost' = lost \cup LeftBehind(c)
        /\ conn' = [conn EXCEPT ![c] = Idle]
        /\ wire' = [wire EXCEPT ![c] = [state |-> "batch", copy_in |-> TRUE]]
        /\ UNCHANGED <<dbvars, active_transactions>>
    BY DEF CopyInStarts, At
  <1>2. s \in [txn : Nat, auto : BOOLEAN] /\ s.txn = conn[c].txn /\ s.auto = conn[c].auto
    BY <1>0 DEF ConnType
  <1> HIDE DEF s
  <1>3. Idle \in ConnType /\ Idle.txn = None /\ Idle.pc = "idle" /\ Idle.op = "none"
        /\ Idle.auto = FALSE
    BY DEF Idle, ConnType, Pcs, Ops, None
  <1>4. /\ conn' \in [Addresses -> ConnType] /\ conn'[c] = Idle
        /\ wire' \in [Addresses -> WireType]
        /\ wire'[c].state = "batch" /\ wire'[c].copy_in = TRUE
        /\ \A d \in Addresses \ {c} : conn'[d] = conn[d] /\ wire'[d] = wire[d]
    BY <1>0, <1>1, <1>3 DEF WireType
  <1>5. /\ DOMAIN copy_sessions' = DOMAIN copy_sessions \cup {c} /\ copy_sessions'[c] = s
        /\ \A d \in DOMAIN copy_sessions : d # c => copy_sessions'[d] = copy_sessions[d]
    BY <1>1 DEF Put
  <1>6. active' = active /\ Begun' = Begun /\ DbStep(Held(c)) /\ lost \subseteq lost'
    BY <1>1 DEF dbvars, Begun, DbStep
  <1>7. TypeOK'
    <2>1. next_transaction_id' = next_transaction_id
      BY <1>1 DEF dbvars
    <2>2. \A d \in DOMAIN copy_sessions' : copy_sessions'[d] \in [txn : Nat, auto : BOOLEAN]
      BY <1>0, <1>2, <1>5 DEF TypeOK
    <2> QED
      BY <1>0, <1>1, <1>4, <1>5, <1>6, <2>1, <2>2 DEF TypeOK, ConnType, WireType
  <1>8. \A d \in Addresses \ {c} : Same(d)
    BY <1>1, <1>4, <1>5 DEF Same
  <1>9. /\ conn[c].txn \in active
        /\ ~conn[c].auto => UsesEntry(c)
    BY <1>0, <1>1 DEF LocalInv, HoldsProperly, InTransaction, UsesEntry
  <1>10. Held(c)' \subseteq Held(c) /\ Held(c) \subseteq Begun
    BY <1>0, <1>1, <1>2, <1>3, <1>4, <1>5, <1>9, HeldMembers DEF LocalInv
  <1>11. \A t \in active' : t \in Held(c) => t \in Held(c)' \cup lost'
    <2> SUFFICES ASSUME NEW t \in active, t \in Held(c) PROVE t \in Held(c)' \cup lost'
      BY <1>6
    <2>1. CASE c \in DOMAIN active_transactions /\ t = active_transactions[c]
      BY <1>1, <2>1, HeldMembers
    <2>2. CASE t = conn[c].txn
      BY <1>2, <1>5, <2>2, HeldMembers
    <2>3. CASE c \in DOMAIN copy_sessions /\ t = copy_sessions[c].txn
      <3>1. CASE copy_sessions[c].auto
        BY <1>1, <2>3, <3>1 DEF LeftBehind
      <3>2. CASE ~copy_sessions[c].auto
        BY <1>0, <1>1, <2>1, <2>3, <3>2 DEF LocalInv, HoldsProperly
      <3> QED  BY <3>1, <3>2
    <2> QED  BY <2>1, <2>2, <2>3, HeldMembers
  <1>12. HoldsProperly(c)'
    BY <1>0, <1>1, <1>2, <1>3, <1>4, <1>5, <1>6, <1>9
       DEF HoldsProperly, UsesEntry, LocalInv, InTransaction, Statements, Guarded, Unguarded,
           CopyMessages
  <1>13. AtRightPlace(c)' /\ CopyAwaited(c)'
    BY <1>3, <1>4, <1>5 DEF AtRightPlace, CopyAwaited
  <1>14. LocalInv(c)'
    BY <1>6, <1>10, <1>12, <1>13 DEF LocalInv
  <1> QED  BY <1>6, <1>7, <1>8, <1>10, <1>11, <1>14, Frame

\* CopyDone or CopyFail arrives: the session's transaction passes to the thread
\* (pg_wire.rs:1716-1731).
LEMMA CopyMessageStep ==
  ASSUME SessionInv, NEW c \in Addresses, CopyMessage(c)
  PROVE  SessionInv'
  <1> DEFINE s == copy_sessions[c]
             with(pc, op) == [pc |-> pc, op |-> op, txn |-> s.txn,
                              auto |-> s.auto, ok |-> FALSE]
  <1>0. /\ TypeOK /\ LocalInv(c) /\ conn \in [Addresses -> ConnType] /\ None \notin active
    BY DEF SessionInv, LocalInv, TypeOK, ConnType, Begun, None
  <1>1. /\ conn[c].pc = "idle" /\ c \in DOMAIN copy_sessions
        /\ copy_sessions' = Without(copy_sessions, c)
        /\ \/ conn' = [conn EXCEPT ![c] = with("read", "copy_done")]
           \/ \E op \in CopyMessages : conn' = [conn EXCEPT ![c] = with("copied", op)]
        /\ UNCHANGED <<dbvars, active_transactions, wire, lost>>
    BY DEF CopyMessage, Receive, At
  <1>2. PICK o : /\ conn' = [conn EXCEPT ![c] = o]
                 /\ \/ o = with("read", "copy_done")
                    \/ \E op \in CopyMessages : o = with("copied", op)
    BY <1>1
  <1>3. s \in [txn : Nat, auto : BOOLEAN]
    BY <1>0, <1>1 DEF TypeOK
  <1>4. /\ o \in ConnType /\ o.txn = s.txn /\ o.auto = s.auto /\ o.op \in CopyMessages
        /\ o.pc \in {"read", "copied"} /\ (o.pc = "read" => o.op = "copy_done")
    <2>1. PICK pc \in {"read", "copied"}, op \in CopyMessages :
             o = with(pc, op) /\ (pc = "read" => op = "copy_done")
      BY <1>2 DEF CopyMessages
    <2>2. o.pc = pc /\ o.op = op /\ o.txn = s.txn /\ o.auto = s.auto
      BY <2>1
    <2>3. s.txn \in Nat /\ s.auto \in BOOLEAN
      BY <1>3
    <2>4. pc \in Pcs /\ op \in Ops
      BY <2>1 DEF Pcs, Ops
    <2>5. o \in ConnType
      BY <2>1, <2>3, <2>4 DEF ConnType
    <2> QED  BY <2>1, <2>2, <2>5
  <1> HIDE DEF s, with
  <1>5. conn'[c] = o /\ conn[c] = Idle /\ Idle.txn = None
    BY <1>0, <1>1, <1>2 DEF LocalInv, AtRightPlace, Idle
  <1>6. /\ c \notin DOMAIN copy_sessions'
        /\ \A d : d # c => (d \in DOMAIN copy_sessions' <=> d \in DOMAIN copy_sessions)
        /\ \A d \in DOMAIN copy_sessions' : copy_sessions'[d] = copy_sessions[d]
    BY <1>1 DEF Without, Restrict
  <1>7. OthersKept(c) /\ SessionsKept(c)
    BY <1>0, <1>1, <1>6 DEF OthersKept, SessionsKept, TypeOK
  <1>8. s.txn # None
    BY <1>0, <1>1, HeldMembers DEF LocalInv, Begun, None, s
  <1>9. \A t : t \in Held(c)' <=> t \in Held(c)
    BY <1>1, <1>4, <1>5, <1>6, <1>8, HeldMembers DEF s
  <1>10. AtRightPlace(c)'
    BY <1>4, <1>5 DEF AtRightPlace, CopyMessages, Statements, Guarded, Unguarded
  <1>11. HoldsProperly(c)'
    BY <1>0, <1>1, <1>4, <1>5, <1>6
       DEF HoldsProperly, UsesEntry, LocalInv, InTransaction, Statements, Guarded, Unguarded,
           CopyMessages, Idle, dbvars, s
  <1>12. CopyAwaited(c)'
    BY <1>0, <1>1, <1>4, <1>5, <1>6 DEF CopyAwaited, LeftBehind, LocalInv
  <1> QED  BY <1>1, <1>2, <1>4, <1>7, <1>9, <1>10, <1>11, <1>12, Passes

\* The batch ends, or the address reconnects (pg_wire.rs:1761-1783).
LEMMA WireSteps ==
  ASSUME SessionInv, NEW c \in Addresses, EndBatch(c) \/ Reconnect(c)
  PROVE  SessionInv'
  <1>0. /\ TypeOK /\ LocalInv(c) /\ wire \in [Addresses -> WireType]
        /\ UNCHANGED <<dbvars, maps, conn>> /\ lost \subseteq lost'
    BY DEF SessionInv, LocalInv, TypeOK, WireType, EndBatch, Reconnect
  <1>1. PICK w \in WireType : /\ wire' = [wire EXCEPT ![c] = w]
                              /\ w.copy_in => wire[c].copy_in
                              /\ w.state = "copy" => w.copy_in
                              /\ w.copy_in = wire[c].copy_in \/ LeftBehind(c) \subseteq lost'
    <2>1. CASE EndBatch(c)
      <3>1. wire' = [wire EXCEPT ![c] = [wire[c] EXCEPT !.state = AfterBatch(c)]]
        BY <1>0, <2>1 DEF EndBatch, WireType
      <3>2. /\ [wire[c] EXCEPT !.state = AfterBatch(c)] \in WireType
            /\ [wire[c] EXCEPT !.state = AfterBatch(c)].copy_in = wire[c].copy_in
            /\ [wire[c] EXCEPT !.state = AfterBatch(c)].state = "copy" => wire[c].copy_in
        BY <1>0 DEF AfterBatch, WireType
      <3> QED  BY <3>1, <3>2
    <2>2. CASE Reconnect(c)
      <3>1. PICK w : w = [state |-> "ready", copy_in |-> FALSE]
        OBVIOUS
      <3>2. w \in WireType /\ w.copy_in = FALSE /\ w.state = "ready"
        BY <3>1 DEF WireType
      <3>3. wire' = [wire EXCEPT ![c] = w] /\ LeftBehind(c) \subseteq lost'
        BY <2>2, <3>1 DEF Reconnect
      <3> QED  BY <3>2, <3>3
    <2> QED  BY <2>1, <2>2
  <1>2. /\ wire' \in [Addresses -> WireType] /\ wire'[c] = w
        /\ \A d \in Addresses \ {c} : wire'[d] = wire[d]
    BY <1>0, <1>1
  <1>3. \A d \in Addresses \ {c} : Same(d)
    BY <1>0, <1>2 DEF Same, maps
  <1>4. Begun' = Begun /\ DbStep(Held(c)) /\ lost \subseteq lost' /\ active' = active
    BY <1>0 DEF dbvars, Begun, DbStep
  <1>5. TypeOK'
    BY <1>0, <1>2, <1>4 DEF TypeOK, WireType, dbvars, maps
  <1>6. \A t : t \in Held(c)' <=> t \in Held(c)
    BY <1>0, HeldMembers DEF maps
  <1>7. AtRightPlace(c)' /\ HoldsProperly(c)'
    BY <1>0, <1>4 DEF AtRightPlace, HoldsProperly, UsesEntry, LocalInv, maps
  <1>8. CopyAwaited(c)'
    <2>1. LeftBehind(c)' = LeftBehind(c)
      BY <1>0 DEF LeftBehind, maps
    <2> QED  BY <1>0, <1>1, <1>2, <2>1 DEF CopyAwaited, LocalInv, maps
  <1>9. LocalInv(c)'
    BY <1>0, <1>4, <1>6, <1>7, <1>8 DEF LocalInv
  <1> QED  BY <1>3, <1>4, <1>5, <1>6, <1>9, Frame

\* A request arrives: the thread takes up the open transaction or none.
LEMMA TakesUp ==
  ASSUME SessionInv, NEW c \in Addresses, NEW o \in ConnType,
         conn' = [conn EXCEPT ![c] = o], conn[c].pc = "idle",
         UNCHANGED <<dbvars, maps, wire, lost>>,
         o.op \notin CopyMessages, o.pc # "end", o.op = "begin" => c \notin DOMAIN active_transactions,
         \/ o.txn = None /\ (o.auto => o.pc = "create")
            /\ (o.op \in InTransaction => o.auto)
         \/ /\ c \in DOMAIN active_transactions /\ o.txn = active_transactions[c]
            /\ ~o.auto,
         AtRightPlace(c)'
  PROVE  SessionInv'
  <1>0. /\ TypeOK /\ LocalInv(c) /\ None \notin active
        /\ conn'[c] = o /\ conn[c] = Idle /\ Idle.txn = None
    BY DEF SessionInv, LocalInv, TypeOK, AtRightPlace, Idle, Begun, None
  <1>1. \A t : t \in Held(c)' <=> t \in Held(c)
    <2>1. c \in DOMAIN active_transactions => active_transactions[c] # None
      BY <1>0 DEF LocalInv, HoldsProperly
    <2> QED  BY <1>0, <2>1, HeldMembers DEF maps
  <1>2. OthersKept(c) /\ SessionsKept(c)
    BY <1>0, MapsKept
  <1>3. HoldsProperly(c)'
    BY <1>0 DEF HoldsProperly, UsesEntry, LocalInv, maps, dbvars, Idle
  <1>4. CopyAwaited(c)'
    BY <1>0 DEF CopyAwaited, LeftBehind, LocalInv, maps, Idle, CopyMessages
  <1> QED  BY <1>1, <1>2, <1>3, <1>4, Passes

\* The requests that take no COPY data (pg_wire.rs:480-491, 1037-1160).
LEMMA RequestSteps ==
  ASSUME SessionInv, NEW c \in Addresses,
         Begin(c) \/ CommitOrRollback(c) \/ Statement(c) \/ DropTable(c)
  PROVE  SessionInv'
  <1>0. /\ TypeOK /\ LocalInv(c) /\ conn \in [Addresses -> ConnType] /\ None \notin active
    BY DEF SessionInv, LocalInv, TypeOK, ConnType, Begun, None
  <1>1. /\ conn[c].pc = "idle" /\ UNCHANGED <<dbvars, maps, lost>>
    BY DEF Begin, CommitOrRollback, Statement, DropTable, Receive, At
  <1>2. conn[c] = Idle /\ Idle.txn = None /\ Idle.auto = FALSE
    BY <1>0, <1>1 DEF LocalInv, AtRightPlace, Idle
  <1>3. CASE Begin(c) /\ c \in DOMAIN active_transactions
    <2>1. Answer(c, FALSE)
      BY <1>3 DEF Begin
    <2> QED  BY <1>0, <1>1, <1>2, <2>1, PlainAnswer
  <1>4. ASSUME NEW op \in {"begin", "commit", "rollback", "drop_table"},
               NEW pc \in {"lock", "ddl"},
               conn' = [conn EXCEPT ![c].pc = pc, ![c].op = op], UNCHANGED wire,
               op = "begin" => c \notin DOMAIN active_transactions,
               (pc = "ddl") <=> (op = "drop_table")
        PROVE  SessionInv'
    <2>1. PICK o : o = [conn[c] EXCEPT !.pc = pc, !.op = op]
      OBVIOUS
    <2>2. /\ o \in ConnType /\ o.pc = pc /\ o.op = op /\ o.txn = None /\ o.auto = FALSE
      BY <1>0, <1>2, <2>1 DEF ConnType, Pcs, Ops, WritePcs
    <2>3. conn' = [conn EXCEPT ![c] = o] /\ conn'[c] = o
      BY <1>0, <1>4, <2>1 DEF ConnType
    <2>4. AtRightPlace(c)'
      BY <1>4, <2>2, <2>3 DEF AtRightPlace
    <2>5. op \notin CopyMessages /\ op \notin InTransaction
      BY DEF CopyMessages, InTransaction, Statements, Guarded, Unguarded
    <2> QED  BY <1>1, <1>4, <2>2, <2>3, <2>4, <2>5, TakesUp
  <1>5. CASE Begin(c) /\ c \notin DOMAIN active_transactions
    BY <1>4, <1>5 DEF Begin
  <1>6. CASE CommitOrRollback(c)
    BY <1>4, <1>6 DEF CommitOrRollback
  <1>7. CASE DropTable(c)
    BY <1>4, <1>7 DEF DropTable
  <1>8. CASE Statement(c)
    <2>1. PICK op \in InTransaction : conn' = [conn EXCEPT ![c] = transaction_for_query(c, op)]
      BY <1>8 DEF Statement, InTransaction
    <2>2. PICK o : o = transaction_for_query(c, op)
      OBVIOUS
    <2>3. conn' = [conn EXCEPT ![c] = o] /\ conn'[c] = o /\ UNCHANGED wire
      BY <1>0, <1>8, <2>1, <2>2 DEF Statement
    <2>4. op \in Ops /\ op \notin CopyMessages /\ op # "begin" /\ op \in InTransaction
      BY DEF Ops, CopyMessages, InTransaction, Statements, Guarded, Unguarded
    <2>5. CASE c \in DOMAIN active_transactions
      <3>0. active_transactions[c] \in Held(c) /\ Held(c) \subseteq Begun
        BY <1>0, <2>5, HeldMembers DEF LocalInv
      <3>1. active_transactions[c] \in Nat
        BY <3>0 DEF Begun
      <3>2. /\ o.pc = Use(op) /\ o.op = op /\ o.txn = active_transactions[c] /\ o.auto = FALSE
        BY <2>2, <2>5 DEF transaction_for_query
      <3>3. Use(op) \in {"ddl", "read"} /\ (Use(op) = "ddl" <=> op = "create_table")
        BY DEF Use
      <3>4. o \in ConnType
        BY <2>2, <2>4, <2>5, <3>1, <3>3 DEF transaction_for_query, ConnType, Pcs, WritePcs
      <3>5. AtRightPlace(c)'
        BY <2>3, <2>4, <3>2, <3>3
           DEF AtRightPlace, InTransaction, Statements, Guarded, Unguarded
      <3> QED  BY <1>1, <2>3, <2>4, <2>5, <3>2, <3>3, <3>4, <3>5, TakesUp
    <2>6. CASE c \notin DOMAIN active_transactions
      <3>1. /\ o.pc = "create" /\ o.op = op /\ o.txn = None /\ o.auto = TRUE
        BY <2>2, <2>6 DEF transaction_for_query
      <3>2. o \in ConnType
        BY <2>2, <2>4, <2>6 DEF transaction_for_query, ConnType, Pcs, WritePcs, None
      <3>3. AtRightPlace(c)'
        BY <2>3, <2>4, <3>1
           DEF AtRightPlace, InTransaction, Statements, Guarded, Unguarded
      <3> QED  BY <1>1, <2>3, <2>4, <3>1, <3>2, <3>3, TakesUp
    <2> QED  BY <2>5, <2>6
  <1> QED  BY <1>3, <1>5, <1>6, <1>7, <1>8

\* The invariant (pg_wire.rs:379-602).
THEOREM SessionInvariance == Spec => []SessionInv
  <1>1. Init => SessionInv
    <2> SUFFICES ASSUME Init PROVE SessionInv
      OBVIOUS
    <2>1. Idle \in ConnType /\ Idle.txn = None /\ Idle.pc = "idle" /\ Idle.op = "none"
          /\ Idle.auto = FALSE
      BY DEF Idle, ConnType, Pcs, Ops, None
    <2>2. [state |-> "ready", copy_in |-> FALSE] \in WireType
      BY DEF WireType
    <2>3. /\ DOMAIN active_transactions = {} /\ DOMAIN copy_sessions = {}
          /\ conn \in [Addresses -> ConnType] /\ wire \in [Addresses -> WireType]
      BY <2>1, <2>2 DEF Init
    <2>4. TypeOK /\ FatesDisjoint
      BY <2>3 DEF Init, TypeOK, FatesDisjoint, ConnType, WireType, Begun
    <2>5. ASSUME NEW c \in Addresses
          PROVE  conn[c] = Idle /\ Held(c) = {} /\ LocalInv(c)
      <3>1. conn[c] = Idle /\ wire[c].state = "ready" /\ wire[c].copy_in = FALSE
        BY DEF Init
      <3>2. \A t : t \notin Held(c)
        BY <2>1, <2>3, <3>1, HeldMembers
      <3>3. AtRightPlace(c) /\ CopyAwaited(c)
        BY <2>1, <2>3, <3>1, LeftMembers DEF AtRightPlace, CopyAwaited
      <3>4. HoldsProperly(c)
        BY <2>1, <2>3, <3>1
           DEF HoldsProperly, InTransaction, Statements, Guarded, Unguarded, CopyMessages
      <3> QED  BY <3>1, <3>2, <3>3, <3>4 DEF LocalInv
    <2>6. HeldApart /\ NoneForgotten
      BY <2>5 DEF HeldApart, NoneForgotten, Init
    <2> QED  BY <2>4, <2>5, <2>6 DEF SessionInv, LocalInv
  <1>2. SessionInv /\ [Next]_vars => SessionInv'
    <2> SUFFICES ASSUME SessionInv, [Next]_vars PROVE SessionInv'
      OBVIOUS
    <2>1. ASSUME NEW c \in Addresses, Work(c) PROVE SessionInv'
      BY <2>1, LockSteps, LifecycleLockStep, BeginTransactionStep, EndSteps, CreateAutoStep,
         StatementSteps, CopySteps, CopyInStartsStep, WireSteps DEF Work
    <2>2. ASSUME NEW c \in Addresses, Client(c) PROVE SessionInv'
      BY <2>2, RequestSteps, CopyMessageStep, WireSteps DEF Client
    <2>3. CASE UNCHANGED vars
      BY <2>3, Stutters DEF vars
    <2> QED  BY <2>1, <2>2, <2>3 DEF Next
  <1> QED  BY <1>1, <1>2, PTL DEF Spec

\* A connection that refers to an open transaction can end it, unless it is
\* that of a COPY session that nobody is asked to send data to any more.
LEMMA Endable ==
  ASSUME SessionInv, NEW c \in Addresses, NEW t \in active, t \in Held(c), t \notin lost
  PROVE  t \in CanEnd(c)
  <1>0. /\ TypeOK /\ AtRightPlace(c) /\ HoldsProperly(c) /\ CopyAwaited(c)
        /\ conn[c] \in ConnType /\ t # None
    BY DEF SessionInv, TypeOK, ConnType, Begun, None
  <1>1. /\ c \in DOMAIN active_transactions => active_transactions[c] \in CanEnd(c)
        /\ c \in DOMAIN copy_sessions /\ copy_sessions[c].auto /\ wire[c].copy_in
             => copy_sessions[c].txn \in CanEnd(c)
        /\ conn[c].txn # None /\ (conn[c].auto \/ conn[c].pc = "end")
             => conn[c].txn \in CanEnd(c)
    BY DEF CanEnd, At
  <1>2. CASE c \in DOMAIN active_transactions /\ t = active_transactions[c]
    BY <1>1, <1>2
  <1>3. CASE c \in DOMAIN copy_sessions /\ t = copy_sessions[c].txn
    <2>1. CASE copy_sessions[c].auto
      BY <1>0, <1>1, <1>3, <2>1, LeftMembers DEF CopyAwaited
    <2>2. CASE ~copy_sessions[c].auto
      BY <1>0, <1>1, <1>3, <2>2 DEF HoldsProperly
    <2> QED  BY <2>1, <2>2
  <1>4. CASE t = conn[c].txn
    <2>1. CASE conn[c].auto \/ conn[c].pc = "end"
      BY <1>0, <1>1, <1>4, <2>1
    <2>2. CASE ~conn[c].auto /\ conn[c].pc # "end"
      <3>1. conn[c].op \in InTransaction \cup CopyMessages
        BY <1>0, <1>4, <2>2
           DEF AtRightPlace, ConnType, Ops, Pcs, WritePcs, Idle, None,
               InTransaction, Statements, Guarded, Unguarded, CopyMessages
      <3>2. UsesEntry(c)
        BY <1>0, <1>4, <2>2, <3>1 DEF HoldsProperly
      <3> QED  BY <1>1, <1>4, <3>2 DEF UsesEntry
    <2> QED  BY <2>1, <2>2
  <1> QED  BY <1>2, <1>3, <1>4, HeldMembers

\* Every open transaction was left behind at one of three places, or has an
\* owner that can still end it (pg_wire.rs:1399, 1404, 1761-1782).
THEOREM TransactionsOwned == Spec => []OpenTransactionsOwned
  <1>1. SessionInv => OpenTransactionsOwned
    <2> SUFFICES ASSUME SessionInv, NEW t \in active, t \notin lost PROVE t \in Owned
      BY DEF OpenTransactionsOwned
    <2>1. PICK c \in Addresses : t \in Held(c)
      BY DEF SessionInv, NoneForgotten
    <2> QED  BY <2>1, Endable DEF Owned
  <1> QED  BY <1>1, SessionInvariance, PTL

\* A transaction is ended once (pg_wire.rs:500-525, 586-602).
THEOREM TransactionsEndOnce == Spec => []EndedOnce
  <1>1. SessionInv => EndedOnce
    BY DEF SessionInv, EndedOnce, FatesDisjoint, AtRightPlace, HoldsProperly
  <1> QED  BY <1>1, SessionInvariance, PTL

\* A statement runs in an open transaction of its own connection
\* (pg_wire.rs:480-525).
THEOREM StatementsInOwnTransaction == Spec => []RunsInOwnOpenTransaction
  <1>1. SessionInv => RunsInOwnOpenTransaction
    <2> SUFFICES ASSUME SessionInv, NEW c \in Addresses
                 PROVE  /\ (Busy(c) /\ conn[c].txn # None /\ conn[c].op \notin CopyMessages)
                             => /\ conn[c].txn \in active
                                /\ \A d \in Addresses \ {c} :
                                     /\ conn[d].txn # conn[c].txn
                                     /\ d \in DOMAIN active_transactions
                                          => active_transactions[d] # conn[c].txn
                        /\ c \in DOMAIN active_transactions => active_transactions[c] \in active
      BY DEF RunsInOwnOpenTransaction
    <2>1. AtRightPlace(c) /\ HoldsProperly(c) /\ conn[c] \in ConnType
      BY DEF SessionInv, TypeOK, ConnType
    <2>2. c \in DOMAIN active_transactions => active_transactions[c] \in active
      BY <2>1 DEF HoldsProperly
    <2>3. ASSUME Busy(c), conn[c].txn # None, conn[c].op \notin CopyMessages
          PROVE  conn[c].txn \in active
      <3>1. CASE conn[c].auto
        BY <2>1, <2>3, <3>1 DEF AtRightPlace, HoldsProperly
      <3>2. CASE conn[c].pc = "end"
        BY <2>1, <3>2 DEF HoldsProperly
      <3>3. CASE ~conn[c].auto /\ conn[c].pc # "end"
        <4>1. conn[c].op \in InTransaction
          BY <2>1, <2>3, <3>3 DEF AtRightPlace, ConnType, Ops, Busy, At, Pcs, WritePcs,
             InTransaction, Statements, Guarded, Unguarded, CopyMessages
        <4> QED  BY <2>1, <2>2, <3>3, <4>1 DEF HoldsProperly, UsesEntry
      <3> QED  BY <3>1, <3>2, <3>3
    <2>4. ASSUME NEW d \in Addresses \ {c}, conn[c].txn # None
          PROVE  /\ conn[d].txn # conn[c].txn
                 /\ d \in DOMAIN active_transactions => active_transactions[d] # conn[c].txn
      BY <2>4, HeldMembers, ZenonT(40) DEF SessionInv, HeldApart
    <2> QED  BY <2>2, <2>3, <2>4
  <1> QED  BY <1>1, SessionInvariance, PTL

\* Nobody is asked for COPY data that no session would receive
\* (pg_wire.rs:1656-1714).
THEOREM CopyDataExpected == Spec => []CopySessionReady
  <1>1. SessionInv => CopySessionReady
    BY DEF SessionInv, CopySessionReady, CopyAwaited, AtRightPlace, At, Idle, CopyMessages
  <1> QED  BY <1>1, SessionInvariance, PTL
=============================================================================
