------------------------------ MODULE Session ------------------------------
(***************************************************************************)
(* Client sessions of PgWireHandler (core/pg_wire.rs): how connections     *)
(* begin, use and end transactions, alone, in the middle of a batch of     *)
(* statements, or across the messages of a COPY FROM STDIN, and the locks  *)
(* they take on the way.                                                   *)
(*                                                                         *)
(* The database lock is a std::sync::RwLock: a queued writer keeps new     *)
(* readers out.  Writers hold it for one step (begin, commit, rollback,    *)
(* DDL), readers for a whole statement.  A statement's work is reduced to  *)
(* whether it succeeds; what it does to the rows is the subject of Mvcc.   *)
(***************************************************************************)
EXTENDS Naturals, FiniteSets, Functions

CONSTANTS
    Addresses,      \* socket addresses of clients
    MaxRequests     \* bound: statements and COPY messages handled in all

ASSUME SessionAssumption == MaxRequests \in Nat

VARIABLES
    next_transaction_id, active, committed, aborted,   \* Database
    active_transactions,   \* PgWireHandler: address -> transaction
    copy_sessions,         \* PgWireHandler: address -> CopySession
    txn_lifecycle,         \* PgWireHandler: the holders of the mutex
    readers,               \* db lock: the addresses holding a read guard
    queued,                \* db lock: the addresses of the waiting writers
    conn,                  \* what each connection's thread is doing
    wire,                  \* what the protocol expects from each client next
    requests,              \* bound: requests handled so far
    lost                   \* history: transactions left without an owner

dbvars == <<next_transaction_id, active, committed, aborted>>
maps == <<active_transactions, copy_sessions>>
locks == <<txn_lifecycle, readers, queued>>
vars == <<dbvars, maps, locks, conn, wire, requests, lost>>

-----------------------------------------------------------------------------
None == 0
Idle == [pc |-> "idle", op |-> "none", txn |-> None, auto |-> FALSE, ok |-> TRUE]

\* Statements run through execute_transactional: queries, INSERT, UPDATE,
\* DELETE and COPY TO, which hold their read guard to the end, and the index
\* and column DDL, which drops it after looking the table up.
Guarded == {"statement"}
Unguarded == {"alter"}
Statements == Guarded \cup Unguarded
CopyMessages == {"copy_done", "copy_fail"}

\* The places where a thread asks for the database write lock.
WritePcs == {"create", "begin", "end", "finish", "ddl"}

At(c, pc) == conn[c].pc = pc
Running(c) == conn[c].pc \in {"run", "checked"}
Goto(c, pc) == conn' = [conn EXCEPT ![c].pc = pc]

Put(f, k, v) == [x \in DOMAIN f \cup {k} |-> IF x = k THEN v ELSE f[x]]
Without(f, k) == Restrict(f, DOMAIN f \ {k})

\* What the client may send once do_query returns: COPY data if one of the
\* batch's responses was CopyIn, the next query otherwise.
AfterBatch(c) == IF wire[c].copy_in THEN "copy" ELSE "ready"

\* do_query goes on with the batch after a success and stops at an error.
Answer(c, ok) ==
    /\ conn' = [conn EXCEPT ![c] = Idle]
    /\ wire' = [wire EXCEPT ![c] =
                  IF conn[c].op \in CopyMessages
                  THEN [state |-> "ready", copy_in |-> FALSE]
                  ELSE [@ EXCEPT !.state = IF ok THEN "batch" ELSE AfterBatch(c)]]

-----------------------------------------------------------------------------
(* The database lock and the transaction mutex                             *)

CanWrite == readers = {}
CanRead == queued = {}

\* RwLock::write: a writer that finds readers queues.
Enqueue(c) ==
    /\ conn[c].pc \in WritePcs /\ ~CanWrite /\ c \notin queued
    /\ queued' = queued \cup {c}
    /\ UNCHANGED <<dbvars, maps, txn_lifecycle, readers, conn, wire, requests, lost>>

\* RwLock::write succeeds; the guard is dropped at the end of the step.
Writing(c, pc) ==
    /\ At(c, pc) /\ CanWrite
    /\ queued' = queued \ {c}
    /\ UNCHANGED readers

\* The read guard of a statement, of COPY data, or of the lookup of COPY FROM.
ReadLock(c) ==
    /\ At(c, "read") /\ CanRead
    /\ readers' = readers \cup {c}
    /\ Goto(c, "run")
    /\ UNCHANGED <<dbvars, maps, txn_lifecycle, queued, wire, requests, lost>>

\* The index and column DDL goes on without the guard.
DropGuard(c) ==
    /\ At(c, "run") /\ conn[c].op \in Unguarded /\ c \in readers
    /\ readers' = readers \ {c}
    /\ UNCHANGED <<dbvars, maps, txn_lifecycle, queued, conn, wire, requests, lost>>

\* The foreign key callback asks for a second read guard.  One lookup stands
\* for all those of a statement: each asks for the lock the same way.
ForeignKeyCheck(c) ==
    /\ At(c, "run") /\ conn[c].op \in Guarded \cup {"copy_done"}
    /\ Goto(c, "foreign_key")
    /\ UNCHANGED <<dbvars, maps, locks, wire, requests, lost>>

\* It gets the guard, looks the value up and drops the guard.
ForeignKeyDone(c) ==
    /\ At(c, "foreign_key") /\ CanRead
    /\ Goto(c, "checked")
    /\ UNCHANGED <<dbvars, maps, locks, wire, requests, lost>>

\* Mutant of TakeOut: a failed statement leaves its transaction in the map.
TakeNothingOut(c) ==
    IF conn[c].op \in Statements THEN active_transactions ELSE Without(active_transactions, c)

\* The entry of a connection is taken out of the map under the mutex.
TakeOut(c) == Without(active_transactions, c)

\* Mutant of HeldAfter: the error path keeps the mutex.
HeldAnyway(c, found) == {c}

\* A thread that finds no transaction to end drops the mutex as it returns.
HeldAfter(c, found) == IF found THEN {c} ELSE {}

\* txn_lifecycle.lock() of BEGIN, COMMIT, ROLLBACK and of the rollback that
\* follows a failed statement.
LifecycleLock(c) ==
    /\ At(c, "lock") /\ txn_lifecycle = {}
    /\ LET found == conn[c].op \in {"commit", "rollback"} => c \in DOMAIN active_transactions IN
       /\ txn_lifecycle' = HeldAfter(c, found)
       /\ \/ /\ conn[c].op = "begin"
             /\ Goto(c, "begin")
             /\ UNCHANGED <<active_transactions, wire>>
          \/ /\ conn[c].op \in Statements
             /\ Goto(c, "end")
             /\ active_transactions' = TakeOut(c)
             /\ UNCHANGED wire
          \/ /\ conn[c].op \in {"commit", "rollback"} /\ found
             /\ conn' = [conn EXCEPT ![c].pc = "end", ![c].txn = active_transactions[c]]
             /\ active_transactions' = TakeOut(c)
             /\ UNCHANGED wire
          \/ ~found /\ Answer(c, FALSE) /\ UNCHANGED active_transactions
    /\ UNCHANGED <<dbvars, copy_sessions, readers, queued, requests, lost>>

-----------------------------------------------------------------------------
(* Transactions of the database, each step under the write lock            *)

create_transaction ==
    /\ next_transaction_id' = next_transaction_id + 1
    /\ active' = active \cup {next_transaction_id}
    /\ UNCHANGED <<committed, aborted>>

EndTransaction(t, commit) ==
    /\ active' = active \ {t}
    /\ committed' = IF commit THEN committed \cup {t} ELSE committed
    /\ aborted' = IF commit THEN aborted ELSE aborted \cup {t}
    /\ UNCHANGED next_transaction_id

\* create_connection_transaction_at, the mutex held.
BeginTransaction(c) ==
    /\ Writing(c, "begin")
    /\ create_transaction
    /\ active_transactions' = Put(active_transactions, c, next_transaction_id)
    /\ txn_lifecycle' = {}
    /\ Answer(c, TRUE)
    /\ UNCHANGED <<copy_sessions, requests, lost>>

\* Mutant of EndConnectionTransaction: the end of a transaction also drops the
\* COPY session of the connection.
EndAndForgetCopy(c) ==
    /\ Writing(c, "end")
    /\ EndTransaction(conn[c].txn, conn[c].op = "commit")
    /\ copy_sessions' = Without(copy_sessions, c)
    /\ txn_lifecycle' = {}
    /\ Answer(c, conn[c].op \in {"commit", "rollback"})
    /\ UNCHANGED <<active_transactions, requests, lost>>

\* commit_connection_transaction_at and rollback_connection_transaction_at;
\* also the end of execute_transactional_at for an explicit transaction.
EndConnectionTransaction(c) ==
    /\ Writing(c, "end")
    /\ EndTransaction(conn[c].txn, conn[c].op = "commit")
    /\ txn_lifecycle' = {}
    /\ Answer(c, conn[c].op \in {"commit", "rollback"})
    /\ UNCHANGED <<maps, requests, lost>>

\* Where a transaction that was just chosen is used.
Use(op) == IF op = "create_table" THEN "ddl" ELSE "read"

\* transaction_for_query_at and begin_copy_transaction, no transaction open.
CreateAuto(c) ==
    /\ Writing(c, "create")
    /\ create_transaction
    /\ conn' = [conn EXCEPT ![c].pc = Use(conn[c].op), ![c].auto = TRUE,
                            ![c].txn = next_transaction_id]
    /\ UNCHANGED <<maps, txn_lifecycle, wire, requests, lost>>

\* The commit or rollback of a transaction begun for one statement or COPY.
FinishAuto(c) ==
    /\ Writing(c, "finish")
    /\ EndTransaction(conn[c].txn, conn[c].ok)
    /\ Answer(c, conn[c].ok)
    /\ UNCHANGED <<maps, txn_lifecycle, requests, lost>>

-----------------------------------------------------------------------------
(* Requests                                                                *)

Receive(c, states) ==
    /\ At(c, "idle") /\ wire[c].state \in states
    /\ requests < MaxRequests
    /\ requests' = requests + 1

\* Mutant of transaction_for_query: the open transaction is committed with the
\* statement.
AlwaysAutoCommit(c, op) ==
    IF c \in DOMAIN active_transactions
    THEN [pc |-> Use(op), op |-> op, txn |-> active_transactions[c],
          auto |-> TRUE, ok |-> TRUE]
    ELSE [pc |-> "create", op |-> op, txn |-> None, auto |-> TRUE, ok |-> TRUE]

\* The transaction of a statement: the open one of the connection, or one of
\* its own.
transaction_for_query(c, op) ==
    IF c \in DOMAIN active_transactions
    THEN [pc |-> Use(op), op |-> op, txn |-> active_transactions[c],
          auto |-> FALSE, ok |-> TRUE]
    ELSE [pc |-> "create", op |-> op, txn |-> None, auto |-> TRUE, ok |-> TRUE]

\* BEGIN looks for an open transaction before it takes the mutex.
Begin(c) ==
    /\ Receive(c, {"ready", "batch"})
    /\ IF c \in DOMAIN active_transactions
       THEN Answer(c, FALSE)
       ELSE /\ conn' = [conn EXCEPT ![c].pc = "lock", ![c].op = "begin"]
            /\ UNCHANGED wire
    /\ UNCHANGED <<dbvars, maps, locks, lost>>

CommitOrRollback(c) ==
    /\ Receive(c, {"ready", "batch"})
    /\ \E op \in {"commit", "rollback"} :
         conn' = [conn EXCEPT ![c].pc = "lock", ![c].op = op]
    /\ UNCHANGED <<dbvars, maps, locks, wire, lost>>

Statement(c) ==
    /\ Receive(c, {"ready", "batch"})
    /\ \E op \in Statements \cup {"create_table", "copy_in"} :
         conn' = [conn EXCEPT ![c] = transaction_for_query(c, op)]
    /\ UNCHANGED <<dbvars, maps, locks, wire, lost>>

\* DROP TABLE runs in no transaction.
DropTable(c) ==
    /\ Receive(c, {"ready", "batch"})
    /\ conn' = [conn EXCEPT ![c].pc = "ddl", ![c].op = "drop_table"]
    /\ UNCHANGED <<dbvars, maps, locks, wire, lost>>

\* The outcome of a statement, after which its own transaction is ended, an
\* explicit one is rolled back if the statement failed, and left open if not.
AfterStatement(c, ok) ==
    IF conn[c].auto
    THEN conn' = [conn EXCEPT ![c].pc = "finish", ![c].ok = ok] /\ UNCHANGED wire
    ELSE IF ok
         THEN Answer(c, TRUE)
         ELSE conn' = [conn EXCEPT ![c].pc = "lock", ![c].ok = FALSE] /\ UNCHANGED wire

\* execute_transactional_at: the closure returns and drops its guard.
EndStatement(c) ==
    /\ Running(c) /\ conn[c].op \in Statements
    /\ conn[c].op \in Unguarded => c \notin readers
    /\ readers' = readers \ {c}
    /\ \E ok \in BOOLEAN : AfterStatement(c, ok)
    /\ UNCHANGED <<dbvars, maps, txn_lifecycle, queued, requests, lost>>

\* CREATE TABLE and DROP TABLE, under the write lock.  Neither rolls an
\* explicit transaction back when it fails.
Ddl(c) ==
    /\ Writing(c, "ddl")
    /\ \E ok \in BOOLEAN :
         IF conn[c].auto
         THEN conn' = [conn EXCEPT ![c].pc = "finish", ![c].ok = ok] /\ UNCHANGED wire
         ELSE Answer(c, ok)
    /\ UNCHANGED <<dbvars, maps, txn_lifecycle, requests, lost>>

-----------------------------------------------------------------------------
(* COPY FROM STDIN                                                         *)

\* The columns do not resolve: the handler returns and forgets the
\* transaction it began.
CopyInFails(c) ==
    /\ At(c, "run") /\ conn[c].op = "copy_in"
    /\ readers' = readers \ {c}
    /\ lost' = IF conn[c].auto THEN lost \cup {conn[c].txn} ELSE lost
    /\ Answer(c, FALSE)
    /\ UNCHANGED <<dbvars, maps, txn_lifecycle, queued, requests>>

\* The transaction that is left behind when nobody will send the data of the
\* COPY session at c any more.
LeftBehind(c) ==
    IF c \in DOMAIN copy_sessions /\ copy_sessions[c].auto THEN {copy_sessions[c].txn} ELSE {}

\* The session is kept until the client has sent its data.  It replaces the one
\* of an earlier COPY.
CopyInStarts(c) ==
    /\ At(c, "run") /\ conn[c].op = "copy_in"
    /\ readers' = readers \ {c}
    /\ copy_sessions' = Put(copy_sessions, c, [txn |-> conn[c].txn, auto |-> conn[c].auto])
    /\ lost' = lost \cup LeftBehind(c)
    /\ conn' = [conn EXCEPT ![c] = Idle]
    /\ wire' = [wire EXCEPT ![c] = [state |-> "batch", copy_in |-> TRUE]]
    /\ UNCHANGED <<dbvars, active_transactions, txn_lifecycle, queued, requests>>

\* on_copy_done, and on_copy_fail: the session is removed first.  The data of
\* CopyDone may not parse, which is found out before any lock is taken.
CopyMessage(c) ==
    /\ Receive(c, {"copy"})
    /\ c \in DOMAIN copy_sessions
    /\ LET session == copy_sessions[c]
           with(pc, op) == [pc |-> pc, op |-> op, txn |-> session.txn,
                            auto |-> session.auto, ok |-> FALSE] IN
       /\ copy_sessions' = Without(copy_sessions, c)
       /\ \/ conn' = [conn EXCEPT ![c] = with("read", "copy_done")]
          \/ \E op \in CopyMessages : conn' = [conn EXCEPT ![c] = with("copied", op)]
    /\ UNCHANGED <<dbvars, active_transactions, locks, wire, lost>>

\* The rows are inserted, or one of them is refused.
CopyRows(c) ==
    /\ Running(c) /\ conn[c].op = "copy_done"
    /\ readers' = readers \ {c}
    /\ \E ok \in BOOLEAN : conn' = [conn EXCEPT ![c].pc = "copied", ![c].ok = ok]
    /\ UNCHANGED <<dbvars, maps, txn_lifecycle, queued, wire, requests, lost>>

\* Mutant of finish_copy_transaction: only a COPY that succeeded is finished.
FinishSuccessOnly(c) ==
    /\ At(c, "copied")
    /\ IF conn[c].auto /\ conn[c].ok
       THEN Goto(c, "finish") /\ UNCHANGED wire
       ELSE Answer(c, conn[c].ok)
    /\ UNCHANGED <<dbvars, maps, locks, requests, lost>>

\* finish_copy_transaction leaves an explicit transaction alone.
finish_copy_transaction(c) ==
    /\ At(c, "copied")
    /\ IF conn[c].auto
       THEN Goto(c, "finish") /\ UNCHANGED wire
       ELSE Answer(c, conn[c].ok)
    /\ UNCHANGED <<dbvars, maps, locks, requests, lost>>

-----------------------------------------------------------------------------
(* The connection                                                          *)

\* The last statement of a batch was answered.
EndBatch(c) ==
    /\ At(c, "idle") /\ wire[c].state = "batch"
    /\ wire' = [wire EXCEPT ![c].state = AfterBatch(c)]
    /\ UNCHANGED <<dbvars, maps, locks, conn, requests, lost>>

\* The socket closes and one from the same address may be accepted later:
\* nothing is cleaned up.  The next client has the entry of the address in
\* active_transactions, but cannot send data to the COPY session it finds.
Reconnect(c) ==
    /\ At(c, "idle") /\ wire[c].state # "batch"
    /\ wire' = [wire EXCEPT ![c] = [state |-> "ready", copy_in |-> FALSE]]
    /\ lost' = lost \cup LeftBehind(c)
    /\ UNCHANGED <<dbvars, maps, locks, conn, requests>>

Init ==
    /\ next_transaction_id = 1
    /\ active = {} /\ committed = {} /\ aborted = {}
    /\ active_transactions = [x \in {} |-> None]
    /\ copy_sessions = [x \in {} |-> None]
    /\ txn_lifecycle = {} /\ readers = {} /\ queued = {}
    /\ conn = [c \in Addresses |-> Idle]
    /\ wire = [c \in Addresses |-> [state |-> "ready", copy_in |-> FALSE]]
    /\ requests = 0
    /\ lost = {}

\* What a thread does on its own once it has a request.
Work(c) ==
    \/ Enqueue(c) \/ ReadLock(c) \/ DropGuard(c) \/ LifecycleLock(c)
    \/ ForeignKeyCheck(c) \/ ForeignKeyDone(c)
    \/ BeginTransaction(c) \/ EndConnectionTransaction(c)
    \/ CreateAuto(c) \/ FinishAuto(c)
    \/ EndStatement(c) \/ Ddl(c)
    \/ CopyInFails(c) \/ CopyInStarts(c) \/ CopyRows(c) \/ finish_copy_transaction(c)
    \/ EndBatch(c)

\* What depends on the client.
Client(c) ==
    \/ Begin(c) \/ CommitOrRollback(c) \/ Statement(c) \/ DropTable(c)
    \/ CopyMessage(c) \/ Reconnect(c)

Next == \E c \in Addresses : Work(c) \/ Client(c)

\* A thread that can go on does so.  Requests are finite in number, so no
\* fairness between threads that compete for a lock is assumed.
Fairness == \A c \in Addresses : WF_vars(Work(c))

Spec == Init /\ [][Next]_vars /\ Fairness

-----------------------------------------------------------------------------
(* Properties                                                              *)

Busy(c) == ~At(c, "idle")

\* The transactions that connection c refers to, whether it can end them or
\* not: its entry in the map, its COPY session and what its thread is using.
Held(c) ==
    (IF c \in DOMAIN active_transactions THEN {active_transactions[c]} ELSE {})
      \cup (IF c \in DOMAIN copy_sessions THEN {copy_sessions[c].txn} ELSE {})
      \cup ({conn[c].txn} \ {None})

\* The transactions that connection c can still end: its entry, by a COMMIT, a
\* ROLLBACK or a failing statement of this or a later client at the address;
\* that of a COPY session, while its client may send the data; and the one that
\* its thread began for this request, or has taken out of the map to end it.
CanEnd(c) ==
    (IF c \in DOMAIN active_transactions THEN {active_transactions[c]} ELSE {})
      \cup (IF c \in DOMAIN copy_sessions /\ copy_sessions[c].auto /\ wire[c].copy_in
            THEN {copy_sessions[c].txn} ELSE {})
      \cup (IF conn[c].auto \/ At(c, "end") THEN {conn[c].txn} \ {None} ELSE {})
Owned == UNION {CanEnd(c) : c \in Addresses}

\* Every open transaction has an owner that can still end it, except those
\* dropped at the three places recorded in lost: a COPY FROM that does not
\* resolve, a second COPY FROM in one batch, and a connection that closes
\* before it has sent its COPY data (pg_wire.rs:1399, 1404, 1761-1782).  An
\* ownerless transaction stays active for good and stops the vacuum horizon.
OpenTransactionsOwned == active \subseteq Owned \cup lost

\* A transaction is ended once: a thread about to commit or roll one back
\* finds it active, so no transaction is both committed and rolled back
\* (execute_transactional_at takes the connection's entry out before the
\* rollback, finish_copy_transaction acts on transactions of its own only).
EndedOnce ==
    /\ committed \cap aborted = {}
    /\ \A c \in Addresses : conn[c].pc \in {"end", "finish"} => conn[c].txn \in active

\* A statement never runs in a transaction that has ended, nor in the one of
\* another connection.  COPY data is the exception: its session was made
\* earlier and a COMMIT or ROLLBACK later in the same batch may have ended the
\* transaction (on_copy_done uses session.transaction unchecked).
RunsInOwnOpenTransaction ==
    \A c \in Addresses :
      /\ (Busy(c) /\ conn[c].txn # None /\ conn[c].op \notin CopyMessages)
           => /\ conn[c].txn \in active
              /\ \A d \in Addresses \ {c} :
                   /\ conn[d].txn # conn[c].txn
                   /\ d \in DOMAIN active_transactions => active_transactions[d] # conn[c].txn
      /\ c \in DOMAIN active_transactions => active_transactions[c] \in active

\* A client that was told to send COPY data has a session to receive it: the
\* "No active COPY session" error of on_copy_done is never raised, whatever
\* the rest of the batch did and whoever used the address before.
CopySessionReady ==
    \A c \in Addresses :
      At(c, "idle") /\ wire[c].state = "copy" => c \in DOMAIN copy_sessions

\* Statements that choose their transaction with transaction_for_query.
InTransaction == Statements \cup {"create_table", "copy_in"}
Ops == InTransaction \cup CopyMessages \cup {"none", "begin", "commit", "rollback", "drop_table"}
Pcs == WritePcs \cup {"idle", "lock", "read", "run", "foreign_key", "checked", "copied"}
Begun == 1..(next_transaction_id - 1)

\* Every variable that the transactions depend on has its type.
TypeOK ==
    /\ next_transaction_id \in Nat \ {0}
    /\ active \subseteq Begun
    /\ DOMAIN active_transactions \subseteq Addresses
    /\ DOMAIN copy_sessions \subseteq Addresses
    /\ \A c \in DOMAIN copy_sessions : copy_sessions[c] \in [txn : Nat, auto : BOOLEAN]
    /\ conn \in [Addresses -> [pc : Pcs, op : Ops, txn : Nat, auto : BOOLEAN, ok : BOOLEAN]]
    /\ wire \in [Addresses -> [state : {"ready", "batch", "copy"}, copy_in : BOOLEAN]]

\* A transaction is in progress, committed or rolled back.
FatesDisjoint ==
    /\ committed \cap aborted = {}
    /\ active \cap (committed \cup aborted) = {}
    /\ committed \cup aborted \subseteq Begun

\* Where a thread may be with which request, and when it has no transaction.
AtRightPlace(c) ==
    LET o == conn[c] IN
    /\ o.pc = "idle" => o = Idle
    /\ o.pc = "create" => o.op \in InTransaction /\ o.auto /\ o.txn = None
    /\ o.pc = "lock" => ~o.auto /\ o.op \in Statements \cup {"begin", "commit", "rollback"}
    /\ o.pc = "begin" => o.op = "begin"
    /\ o.pc = "end" => ~o.auto /\ o.op \in Statements \cup {"commit", "rollback"}
    /\ o.pc = "ddl" => o.op \in {"create_table", "drop_table"}
    /\ o.pc = "finish" => o.auto /\ o.op \in InTransaction \cup CopyMessages
    /\ o.pc = "copied" => o.op \in CopyMessages
    /\ o.pc \in {"read", "run"} => o.op \in Statements \cup {"copy_in", "copy_done"}
    /\ o.pc \in {"foreign_key", "checked"} => o.op \in Guarded \cup {"copy_done"}
    /\ o.op \in {"begin", "commit", "rollback", "drop_table"} /\ o.pc # "end"
         => o.txn = None /\ ~o.auto

\* The thread of c uses the transaction that the map holds for it.
UsesEntry(c) ==
    c \in DOMAIN active_transactions /\ active_transactions[c] = conn[c].txn

\* How a connection holds its transactions: its entry is open; a COPY session
\* and a thread with a transaction of their own hold an open one that nothing
\* else of the connection refers to; a thread without one uses the entry, or
\* has taken it out to end it; and an explicit transaction that a COPY session
\* still names is either ended or the entry.
HoldsProperly(c) ==
    LET o == conn[c]
        entry == c \in DOMAIN active_transactions
        session == c \in DOMAIN copy_sessions IN
    /\ entry => active_transactions[c] \in active
    /\ o.op = "begin" => ~entry
    /\ session /\ copy_sessions[c].auto =>
         /\ copy_sessions[c].txn \in active /\ copy_sessions[c].txn # o.txn
         /\ entry => active_transactions[c] # copy_sessions[c].txn
    /\ session /\ ~copy_sessions[c].auto /\ copy_sessions[c].txn \in active =>
         \/ entry /\ active_transactions[c] = copy_sessions[c].txn
         \/ o.pc = "end" /\ o.txn = copy_sessions[c].txn
    /\ o.auto /\ o.pc # "create" =>
         /\ o.txn \in active
         /\ entry => active_transactions[c] # o.txn
         /\ session => copy_sessions[c].txn # o.txn
    /\ o.op \in InTransaction /\ ~o.auto /\ o.pc # "end" => UsesEntry(c)
    /\ o.pc = "end" => o.txn \in active /\ ~entry
    /\ o.op \in CopyMessages =>
         /\ ~session
         /\ ~o.auto /\ o.txn \in active => UsesEntry(c)

\* No transaction is held by two connections.
HeldApart ==
    \A c, d \in Addresses : c # d => Held(c) \cap Held(d) = {}

\* A session waits for the data that the client was asked for; one that nobody
\* is asked for any more has left its transaction behind.
CopyAwaited(c) ==
    /\ wire[c].state = "copy" => wire[c].copy_in
    /\ wire[c].copy_in /\ conn[c].op \notin CopyMessages => c \in DOMAIN copy_sessions
    /\ ~wire[c].copy_in => LeftBehind(c) \subseteq lost

\* An open transaction that no connection refers to was left behind.
NoneForgotten ==
    \A t \in active \ lost : \E c \in Addresses : t \in Held(c)

\* The inductive invariant that the properties above follow from.
SessionInv ==
    /\ TypeOK
    /\ FatesDisjoint
    /\ \A c \in Addresses :
          /\ Held(c) \subseteq Begun
          /\ AtRightPlace(c) /\ HoldsProperly(c) /\ CopyAwaited(c)
    /\ HeldApart
    /\ NoneForgotten

\* Every request is answered unless a foreign key lookup blocks for ever,
\* asking for its second read guard behind a queued writer: that guard is the
\* only way in which the mutex, the guards and the write lock can stop a
\* thread of execute_transactional_at, of the BEGIN/COMMIT/ROLLBACK handlers
\* or of COPY.
RequestsAnswered ==
    (\A d \in Addresses : []<>~At(d, "foreign_key"))
      => (\A c \in Addresses : Busy(c) ~> ~Busy(c))
=============================================================================
