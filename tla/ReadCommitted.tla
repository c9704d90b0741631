---------------------------- MODULE ReadCommitted ----------------------------
(***************************************************************************)
(* What the multi-version core promises: a table of rows in which the      *)
(* writes of a transaction stay with the transaction, take effect all at   *)
(* once when it commits and vanish when it rolls back.  A row that two     *)
(* transactions in progress have both written, or that was written for a   *)
(* transaction that had ended, is given up: nothing is promised of it any  *)
(* more.                                                                   *)
(***************************************************************************)
CONSTANTS
    Rows,       \* row ids
    Values,     \* what a row may hold
    Txns        \* transaction ids

VARIABLES
    db,         \* row -> what is committed: {}, or the row's value alone
    local,      \* transaction in progress -> the rows it wrote -> the same
    lost        \* rows given up

\* What transaction t works with: its own writes over what is committed.
View(t, r) == IF r \in DOMAIN local[t] THEN local[t][r] ELSE db[r]

Init ==
    /\ db = [r \in Rows |-> {}]
    /\ local = [t \in {} |-> db]
    /\ lost = {}

Begin(t) ==
    /\ t \notin DOMAIN local
    /\ local' = [u \in DOMAIN local \cup {t} |->
                    IF u = t THEN [r \in {} |-> {}] ELSE local[u]]
    /\ UNCHANGED <<db, lost>>

\* Transaction t leaves x in row r: an update or a deletion of a row it has, or
\* a row nobody has had before.
Write(t, r, x) ==
    /\ t \in DOMAIN local /\ r \notin lost
    /\ \A u \in DOMAIN local \ {t} : r \notin DOMAIN local[u]
    /\ View(t, r) # {} \/ (x # {} /\ r \notin DOMAIN local[t])
    /\ local' = [local EXCEPT ![t] =
          [s \in DOMAIN local[t] \cup {r} |-> IF s = r THEN x ELSE local[t][s]]]
    /\ UNCHANGED <<db, lost>>

End(t) ==
    /\ t \in DOMAIN local
    /\ local' = [u \in DOMAIN local \ {t} |-> local[u]]
    /\ UNCHANGED lost

Commit(t) == End(t) /\ db' = [r \in Rows |-> View(t, r)]
Rollback(t) == End(t) /\ UNCHANGED db

GiveUp(r) ==
    /\ lost' = lost \cup {r}
    /\ db' = [db EXCEPT ![r] = {}]
    /\ local' = [t \in DOMAIN local |->
                    [s \in DOMAIN local[t] \ {r} |-> local[t][s]]]

Next ==
    \/ \E t \in Txns :
          \/ Begin(t) \/ Commit(t) \/ Rollback(t)
          \/ \E r \in Rows, x \in {{}} \cup {{d} : d \in Values} : Write(t, r, x)
    \/ \E r \in Rows : GiveUp(r)

Spec == Init /\ [][Next]_<<db, local, lost>>
==============================================================================
