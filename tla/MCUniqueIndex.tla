--------------------------- MODULE MCUniqueIndex ---------------------------
(* Small instances of UniqueIndex, with the values and keys of DataEntry.  *)
EXTENDS UniqueIndex, TLC

LOCAL D == INSTANCE DataEntry WITH MaxI32 <- 1, MaxI64 <- 2

\* NULL shares the key of 0; 1 has a key of its own.
Zero == D!Integer("i32", 0)
One == D!Integer("i32", 1)
NumbersAndNull == {Zero, One, D!Null}
KeyOf == (Zero :> D!key(Zero)) @@ (One :> D!key(One)) @@ (D!Null :> D!key(D!Null))

\* Bound: with the third transaction, a table that holds no NULL, no row inserted
\* for a transaction that had ended, and no row whose entry was re-tagged.
SimplerWithThree ==
    next_transaction_id > 3 =>
        /\ late = {} /\ retagged = {}
        /\ \A v \in versions : v.data # D!Null
=============================================================================
