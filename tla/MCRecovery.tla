----------------------------- MODULE MCRecovery -----------------------------
(* A small instance of Recovery.                                           *)
EXTENDS Recovery

\* Bound: the table is dropped only while two transactions have begun.
NoDropWithThree == next_transaction_id > 3 => drops = 0
=============================================================================
