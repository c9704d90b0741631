---------------------------- MODULE MCPageCache ----------------------------
(* Small instances of PageCache.                                           *)
EXTENDS PageCache, TLC

\* Rows of one or of two units; and a row of one unit with one of two.
EqualRows == <<1, 1>>
FullRows == <<2, 2>>
UnequalRows == <<1, 2>>

\* The workers are interchangeable.
WorkerSymmetry == Permutations(Workers)

\* Bound: stop after the first torn row.
NoneTorn == torn = {}
=============================================================================
