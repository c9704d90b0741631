----------------------------- MODULE MCPageFile -----------------------------
(* The instance of PageFile that TLC checks.                               *)
EXTENDS PageFile, TLC

MCSymmetry == Permutations(Threads) \cup Permutations(Data)

\* No property says anything of a damaged file: its future is not explored.
BeforeDamage == ~damaged
=============================================================================
