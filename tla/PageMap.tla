------------------------------- MODULE PageMap -------------------------------
(***************************************************************************)
(* What the page file of a table promises (core/page_store.rs): a map from *)
(* page ids to pages that merge_pages and write_all_serialized change in   *)
(* one step each, and that a crash leaves as it was before or after such a *)
(* step.  A damaged map promises nothing any more.                         *)
(***************************************************************************)
CONSTANTS
    Pages,      \* page ids
    Data,       \* what a page may hold
    Absent      \* a page the map does not have

VARIABLES
    contents,   \* page id -> what the map holds for it
    offered,    \* the maps of pages that operations in progress want to write
    damaged     \* the map promises nothing any more

Init ==
    /\ contents = [p \in Pages |-> Absent]
    /\ offered = {}
    /\ damaged = FALSE

\* Operations begin, fail, or return after they have taken effect.
Offer == contents' = contents

\* An operation takes effect: its pages replace their copies, the other pages
\* are carried over.
Apply(w) ==
    /\ w \in offered
    /\ contents' = [p \in Pages |-> IF p \in DOMAIN w THEN w[p] ELSE contents[p]]

Next ==
    \/ ~damaged /\ ~damaged' /\ (Offer \/ \E w \in offered : Apply(w))
    \/ damaged'

Spec == Init /\ [][Next]_<<contents, offered, damaged>>
==============================================================================
