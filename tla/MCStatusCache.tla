--------------------------- MODULE MCStatusCache ---------------------------
(***************************************************************************)
(* Two creates of one uuid, three updates and a delete.                    *)
(***************************************************************************)
EXTENDS StatusCache, TLC

CONSTANTS c1, c2, p1, p2, p3, d1

\* Calls of one kind differ in nothing but their name.
CallSymmetry == Permutations({c1, c2}) \cup Permutations({p1, p2, p3})

=============================================================================
