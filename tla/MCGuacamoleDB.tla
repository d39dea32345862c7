--------------------------- MODULE MCGuacamoleDB ---------------------------
(***************************************************************************)
(* Three creates, two of which use the same uuid, and two cleanups of it.  *)
(***************************************************************************)
EXTENDS GuacamoleDB, TLC

CONSTANTS r1, r2, r3, d1, d2

MCUUIDOf == [p \in Request \cup Remover |-> IF p = r3 THEN "u2" ELSE "u1"]

\* Calls of one kind on one uuid differ in nothing but their name.
CallSymmetry == Permutations({r1, r2}) \cup Permutations({d1, d2})

=============================================================================
