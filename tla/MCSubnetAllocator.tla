------------------------- MODULE MCSubnetAllocator -------------------------
(* Small instances of SubnetAllocator for TLC, with octets of 0 and 1.     *)
EXTENDS SubnetAllocator, TLC

CONSTANTS r1, r2, r3

\* The next subnet takes a carry, the one after it is the last.
NearlyOut == <<1, 0, 1>>

\* The creates differ in nothing but their name.
RequestSymmetry == Permutations(Request)

=============================================================================
