--------------------------- MODULE MCVMLifecycle ---------------------------
(***************************************************************************)
(* Small instances of VMLifecycle for TLC: two creates and one or two      *)
(* other calls of any kind.  The first of two cores has room for one VM,   *)
(* the second for the smaller VM only.                                     *)
(***************************************************************************)
EXTENDS VMLifecycle, TLC

CONSTANTS r1, r2, o1, o2

MCDemand ==
    [r \in Request |-> [Memory |-> IF r = r1 THEN 3 ELSE 2, CPU |-> 1, Disk |-> 2]]
MCStartFree ==
    << [Memory |-> 3, CPU |-> 1, Disk |-> 3],
       [Memory |-> 2, CPU |-> 2, Disk |-> 2] >>

FreshUUIDOf == [r \in Request |-> IF r = r1 THEN "u1" ELSE "u2"]

AllKinds == {"delete", "shutdown", "start", "connect", "status", "report"}

\* Two calls differ in nothing but their name.
CallSymmetry == Permutations({o1, o2})

=============================================================================
