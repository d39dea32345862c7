-------------------------- MODULE MCServerRestart --------------------------
(***************************************************************************)
(* The instance of MCVMLifecycle (the first core has room for one VM, the  *)
(* second for the smaller one only), with a restart.                       *)
(***************************************************************************)
EXTENDS ServerRestart

CONSTANTS r1, r2, o1

MCDemand ==
    [r \in Request |-> [Memory |-> IF r = r1 THEN 3 ELSE 2, CPU |-> 1, Disk |-> 2]]
MCStartFree ==
    << [Memory |-> 3, CPU |-> 1, Disk |-> 3],
       [Memory |-> 2, CPU |-> 2, Disk |-> 2] >>

\* The first core may be full when the server starts, or empty as at its first start;
\* the second is used by something else as well.
MCFreeReports ==
    << {[Memory |-> 3, Disk |-> 3], [Memory |-> 0, Disk |-> 1]},
       {[Memory |-> 2, Disk |-> 1]} >>

FreshUUIDOf == [r \in Request |-> IF r = r1 THEN "u1" ELSE "u2"]
AllKinds == {"delete", "shutdown", "start", "connect", "status", "report"}

=============================================================================
