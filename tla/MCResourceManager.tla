------------------------- MODULE MCResourceManager -------------------------
(* Small instances of ResourceManager for TLC.                             *)
EXTENDS ResourceManager

CONSTANTS r1, r2, r3

Small  == [Memory |-> 2, CPU |-> 1, Disk |-> 2]
Large  == [Memory |-> 3, CPU |-> 2, Disk |-> 1]

MCRequest == {r1, r2, r3}
MCDemand  == [r \in MCRequest |-> IF r = r1 THEN Large ELSE Small]

\* Room for one large VM or for two small ones on core 1, for one small VM on
\* core 2, which has the memory but not the CPUs for a large one.
MCStartFree ==
    << [Memory |-> 4, CPU |-> 2, Disk |-> 4],
       [Memory |-> 3, CPU |-> 1, Disk |-> 3] >>

\* Each request has a uuid of its own.
FreshUUID   == {"u1", "u2", "u3"}
FreshUUIDOf == [r \in MCRequest |->
                  CASE r = r1 -> "u1" [] r = r2 -> "u2" [] r = r3 -> "u3"]

=============================================================================
