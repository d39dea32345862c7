--------------------------- MODULE ServerRestart ---------------------------
(***************************************************************************)
(* VMLifecycle with a server that may stop at any moment and start again.  *)
(* Whatever was under way is lost where it was; the Cores, CMS, Guacamole, *)
(* MySQL and Redis keep what they have; the tables in memory are built     *)
(* from the rows and from what the Cores report.  The module Startup is    *)
(* the start step by step; here it is one step that succeeds.              *)
(***************************************************************************)
EXTENDS VMLifecycle

CONSTANTS
    MaxRestarts, \* bound of the restarts
    FreeReports  \* the free memory and disk that each Core may report at a start

ASSUME RestartAssumption ==
    /\ MaxRestarts \in Nat
    /\ FreeReports \in [Core -> SUBSET [{"Memory", "Disk"} -> 0..(W - 1)]]

VARIABLE restarts

restartVars == <<lifecycleVars, restarts>>

UnderWay(p) == pc[p] \notin {"select", "idle", "done", "failed", "lost"}

\* Requests and calls end with the process.  A create whose row is loaded counts as
\* registered from now on, however far it got.
StopAll ==
    /\ pc' = [p \in Request \cup Call |-> IF UnderWay(p) THEN "lost" ELSE pc[p]]
    /\ phase' = [r \in Request |->
                    IF row[UUIDOf[r]] = r THEN "registered"
                    ELSE IF UnderWay(r) THEN "released" ELSE phase[r]]
    /\ UNCHANGED <<call, chosen, interfered, staleCores>>

\* Memory and disk are what the Core finds free; the CPUs are all free again, whatever
\* VMs there are.  A report that the growing slice loses leaves nothing of the three
\* (Startup).
ReadCores ==
    \E report \in [Core -> UNION {FreeReports[c] : c \in Core}], lost \in SUBSET Core :
        /\ \A c \in Core : report[c] \in FreeReports[c]
        /\ free' = [c \in Core |-> [k \in RM!Resource |->
                        IF c \in lost THEN 0
                        ELSE IF k = "CPU" THEN StartFree[c][k] ELSE report[c][k]]]

\* Faulty: only the index of the core is filled.
LoadIndexOnly ==
    /\ vmInfoIdx' = [c \in Core |-> [u \in UUID |->
                        IF row[u] # NoVM /\ chosen[row[u]] = c THEN row[u] ELSE NoVM]]
    /\ vmLocation' = [u \in UUID |-> NoCore]
    /\ aliveVM' = <<>>

\* The rows of the database fill index and cache; nothing fills the list of the VMs
\* that are alive.
LoadInstances ==
    /\ vmInfoIdx' = [c \in Core |-> [u \in UUID |->
                        IF row[u] # NoVM /\ chosen[row[u]] = c THEN row[u] ELSE NoVM]]
    /\ vmLocation' = [u \in UUID |-> IF row[u] = NoVM THEN NoCore ELSE chosen[row[u]]]
    /\ aliveVM' = <<>>

Restart ==
    /\ restarts < MaxRestarts
    /\ restarts' = restarts + 1
    /\ StopAll
    /\ ReadCores
    /\ LoadInstances
    /\ UNCHANGED services

RestartSpec ==
    /\ Init /\ restarts = 0
    /\ [][(Next /\ UNCHANGED restarts) \/ Restart]_restartVars

-----------------------------------------------------------------------------
(* Properties.                                                             *)

\* What a start finds in the database exists: every row names a core that has the
\* VM, and its IP is taken, until somebody deletes the VM.  CreateVM writes the rows
\* only after CMS and the Core have answered, and a stop between any two steps leaves
\* no row of a VM that was never made.
RowHasDomain ==
    \A u \in UUID :
        row[u] # NoVM /\ ~DeleteSeen(u) =>
            /\ domain[chosen[row[u]]][u] # Nothing
            /\ row[u] \in lease

=============================================================================
