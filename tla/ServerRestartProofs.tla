------------------------ MODULE ServerRestartProofs ------------------------
(* Theorems about ServerRestart: what is proved about a server that runs    *)
(* holds of one that stops at any moment and starts again, any number of    *)
(* times, with creates and calls under way.                                 *)
EXTENDS ServerRestart, VMLifecycleProofs

-----------------------------------------------------------------------------
(* What a restart changes.                                                 *)

\* The counters of what was under way say so; a create whose row is there is booked.
LEMMA RestartCounters ==
    ASSUME LifecycleInv, Restart
    PROVE  /\ \A p \in Request \cup Call :
                pc'[p] = IF pc[p] \in {"select", "idle", "done", "failed", "lost"}
                         THEN pc[p] ELSE "lost"
           /\ \A r \in Request :
                phase'[r] = IF row[UUIDOf[r]] = r THEN "registered"
                            ELSE IF pc[r] \in {"select", "done", "failed", "lost"}
                            THEN phase[r] ELSE "released"
           /\ UNCHANGED <<call, chosen, services>>
  BY LifecycleAssumption
     DEF Restart, StopAll, UnderWay, LifecycleInv, Typed, TypedCalls, CreateLabel

\* The tables are those of the rows.
LEMMA RestartTables ==
    ASSUME LifecycleInv, Restart
    PROVE  /\ \A c \in Core, u \in UUID :
                vmInfoIdx'[c][u] = IF row[u] # NoVM /\ chosen[row[u]] = c THEN row[u] ELSE NoVM
           /\ \A u \in UUID :
                vmLocation'[u] = IF row[u] = NoVM THEN NoCore ELSE chosen[row[u]]
  BY DEF Restart, LoadInstances

LEMMA RowsHaveCores ==
    ASSUME LifecycleInv, NEW u \in UUID, row[u] # NoVM
    PROVE  row[u] \in Request /\ UUIDOf[row[u]] = u /\ chosen[row[u]] \in Core /\ Reached(row[u])
<1>1. row[u] \in Request /\ UUIDOf[row[u]] = u /\ Reached(row[u])
  BY DEF LifecycleInv, Typed, TypedServices, Rows
<1> QED
  BY <1>1 DEF LifecycleInv, Phases, Reached

LEMMA RestartTyped == ASSUME LifecycleInv, Restart PROVE Typed'
<1>1. TypedServices'
  BY DEF Restart, services, LifecycleInv, Typed, TypedServices
<1>2. TypedCalls'
  <2>1. pc' \in [Request \cup Call -> CreateLabel \cup CallLabel]
    BY DEF Restart, StopAll, LifecycleInv, Typed, TypedCalls, CreateLabel, CallLabel
  <2> QED
    BY <2>1, RestartCounters DEF LifecycleInv, Typed, TypedCalls, CreateLabel, CallLabel
<1>3. vmInfoIdx' \in [Core -> [UUID -> Request \cup {NoVM}]]
  BY RowsHaveCores DEF Restart, LoadInstances
<1>4. vmLocation' \in [UUID -> Core \cup {NoCore}]
  BY RowsHaveCores DEF Restart, LoadInstances
<1>5. phase' \in [Request -> RM!Phase] /\ chosen' \in [Request -> Core \cup {NoCore}]
  BY DEF Restart, StopAll, LifecycleInv, Typed, TypedMemory, RM!Phase
<1> QED
  BY <1>1, <1>2, <1>3, <1>4, <1>5 DEF Typed, TypedMemory

\* Everything that had come to its rows still has.
LEMMA RestartReached ==
    ASSUME LifecycleInv, Restart, NEW r \in Request, Reached(r)
    PROVE  Reached(r)'
  BY RestartCounters, LifecycleAssumption DEF Reached

LEMMA RestartKeepsInv == ASSUME LifecycleInv, Restart PROVE LifecycleInv'
<1>1. Typed /\ Phases /\ Rows /\ Locations /\ Finds /\ Shapes
  BY DEF LifecycleInv
<1>2. Phases'
  <2> SUFFICES ASSUME NEW r \in Request
               PROVE  /\ pc'[r] \in {"select", "done", "failed", "lost"}
                      /\ pc'[r] = "select" => phase'[r] = "idle"
                      /\ pc'[r] = "done" => phase'[r] = "registered"
                      /\ pc'[r] = "failed" => phase'[r] \in {"refused", "abandoned", "released", "registered"}
                      /\ pc'[r] = "lost" => phase'[r] \in {"released", "registered"}
                      /\ phase'[r] \notin {"idle", "refused"} => chosen'[r] \in Core
    BY DEF Phases
  <2>1. row[UUIDOf[r]] = r => Reached(r)
    BY RowsHaveCores, MemoryAssumption
  <2>2. pc[r] \in CreateLabel
    BY <1>1 DEF Typed, TypedCalls
  <2>3. /\ pc[r] = "select" => phase[r] = "idle"
        /\ pc[r] = "done" => phase[r] = "registered"
        /\ pc[r] = "failed" => phase[r] \in {"refused", "abandoned", "released", "registered"}
        /\ pc[r] = "lost" => phase[r] \in {"released", "registered"}
        /\ pc[r] \notin {"select", "failed"} => phase[r] \notin {"idle", "refused"}
        /\ phase[r] \notin {"idle", "refused"} => chosen[r] \in Core
    BY <1>1, <2>2 DEF Phases, CreateLabel
  <2> QED
    BY <2>1, <2>2, <2>3, RestartCounters DEF Reached, CreateLabel
<1>3. Rows'
  BY RowsHaveCores, RestartReached, RestartCounters DEF Rows, services
<1>4. Locations'
  <2> SUFFICES ASSUME NEW u \in UUID, vmLocation'[u] # NoCore
               PROVE  Leads(u, vmLocation[u])'
    BY DEF Locations
  <2>1. row[u] # NoVM /\ vmLocation'[u] = chosen[row[u]]
    BY RestartTables
  <2> QED
    BY <2>1, RowsHaveCores, RestartReached, RestartCounters DEF Leads
<1>5. Finds'
  BY <1>1, RestartReached, RestartCounters DEF Finds, Leads, Of
<1>6. Shapes'
  <2> SUFFICES ASSUME NEW o \in Call PROVE Shape(o)'
    BY DEF Shapes
  <2>1. pc'[o] = "lost" \/ (pc'[o] = pc[o] /\ pc[o] \in {"idle", "done", "failed", "lost", "select"})
    BY RestartCounters
  <2>2. pc[o] # "select" /\ Shape(o) /\ call' = call
    BY <1>1, RestartCounters DEF Typed, TypedCalls, CallLabel, Shapes
  <2>3. pc'[o] # "idle" => pc[o] # "idle"
    BY RestartCounters
  <2> QED
    BY <2>1, <2>2, <2>3 DEF Shape, Of, AfterFind, DeleteLabel
<1> QED
  BY <1>2, <1>3, <1>4, <1>5, <1>6, RestartTyped DEF LifecycleInv

-----------------------------------------------------------------------------
(* What belongs to a create survives.                                      *)

LEMMA RestartWhole ==
    ASSUME LifecycleInv, OwnedInv, Restart, NEW r \in Request
    PROVE  Whole(r)'
<1> DEFINE u == UUIDOf[r]
<1>1. u \in UUID /\ r # NoVM /\ Whole(r) /\ pc[r] \in CreateLabel
  BY MemoryAssumption DEF OwnedInv, Wholes, LifecycleInv, Typed, TypedCalls
<1>2. /\ pc'[r] \in {"select", "done", "failed", "lost"}
      /\ pc'[r] = "done" => pc[r] = "done"
      /\ UNCHANGED <<call, chosen, domain, lease, guac, row>>
  BY <1>1, RestartCounters DEF CreateLabel, services
<1>3. DeleteSeen(u)' <=> DeleteSeen(u)
  BY <1>2 DEF DeleteSeen, Of
<1>4. row[u] = r => vmInfoIdx'[chosen[r]][u] = r /\ vmLocation'[u] = chosen[r]
  BY <1>1, RestartTables, RowsHaveCores
<1> QED
  BY <1>1, <1>2, <1>3, <1>4 DEF Whole

LEMMA RestartOwned ==
    ASSUME LifecycleInv, OwnedInv, Restart
    PROVE  OwnedInv'
<1>1. UNCHANGED <<call, chosen, domain, lease, guac, row, redis>>
  BY RestartCounters DEF services
<1>2. IndexOwned'
  <2> SUFFICES ASSUME NEW c \in Core, NEW u \in UUID, vmInfoIdx'[c][u] # NoVM
               PROVE  LET r == vmInfoIdx'[c][u] IN
                      UUIDOf[r] = u /\ chosen'[r] = c /\ phase'[r] \in {"allocated", "registered"}
    BY DEF IndexOwned
  <2>1. row[u] # NoVM /\ chosen[row[u]] = c /\ vmInfoIdx'[c][u] = row[u]
    BY RestartTables
  <2> QED
    BY <1>1, <2>1, RowsHaveCores, RestartCounters
<1>3. \A r \in Request : /\ pc[r] \notin BeforeStore => pc'[r] \notin BeforeStore
                         /\ pc[r] \notin BeforeCore => pc'[r] \notin BeforeCore
  BY RestartCounters DEF BeforeStore, BeforeCore
<1>4. DomainsOwned'
  BY <1>1, <1>3 DEF OwnedInv, DomainsOwned
<1>5. \A o \in Call : pc'[o] \notin DeleteLabel \cup {"getStatus", "setStatus", "readBack"}
  BY RestartCounters DEF DeleteLabel
<1>6. DeletesFindNone'
  BY <1>5 DEF DeletesFindNone
<1>7. StatusesStored'
  BY <1>1, <1>3, <1>5 DEF OwnedInv, StatusesStored, Stored
<1> QED
  BY <1>2, <1>4, <1>6, <1>7, RestartWhole DEF OwnedInv, Wholes

\* A step of the server, started or starting again.
RestartNext == (Next /\ UNCHANGED restarts) \/ Restart

LEMMA RestartStep ==
    ASSUME RM!FreshUUIDs
    PROVE  LifecycleInv /\ OwnedInv /\ [RestartNext]_restartVars => LifecycleInv' /\ OwnedInv'
<1>1. UNCHANGED restartVars => UNCHANGED lifecycleVars
  BY DEF restartVars
<1> QED
  BY <1>1, LifecycleStep, OwnedStep, RestartKeepsInv, RestartOwned DEF RestartNext

LEMMA RestartAlways ==
    ASSUME RM!FreshUUIDs PROVE RestartSpec => [](LifecycleInv /\ OwnedInv)
  BY LifecycleInit, OwnedInit, RestartStep, PTL DEF RestartSpec, RestartNext

-----------------------------------------------------------------------------
(* Theorems.                                                               *)

\* A VM whose create was answered is whole across any number of stops and starts: the
\* tables that LoadInstances builds (startup/init.go) say what they said before.
THEOREM WholeAcrossRestarts == ASSUME RM!FreshUUIDs PROVE RestartSpec => []CreatedIsWhole
  BY RestartAlways, OwnedMeansWhole, PTL

\* A lookup finds the one core that has the VM across restarts too, with the cache
\* filled from the rows and creates lost between any two of their steps.
THEOREM FoundAcrossRestarts == ASSUME RM!FreshUUIDs PROVE RestartSpec => []FoundWhereItIs
  BY RestartAlways, OwnedMeansFound, PTL

\* What a start reads from the database exists: CreateVM writes its rows after CMS and
\* the Core have answered, and DeleteVM is the only one that takes domain and IP away.
THEOREM RowsHaveDomains == ASSUME RM!FreshUUIDs PROVE RestartSpec => []RowHasDomain
<1>1. LifecycleInv /\ OwnedInv => RowHasDomain
  <2> SUFFICES ASSUME LifecycleInv, OwnedInv, NEW u \in UUID, row[u] # NoVM, ~DeleteSeen(u)
               PROVE  domain[chosen[row[u]]][u] # Nothing /\ row[u] \in lease
    BY DEF RowHasDomain
  <2>1. row[u] \in Request /\ UUIDOf[row[u]] = u
    BY RowsHaveCores
  <2> QED
    BY <2>1 DEF OwnedInv, Wholes, Whole
<1> QED
  BY <1>1, RestartAlways, PTL

\* No restart lets the initial status of a create replace a status that was reported.
THEOREM StatusAcrossRestarts == ASSUME RM!FreshUUIDs PROVE RestartSpec => InitialStatusComesFirst
<1>1. ASSUME LifecycleInv, OwnedInv, [RestartNext]_restartVars,
             NEW u \in UUID, redis[u] \in Reported
      PROVE  redis'[u] # Initial
  <2>1. CASE [Next]_lifecycleVars
    BY <1>1, <2>1, StatusAction
  <2>2. CASE Restart
    BY <1>1, <2>2 DEF Restart, services, Reported, Initial, Running, Stopped, Unknown
  <2> QED
    BY <1>1, <2>1, <2>2 DEF RestartNext, restartVars
<1>2. LifecycleInv /\ OwnedInv /\ [RestartNext]_restartVars
        => [\A u \in UUID : redis[u] \in Reported => redis'[u] # Initial]_lifecycleVars
  BY <1>1
<1> QED
  BY <1>2, RestartAlways, PTL DEF RestartSpec, RestartNext, InitialStatusComesFirst

\* A start deletes no rows, and a delete that it cuts off has deleted them only after
\* the VM: the server that comes back never misses a VM that runs.
THEOREM RowsOutliveAcrossRestarts == ASSUME RM!FreshUUIDs PROVE RestartSpec => RowOutlivesDomain
<1>1. ASSUME LifecycleInv, OwnedInv, [RestartNext]_restartVars,
             NEW u \in UUID, row[u] # NoVM, row'[u] = NoVM
      PROVE  \A c \in Core : domain[c][u] = Nothing
  <2>1. CASE [Next]_lifecycleVars
    BY <1>1, <2>1, RowAction
  <2>2. CASE Restart
    BY <1>1, <2>2, RestartCounters DEF services
  <2> QED
    BY <1>1, <2>1, <2>2 DEF RestartNext, restartVars
<1>2. LifecycleInv /\ OwnedInv /\ [RestartNext]_restartVars
        => [\A u \in UUID : row[u] # NoVM /\ row'[u] = NoVM
                => \A c \in Core : domain[c][u] = Nothing]_lifecycleVars
  BY <1>1
<1> QED
  BY <1>2, RestartAlways, PTL DEF RestartSpec, RestartNext, RowOutlivesDomain

-----------------------------------------------------------------------------
(* No answer is lost.                                                      *)

\* A row is of a create about to register, or of one that is registered: because it
\* came so far, or because a start has loaded the row.
RowsKept ==
    \A r \in Request : row[UUIDOf[r]] = r => pc[r] = "register" \/ phase[r] = "registered"

LEMMA RowsKeptCreate ==
    ASSUME ~LostAnswers, LifecycleInv, RowsKept, NEW r \in Request, CreateStep(r)
    PROVE  RowsKept'
<1>1. /\ Typed /\ Phases
      /\ \A p \in (Request \cup Call) \ {r} : pc'[p] = pc[p]
      /\ \A q \in Request \ {r} : phase'[q] = phase[q]
  BY CreateFrame DEF LifecycleInv
<1>2. ASSUME NEW q \in Request, q # r, row'[UUIDOf[q]] = q
      PROVE  pc'[q] = "register" \/ phase'[q] = "registered"
  <2>1. row[UUIDOf[q]] = q
    BY <1>2, CreateLocations, MemoryAssumption DEF LifecycleInv
  <2> QED
    BY <1>1, <1>2, <2>1 DEF RowsKept
<1>3. ASSUME row'[UUIDOf[r]] = r PROVE pc'[r] = "register" \/ phase'[r] = "registered"
  <2>1. CASE CreateAddInstance(r)
    <3>1. pc[r] = "addInstance" /\ phase[r] # "registered" /\ row[UUIDOf[r]] # r
      BY <1>1, <2>1 DEF CreateAddInstance, Phases, RowsKept
    <3> QED
      BY <1>1, <1>3, <2>1, <3>1 DEF CreateAddInstance, Outcome, Goto, Typed, TypedCalls
  <2>2. CASE CreateRegister(r)
    BY <1>1, <2>2 DEF CreateRegister, RM!RegisterVM, Typed, TypedMemory
  <2>3. CASE ~CreateAddInstance(r) /\ ~CreateRegister(r)
    <3>1. /\ row' = row
          /\ pc[r] \in {"select", "subnet", "configure", "allocate", "store", "coreCreate",
                        "deallocate", "unconfigure"}
      BY <2>3 DEF CreateStep, CreateSelect, CreateSubnet, CreateConfigure, CreateAllocate,
          CreateStore, CreateOnCore, CreateDeallocate, CreateUnconfigure, services
    <3>2. phase[r] # "registered"
      BY <1>1, <3>1 DEF Phases
    <3> QED
      BY <1>3, <3>1, <3>2 DEF RowsKept
  <2> QED
    BY <2>1, <2>2, <2>3
<1> QED
  BY <1>2, <1>3 DEF RowsKept

LEMMA RowsKeptStep ==
    ASSUME ~LostAnswers
    PROVE  LifecycleInv /\ RowsKept /\ [RestartNext]_restartVars => RowsKept'
<1> SUFFICES ASSUME LifecycleInv, RowsKept, [RestartNext]_restartVars PROVE RowsKept'
  OBVIOUS
<1>1. CASE UNCHANGED lifecycleVars
  BY <1>1 DEF lifecycleVars, memory, services, RowsKept
<1>2. ASSUME NEW o \in Call, CallNext(o) PROVE RowsKept'
  <2>1. phase' = phase /\ \A r \in Request : pc'[r] = pc[r]
    BY <1>2, CallFrame, LifecycleAssumption DEF LifecycleInv
  <2> QED
    BY <1>2, <2>1, CallLocations, MemoryAssumption DEF RowsKept
<1>3. CASE Restart
  BY <1>3, RestartCounters DEF RowsKept, services
<1> QED
  BY <1>1, <1>2, <1>3, RowsKeptCreate, NextMeans DEF RestartNext, restartVars

\* Every row is of a VM that is booked in memory on the core of the row, before a restart
\* and after it: what a start loads is all that the rows vouch for.
THEOREM BookedAcrossRestarts ==
    ASSUME RM!FreshUUIDs, ~LostAnswers PROVE RestartSpec => []RowIsBooked
<1>1. Init => RowsKept
  BY MemoryAssumption DEF Init, RowsKept
<1>2. LifecycleInv /\ OwnedInv /\ RowsKept => RowIsBooked
  <2> SUFFICES ASSUME LifecycleInv, OwnedInv, RowsKept, NEW u \in UUID, row[u] # NoVM
               PROVE  Booked(row[u]) /\ UUIDOf[row[u]] = u
    BY DEF RowIsBooked
  <2> DEFINE r == row[u]
  <2>1. r \in Request /\ UUIDOf[r] = u
    BY RowsHaveCores
  <2>2. (pc[r] = "register" /\ phase[r] = "allocated") \/ phase[r] = "registered"
    BY <2>1 DEF RowsKept, LifecycleInv, Phases
  <2> QED
    BY <2>1, <2>2 DEF OwnedInv, Wholes, Whole, Booked
<1> QED
  BY <1>1, <1>2, RowsKeptStep, RestartAlways, PTL DEF RestartSpec, RestartNext

-----------------------------------------------------------------------------
(* Any uuids.                                                              *)

\* Nor do the guards of the resource manager hold a handler up after a restart, uuids
\* reused or not: the tables a start builds are such as its callers leave.
THEOREM ManagerReadyAcrossRestarts == RestartSpec => []ManagerReady
<1>1. LifecycleInv /\ [RestartNext]_restartVars => LifecycleInv'
  <2>1. UNCHANGED restartVars => UNCHANGED lifecycleVars
    BY DEF restartVars
  <2> QED
    BY <2>1, LifecycleStep, RestartKeepsInv DEF RestartNext
<1>2. LifecycleInv => ManagerReady
  BY DEF LifecycleInv, Phases, Finds, Leads, Reached, Shapes, Shape, AfterFind, ManagerReady
<1> QED
  BY <1>1, <1>2, LifecycleInit, PTL DEF RestartSpec, RestartNext

=============================================================================
