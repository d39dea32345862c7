------------------------- MODULE VMLifecycleProofs -------------------------
(* Theorems about VMLifecycle, for any number of creates, calls, cores and  *)
(* uuids.                                                                   *)
EXTENDS VMLifecycle, TLAPS

-----------------------------------------------------------------------------
(* Types, and what the program counters say.                               *)

CreateLabel == {"select", "subnet", "configure", "allocate", "store", "coreCreate",
                "addInstance", "register", "deallocate", "unconfigure", "done", "failed",
                "lost"}
CallLabel == {"idle", "find", "cache", "coreDelete", "releaseLease", "deleteRow",
              "unconfigure", "removeStatus", "coreShutdown", "unregister", "coreStart",
              "coreStatus", "getStatus", "setStatus", "readBack", "readInfo", "login", "done", "failed",
              "lost"}
OpKind == {"delete", "shutdown", "start", "connect", "status", "report"}

CallRecord == [kind : OpKind \cup {Nothing}, uuid : UUID \cup {Nothing},
               core : Core \cup {NoCore}, vm : Request \cup {NoVM},
               status : Reported \cup {Nothing}]

\* The tables and the program counters.
TypedMemory ==
    /\ phase \in [Request -> RM!Phase]
    /\ chosen \in [Request -> Core \cup {NoCore}]
    /\ vmInfoIdx \in [Core -> [UUID -> Request \cup {NoVM}]]
    /\ vmLocation \in [UUID -> Core \cup {NoCore}]

TypedCalls ==
    /\ pc \in [Request \cup Call -> CreateLabel \cup CallLabel]
    /\ \A r \in Request : pc[r] \in CreateLabel
    /\ \A o \in Call : pc[o] \in CallLabel
    /\ call \in [Call -> CallRecord]

TypedServices ==
    /\ domain \in [Core -> [UUID -> {Nothing, Running, Stopped}]]
    /\ lease \subseteq Request
    /\ guac \in [UUID -> Request \cup {NoVM}]
    /\ row \in [UUID -> Request \cup {NoVM}]
    /\ redis \in [UUID -> Reported \cup {Nothing, Initial}]

Typed == TypedMemory /\ TypedCalls /\ TypedServices

\* How far each create has got with the resource manager.
Phases ==
    \A r \in Request :
        /\ pc[r] = "select" => phase[r] = "idle"
        /\ pc[r] \in {"subnet", "configure", "allocate"} => phase[r] = "selected"
        /\ pc[r] \in {"store", "coreCreate", "addInstance", "register", "deallocate"}
               => phase[r] = "allocated"
        /\ pc[r] = "unconfigure" => phase[r] = "released"
        /\ pc[r] = "done" => phase[r] = "registered"
        /\ pc[r] = "failed" => phase[r] \in {"refused", "abandoned", "released", "registered"}
        /\ pc[r] = "lost" => phase[r] \in {"released", "registered"}
        /\ phase[r] \notin {"idle", "refused"} => chosen[r] \in Core

\* A create that has come to its rows, or may have.
Reached(r) ==
    /\ phase[r] \in {"allocated", "registered", "released"}
    /\ pc[r] \in {"register", "deallocate", "unconfigure", "done", "failed", "lost"}

\* The core of u is c, according to a create that has come so far.
Leads(u, c) == \E r \in Request : UUIDOf[r] = u /\ chosen[r] = c /\ Reached(r)

\* Rows, cached locations and what calls have found name the core of such a create.
Rows == \A u \in UUID : row[u] # NoVM => UUIDOf[row[u]] = u /\ Reached(row[u])
Locations == \A u \in UUID : vmLocation[u] # NoCore => Leads(u, vmLocation[u])
Finds == \A o \in Call : call[o].core # NoCore => Leads(Of(o), call[o].core)

\* The steps of a delete from the call of the Core on.
DeleteLabel == {"coreDelete", "releaseLease", "deleteRow", "unconfigure", "removeStatus"}
\* The steps that follow the lookup.
AfterFind == DeleteLabel \cup {"coreShutdown", "unregister", "coreStart", "coreStatus",
                              "readInfo", "login"}

\* What a call is, by its next step.
Shape(o) ==
    /\ pc[o] # "idle" => Of(o) \in UUID
    /\ pc[o] \in {"idle", "find"} => call[o].core = NoCore
    /\ pc[o] \in AfterFind \cup {"cache"} => call[o].core # NoCore
    /\ pc[o] \in AfterFind => vmLocation[Of(o)] # NoCore
    /\ pc[o] \in {"find", "cache"} => call[o].kind \in OpKind \ {"report"}
    /\ pc[o] \in DeleteLabel => call[o].kind = "delete"
    /\ pc[o] \in {"coreShutdown", "unregister"} => call[o].kind = "shutdown"
    /\ pc[o] = "coreStart" => call[o].kind = "start"
    /\ pc[o] = "coreStatus" => call[o].kind = "status"
    /\ pc[o] \in {"readInfo", "login"} => call[o].kind = "connect"
    /\ pc[o] \in {"getStatus", "setStatus"} =>
           call[o].kind \in {"report", "shutdown"} /\ call[o].status # Nothing
    /\ pc[o] = "readBack" => call[o].kind = "report"

Shapes == \A o \in Call : Shape(o)

LifecycleInv == Typed /\ Phases /\ Rows /\ Locations /\ Finds /\ Shapes

\* A create that takes its first step finds the types right.
LEMMA LifecycleInit == Init => LifecycleInv
<1> SUFFICES ASSUME Init PROVE LifecycleInv
  OBVIOUS
<1>1. Request \cap Call = {} /\ NoCore \notin Core /\ NoVM \notin Request
  BY LifecycleAssumption, MemoryAssumption
<1>2. Typed
  BY <1>1 DEF Init, RM!Init, RM!Phase, RM!Core, Core, Typed, TypedMemory, TypedCalls, TypedServices,
         CreateLabel, CallLabel, CallRecord, OpKind, Nothing
<1>3. Phases /\ Rows /\ Locations
  BY <1>1 DEF Init, RM!Init, RM!Core, Core, Phases, Rows, Locations
<1>4. Finds /\ Shapes
  BY <1>1 DEF Init, Finds, Shapes, Shape, AfterFind, DeleteLabel
<1> QED
  BY <1>2, <1>3, <1>4 DEF LifecycleInv

-----------------------------------------------------------------------------
(* What a step changes.                                                    *)

\* A step of a create keeps the types and changes the program counter, the phase and
\* the core of no other.
LEMMA CreateFrame ==
    ASSUME Typed, Phases, NEW r \in Request, CreateStep(r)
    PROVE  /\ TypedMemory' /\ TypedCalls' /\ TypedServices'
           /\ call' = call
           /\ \A p \in (Request \cup Call) \ {r} : pc'[p] = pc[p]
           /\ \A q \in Request \ {r} : phase'[q] = phase[q] /\ chosen'[q] = chosen[q]
<1> USE MemoryAssumption, LifecycleAssumption
    DEF Typed, TypedMemory, TypedCalls, TypedServices, CreateLabel, CallLabel, Goto,
        RM!Phase, RM!Core, Core, memory, services
<1>1. CASE CreateSelect(r)
  <2>1. CASE RM!SelectCore(r) /\ Goto(r, "subnet")
    <3>1. PICK c \in Core : chosen' = [chosen EXCEPT ![r] = c]
      BY <2>1 DEF RM!SelectCore, RM!Suitable
    <3> QED
      BY <1>1, <2>1, <3>1 DEF CreateSelect, RM!SelectCore
  <2>2. CASE RM!NoCoreFits(r) /\ Goto(r, "failed")
    BY <1>1, <2>2 DEF CreateSelect, RM!NoCoreFits
  <2> QED
    BY <1>1, <2>1, <2>2 DEF CreateSelect
<1>2. CASE CreateSubnet(r)
  <2>1. PICK applied, answered \in BOOLEAN :
          /\ lease' = IF applied THEN lease \cup {r} ELSE lease
          /\ IF answered THEN Goto(r, "configure") /\ UNCHANGED memory
                         ELSE Goto(r, "failed") /\ RM!Abandon(r)
          /\ UNCHANGED <<call, domain, guac, row, redis>>
    BY <1>2 DEF CreateSubnet
  <2>2. TypedServices' /\ call' = call
    BY <2>1
  <2>3. \E l \in CreateLabel : Goto(r, l)
    BY <2>1
  <2>4. UNCHANGED memory \/ RM!Abandon(r)
    BY <2>1
  <2>5. UNCHANGED <<vmInfoIdx, vmLocation, chosen>>
        /\ phase' \in {phase, [phase EXCEPT ![r] = "abandoned"]}
    BY <2>4 DEF RM!Abandon
  <2>6. TypedMemory' /\ \A q \in Request \ {r} : phase'[q] = phase[q] /\ chosen'[q] = chosen[q]
    BY <2>5
  <2> QED
    BY <2>2, <2>3, <2>6
<1>3. CASE CreateConfigure(r)
  <2>1. PICK applied, answered \in BOOLEAN :
          /\ guac' = IF applied THEN [guac EXCEPT ![UUIDOf[r]] = r] ELSE guac
          /\ IF answered THEN Goto(r, "allocate") /\ UNCHANGED memory
                         ELSE Goto(r, "failed") /\ RM!Abandon(r)
          /\ UNCHANGED <<call, domain, lease, row, redis>>
    BY <1>3 DEF CreateConfigure
  <2>2. TypedServices' /\ call' = call
    BY <2>1
  <2>3. \E l \in CreateLabel : Goto(r, l)
    BY <2>1
  <2>4. UNCHANGED memory \/ RM!Abandon(r)
    BY <2>1
  <2>5. UNCHANGED <<vmInfoIdx, vmLocation, chosen>>
        /\ phase' \in {phase, [phase EXCEPT ![r] = "abandoned"]}
    BY <2>4 DEF RM!Abandon
  <2>6. TypedMemory' /\ \A q \in Request \ {r} : phase'[q] = phase[q] /\ chosen'[q] = chosen[q]
    BY <2>5
  <2> QED
    BY <2>2, <2>3, <2>6
<1>4. CASE CreateAllocate(r)
  BY <1>4 DEF CreateAllocate, RM!AllocateResources
<1>5. CASE CreateStore(r)
  BY <1>5 DEF CreateStore
<1>6. CASE CreateOnCore(r)
  <2>1. chosen[r] \in Core /\ UUIDOf[r] \in UUID
    BY <1>6 DEF CreateOnCore, Phases
  <2>2. PICK applied, answered \in BOOLEAN :
          /\ domain' = IF applied THEN [domain EXCEPT ![chosen[r]][UUIDOf[r]] = Running]
                                  ELSE domain
          /\ Goto(r, IF answered THEN "addInstance" ELSE "deallocate")
          /\ UNCHANGED <<memory, call, lease, guac, row, redis>>
    BY <1>6 DEF CreateOnCore
  <2> QED
    BY <2>1, <2>2
<1>7. CASE CreateAddInstance(r)
  BY <1>7 DEF CreateAddInstance
<1>8. CASE CreateRegister(r)
  BY <1>8 DEF CreateRegister, RM!RegisterVM
<1>9. CASE CreateDeallocate(r)
  BY <1>9 DEF CreateDeallocate, RM!DeallocateResources
<1>10. CASE CreateUnconfigure(r)
  BY <1>10 DEF CreateUnconfigure, Unconfigure
<1> QED
  BY <1>1, <1>2, <1>3, <1>4, <1>5, <1>6, <1>7, <1>8, <1>9, <1>10 DEF CreateStep

\* A create that has come to its rows stays so, on its core.
ReachedStays ==
    \A q \in Request : Reached(q) => Reached(q)' /\ chosen'[q] = chosen[q]

\* Locations are set and never removed.
LocationsStay == \A u \in UUID : vmLocation[u] # NoCore => vmLocation'[u] # NoCore

LEMMA CreatePhases ==
    ASSUME Typed, Phases, NEW r \in Request, CreateStep(r)
    PROVE  Phases' /\ ReachedStays /\ LocationsStay
<1>1. /\ Typed'
      /\ \A p \in (Request \cup Call) \ {r} : pc'[p] = pc[p]
      /\ \A q \in Request \ {r} : phase'[q] = phase[q] /\ chosen'[q] = chosen[q]
  BY CreateFrame DEF Typed
<1> DEFINE PhaseOf(q) ==
        /\ pc[q] = "select" => phase[q] = "idle"
        /\ pc[q] \in {"subnet", "configure", "allocate"} => phase[q] = "selected"
        /\ pc[q] \in {"store", "coreCreate", "addInstance", "register", "deallocate"}
               => phase[q] = "allocated"
        /\ pc[q] = "unconfigure" => phase[q] = "released"
        /\ pc[q] = "done" => phase[q] = "registered"
        /\ pc[q] = "failed" => phase[q] \in {"refused", "abandoned", "released", "registered"}
        /\ pc[q] = "lost" => phase[q] \in {"released", "registered"}
        /\ phase[q] \notin {"idle", "refused"} => chosen[q] \in Core
<1>2. \A q \in Request : PhaseOf(q)
  BY DEF Phases
<1>3. SUFFICES PhaseOf(r)' /\ (Reached(r) => Reached(r)' /\ chosen'[r] = chosen[r]) /\ LocationsStay
  BY <1>1, <1>2 DEF Phases, ReachedStays, Reached, Typed, TypedMemory, TypedCalls
<1> USE <1>1, <1>2, MemoryAssumption, LifecycleAssumption
    DEF Typed, TypedMemory, TypedCalls, Goto, Core, memory, services, Reached, LocationsStay
<1>4. CASE CreateSelect(r)
  <2>1. CASE RM!SelectCore(r) /\ Goto(r, "subnet")
    <3>1. PICK c \in Core : chosen' = [chosen EXCEPT ![r] = c]
      BY <2>1 DEF RM!SelectCore, RM!Suitable
    <3> QED
      BY <1>4, <2>1, <3>1 DEF CreateSelect, RM!SelectCore
  <2>2. CASE RM!NoCoreFits(r) /\ Goto(r, "failed")
    BY <1>4, <2>2 DEF CreateSelect, RM!NoCoreFits
  <2> QED
    BY <1>4, <2>1, <2>2 DEF CreateSelect
<1>5. CASE CreateSubnet(r) \/ CreateConfigure(r)
  <2>1. pc[r] \in {"subnet", "configure"}
    BY <1>5 DEF CreateSubnet, CreateConfigure
  <2>2. \/ pc'[r] \in {"configure", "allocate"} /\ UNCHANGED memory
        \/ pc'[r] = "failed" /\ RM!Abandon(r)
    BY <1>5 DEF CreateSubnet, CreateConfigure
  <2> QED
    BY <2>1, <2>2 DEF RM!Abandon
<1>6. CASE CreateAllocate(r)
  BY <1>6 DEF CreateAllocate, RM!AllocateResources
<1>7. CASE CreateStore(r) \/ CreateOnCore(r) \/ CreateAddInstance(r) \/ CreateUnconfigure(r)
  BY <1>7 DEF CreateStore, CreateOnCore, CreateAddInstance, CreateUnconfigure
<1>8. CASE CreateRegister(r)
  <2>1. chosen[r] \in Core /\ UUIDOf[r] \in UUID
    BY <1>8 DEF CreateRegister, RM!RegisterVM
  <2>2. LocationsStay
    BY <1>8, <2>1 DEF CreateRegister, RM!RegisterVM
  <2>3. PhaseOf(r)' /\ (Reached(r) => Reached(r)' /\ chosen'[r] = chosen[r])
    BY <1>8, <2>1 DEF CreateRegister, RM!RegisterVM
  <2> QED
    BY <2>2, <2>3
<1>9. CASE CreateDeallocate(r)
  BY <1>9 DEF CreateDeallocate, RM!DeallocateResources
<1> QED
  BY <1>4, <1>5, <1>6, <1>7, <1>8, <1>9 DEF CreateStep

\* Any step of the call o, the one in which it arrives included.
CallNext(o) ==
    \/ CallStep(o)
    \/ \E kind \in Kinds, u \in UUID : Arrive(o, kind, u)
    \/ \E u \in UUID : Report(o, u)

LEMMA NextMeans ==
    Next <=> (\E r \in Request : CreateStep(r)) \/ (\E o \in Call : CallNext(o))
  BY DEF Next, CallNext

\* A step of a call goes to a step of a call, and changes its own record only.
CallMoves(o) ==
    /\ \E l \in CallLabel : Goto(o, l)
    /\ \E rec \in CallRecord : call' = [call EXCEPT ![o] = rec]

LEMMA CallMovesFrame ==
    ASSUME TypedCalls, NEW o \in Call, CallMoves(o)
    PROVE  /\ TypedCalls'
           /\ \A p \in (Request \cup Call) \ {o} : pc'[p] = pc[p]
           /\ \A q \in Call \ {o} : call'[q] = call[q]
  BY LifecycleAssumption DEF TypedCalls, CallMoves, Goto

LEMMA CallSame ==
    ASSUME TypedCalls, NEW o \in Call
    PROVE  call = [call EXCEPT ![o] = call[o]] /\ call[o] \in CallRecord
  BY DEF TypedCalls

\* A step of a call keeps the types, the bookings and every other call.
LEMMA CallFrame ==
    ASSUME Typed, Phases, Rows, Shapes, NEW o \in Call, CallNext(o)
    PROVE  /\ Typed'
           /\ UNCHANGED <<free, vmInfoIdx, phase, chosen, interfered, staleCores>>
           /\ \A p \in (Request \cup Call) \ {o} : pc'[p] = pc[p]
           /\ \A q \in Call \ {o} : call'[q] = call[q]
           /\ LocationsStay
<1> USE MemoryAssumption, LifecycleAssumption
    DEF Typed, TypedMemory, TypedServices, Core, memory, services, At, Of
<1>1. Shape(o) /\ pc[o] \in CallLabel /\ call[o] \in CallRecord
  BY DEF Shapes, TypedCalls
<1> DEFINE Kept == /\ TypedMemory' /\ TypedServices'
                   /\ UNCHANGED <<free, vmInfoIdx, phase, chosen, interfered, staleCores>>
                   /\ LocationsStay
<1>2. SUFFICES CallMoves(o) /\ Kept
  BY CallMovesFrame
<1>3. ASSUME call' = call, NEW l \in CallLabel, Goto(o, l) PROVE CallMoves(o)
  BY <1>3, CallSame DEF CallMoves
<1>4. UNCHANGED <<memory, services>> => Kept
  BY DEF LocationsStay
<1>5. ASSUME NEW kind \in Kinds, NEW u \in UUID, Arrive(o, kind, u) PROVE CallMoves(o) /\ Kept
  <2>1. call' = [call EXCEPT ![o] = [call[o] EXCEPT !.kind = kind, !.uuid = u]]
    BY <1>5 DEF Arrive, TypedCalls, CallRecord
  <2>2. [call[o] EXCEPT !.kind = kind, !.uuid = u] \in CallRecord
    BY <1>1 DEF CallRecord, OpKind
  <2> QED
    BY <1>4, <1>5, <2>1, <2>2 DEF Arrive, CallMoves, CallLabel
<1>6. ASSUME NEW u \in UUID, Report(o, u) PROVE CallMoves(o) /\ Kept
  <2>1. PICK posted :
          call' = [call EXCEPT ![o] = [@ EXCEPT !.kind = "report", !.uuid = u,
                                                !.status = ValidateAndNormalizeStatus(posted)]]
    BY <1>6 DEF Report
  <2> DEFINE s == ValidateAndNormalizeStatus(posted)
  <2>2. [call[o] EXCEPT !.kind = "report", !.uuid = u, !.status = s] \in CallRecord
    <3>1. s \in Reported
      BY DEF ValidateAndNormalizeStatus, Reported
    <3> QED
      BY <1>1, <3>1 DEF CallRecord, OpKind
  <2>3. call' = [call EXCEPT ![o] = [call[o] EXCEPT !.kind = "report", !.uuid = u, !.status = s]]
    BY <2>1 DEF TypedCalls
  <2> QED
    BY <1>4, <1>6, <2>2, <2>3 DEF Report, CallMoves, CallLabel
<1>7. ASSUME NEW c \in Core \cup {NoCore}
      PROVE  /\ [call[o] EXCEPT !.core = c] \in CallRecord
             /\ [call EXCEPT ![o].core = c] = [call EXCEPT ![o] = [call[o] EXCEPT !.core = c]]
  BY <1>1 DEF CallRecord, TypedCalls
<1>8. call[o].kind \in OpKind \ {"report"} => FirstStep(call[o].kind) \in CallLabel
  BY DEF FirstStep, OpKind, CallLabel
<1>9. CASE FindHit(o)
  <2>1. vmLocation[Of(o)] \in Core
    BY <1>1, <1>9 DEF FindHit, Shape
  <2> QED
    BY <1>1, <1>4, <1>7, <1>8, <1>9, <2>1 DEF FindHit, Shape, CallMoves
<1>10. CASE FindRow(o)
  <2>1. CASE row[Of(o)] # NoVM /\ call' = [call EXCEPT ![o].core = chosen[row[Of(o)]]] /\ Goto(o, "cache")
    <3>1. chosen[row[Of(o)]] \in Core \cup {NoCore}
      BY <1>1, <1>10, <2>1 DEF FindRow, Shape
    <3> QED
      BY <1>4, <1>7, <1>10, <2>1, <3>1 DEF FindRow, CallMoves, CallLabel
  <2>2. CASE Goto(o, "failed") /\ UNCHANGED call
    BY <1>3, <1>4, <1>10, <2>2 DEF FindRow, CallLabel
  <2> QED
    BY <1>10, <2>1, <2>2 DEF FindRow
<1>11. CASE FindCache(o)
  <2>1. call[o].core \in Core /\ Of(o) \in UUID /\ call[o].kind \in OpKind \ {"report"}
    BY <1>1, <1>11 DEF FindCache, Shape, CallRecord
  <2>2. CallMoves(o)
    BY <1>3, <1>8, <1>11, <2>1 DEF FindCache
  <2>3. Kept
    BY <1>11, <2>1 DEF FindCache, RM!CacheLocation, LocationsStay
  <2> QED
    BY <2>2, <2>3
<1>12. ASSUME NEW label \in AfterFind, NEW state \in {Nothing, Running, Stopped},
              NEW next \in CallLabel, OnCore(o, label, state, next)
       PROVE  CallMoves(o) /\ Kept
  <2>1. call[o].core \in Core /\ Of(o) \in UUID
    BY <1>1, <1>12 DEF OnCore, Shape, AfterFind, DeleteLabel, CallRecord
  <2>2. TypedServices'
    BY <1>12, <2>1 DEF OnCore
  <2>3. CallMoves(o)
    BY <1>3, <1>12 DEF OnCore, CallLabel
  <2> QED
    BY <1>12, <2>2, <2>3 DEF OnCore, LocationsStay
<1>13. CASE StartOnCore(o) \/ ShutdownOnCore(o) \/ DeleteOnCore(o)
  BY <1>12, <1>13 DEF StartOnCore, ShutdownOnCore, DeleteOnCore, AfterFind, DeleteLabel, CallLabel
<1>14. CASE ShutdownUnregister(o)
  <2>1. [call[o] EXCEPT !.status = Stopped] \in CallRecord
        /\ [call EXCEPT ![o].status = Stopped] = [call EXCEPT ![o] = [call[o] EXCEPT !.status = Stopped]]
    BY <1>1 DEF CallRecord, TypedCalls, Reported
  <2>2. Kept
    BY <1>14 DEF ShutdownUnregister, RM!UnregisterAlive, LocationsStay
  <2> QED
    BY <1>14, <2>1, <2>2 DEF ShutdownUnregister, CallMoves, CallLabel
<1>15. CASE DeleteLease(o) \/ DeleteRow(o) \/ DeleteUnconfigure(o)
  <2>1. Of(o) \in UUID
    BY <1>1, <1>15 DEF DeleteLease, DeleteRow, DeleteUnconfigure, Shape
  <2>2. Kept
    BY <1>15, <2>1 DEF DeleteLease, RequestDeleteInstance, DeleteRow, DeleteUnconfigure, Unconfigure,
                       LocationsStay
  <2> QED
    BY <1>3, <1>15, <2>2 DEF DeleteLease, DeleteRow, DeleteUnconfigure, CallLabel
<1>16. CASE DeleteRemoveStatus(o) \/ SetStatus(o)
  <2>1. Of(o) \in UUID /\ call[o].status \in Reported \cup {Nothing}
    BY <1>1, <1>16 DEF DeleteRemoveStatus, SetStatus, Shape, CallRecord
  <2>2. Kept
    BY <1>16, <2>1 DEF DeleteRemoveStatus, SetStatus, LocationsStay
  <2> QED
    BY <1>3, <1>16, <2>2 DEF DeleteRemoveStatus, SetStatus, WithoutStatus, CallLabel
<1>17. CASE StatusOnCore(o) \/ GetStatus(o) \/ ReadBack(o) \/ ConnectLogin(o)
  BY <1>3, <1>4, <1>17 DEF StatusOnCore, GetStatus, ReadBack, ConnectLogin, WithoutStatus, CallLabel
<1>18. CASE ConnectReadInfo(o)
  <2> DEFINE vm == vmInfoIdx[call[o].core][Of(o)]
  <2>1. CASE vm # NoVM /\ call' = [call EXCEPT ![o].vm = vm] /\ Goto(o, "login")
    <3>1. vm \in Request \cup {NoVM}
      BY <1>1, <1>18 DEF ConnectReadInfo, Shape, AfterFind, CallRecord
    <3>2. [call[o] EXCEPT !.vm = vm] \in CallRecord
          /\ [call EXCEPT ![o].vm = vm] = [call EXCEPT ![o] = [call[o] EXCEPT !.vm = vm]]
      BY <1>1, <3>1 DEF CallRecord, TypedCalls
    <3> QED
      BY <1>4, <1>18, <2>1, <3>2 DEF ConnectReadInfo, CallMoves, CallLabel
  <2>2. CASE Goto(o, "failed") /\ UNCHANGED call
    BY <1>3, <1>4, <1>18, <2>2 DEF ConnectReadInfo, CallLabel
  <2> QED
    BY <1>18, <2>1, <2>2 DEF ConnectReadInfo
<1> QED
  BY <1>5, <1>6, <1>9, <1>10, <1>11, <1>13, <1>14, <1>15, <1>16, <1>17, <1>18 DEF CallNext, CallStep

-----------------------------------------------------------------------------
(* The invariant of the program counters is inductive.                     *)

\* What a create's step does to a location and to a row.
LEMMA CreateLocations ==
    ASSUME Typed, Phases, NEW r \in Request, CreateStep(r), NEW u \in UUID
    PROVE  /\ \/ vmLocation'[u] = vmLocation[u]
              \/ UUIDOf[r] = u /\ vmLocation'[u] = chosen[r] /\ Reached(r)
           /\ \/ row'[u] = row[u]
              \/ pc[r] = "addInstance" /\ UUIDOf[r] = u /\ row'[u] = r
<1> USE MemoryAssumption DEF Typed, TypedMemory, TypedServices, memory, services
<1>1. CASE CreateRegister(r)
  <2>1. phase[r] = "allocated" /\ pc[r] = "register"
    BY <1>1 DEF CreateRegister, RM!RegisterVM
  <2> QED
    BY <1>1, <2>1 DEF CreateRegister, RM!RegisterVM, Reached
<1>2. CASE CreateAddInstance(r)
  BY <1>2 DEF CreateAddInstance
<1>3. CASE CreateSelect(r)
  BY <1>3 DEF CreateSelect, RM!SelectCore, RM!NoCoreFits
<1>4. CASE CreateSubnet(r) \/ CreateConfigure(r)
  BY <1>4 DEF CreateSubnet, CreateConfigure, RM!Abandon
<1>5. CASE CreateAllocate(r) \/ CreateDeallocate(r)
  BY <1>5 DEF CreateAllocate, CreateDeallocate, RM!AllocateResources, RM!DeallocateResources
<1>6. CASE CreateStore(r) \/ CreateOnCore(r) \/ CreateUnconfigure(r)
  BY <1>6 DEF CreateStore, CreateOnCore, CreateUnconfigure
<1> QED
  BY <1>1, <1>2, <1>3, <1>4, <1>5, <1>6 DEF CreateStep

LEMMA CreateKeepsInv ==
    ASSUME LifecycleInv, NEW r \in Request, CreateStep(r)
    PROVE  LifecycleInv'
<1>1. Typed /\ Phases /\ Rows /\ Locations /\ Finds /\ Shapes
  BY DEF LifecycleInv
<1>2. /\ Typed' /\ call' = call
      /\ \A p \in (Request \cup Call) \ {r} : pc'[p] = pc[p]
  BY <1>1, CreateFrame DEF Typed
<1>3. Phases' /\ ReachedStays /\ LocationsStay
  BY <1>1, CreatePhases
<1>4. \A u \in UUID, c \in Core : Leads(u, c) => Leads(u, c)'
  BY <1>3 DEF ReachedStays, Leads
<1>5. ASSUME NEW u \in UUID, row'[u] # NoVM
      PROVE  UUIDOf[row'[u]] = u /\ Reached(row[u])'
  <2>1. CASE row'[u] = row[u]
    BY <1>1, <1>3, <1>5, <2>1 DEF Rows, ReachedStays, Typed, TypedServices
  <2>2. CASE pc[r] = "addInstance" /\ UUIDOf[r] = u /\ row'[u] = r
    <3>1. phase'[r] = phase[r] /\ pc'[r] \in {"register", "deallocate"}
      <4>1. CreateAddInstance(r)
        BY <2>2 DEF CreateStep, CreateSelect, CreateSubnet, CreateConfigure, CreateAllocate,
                    CreateStore, CreateOnCore, CreateRegister, CreateDeallocate, CreateUnconfigure
      <4> QED
        BY <1>1, <4>1, LifecycleAssumption DEF CreateAddInstance, Goto, memory, Typed, TypedCalls
    <3> QED
      BY <1>1, <2>2, <3>1 DEF Phases, Reached
  <2> QED
    BY <1>1, <2>1, <2>2, CreateLocations
<1>6. ASSUME NEW u \in UUID, vmLocation'[u] # NoCore
      PROVE  Leads(u, vmLocation[u])'
  <2>1. CASE vmLocation'[u] = vmLocation[u]
    BY <1>1, <1>4, <1>6, <2>1 DEF Locations, Typed, TypedMemory
  <2>2. CASE UUIDOf[r] = u /\ vmLocation'[u] = chosen[r] /\ Reached(r)
    BY <1>3, <2>2 DEF ReachedStays, Leads
  <2> QED
    BY <1>1, <2>1, <2>2, CreateLocations
<1>7. ASSUME NEW o \in Call, call'[o].core # NoCore
      PROVE  Leads(Of(o), call[o].core)'
  BY <1>1, <1>2, <1>3, <1>7 DEF Finds, Leads, Of, ReachedStays
<1>8. ASSUME NEW o \in Call PROVE Shape(o)'
  <2>1. pc'[o] = pc[o]
    BY <1>2, LifecycleAssumption
  <2>2. pc[o] \in AfterFind => Of(o) \in UUID /\ vmLocation'[Of(o)] # NoCore
    BY <1>1, <1>3 DEF Shapes, Shape, LocationsStay, AfterFind, DeleteLabel
  <2> QED
    BY <1>1, <1>2, <2>1, <2>2 DEF Shapes, Shape, Of
<1> QED
  BY <1>2, <1>3, <1>5, <1>6, <1>7, <1>8 DEF LifecycleInv, Rows, Locations, Finds, Shapes, Of

\* What a call's step does to the rows, the locations and what it has found.
LEMMA CallLocations ==
    ASSUME LifecycleInv, NEW o \in Call, CallNext(o)
    PROVE  /\ \A u \in UUID : row'[u] \in {row[u], NoVM}
           /\ \A u \in UUID : \/ vmLocation'[u] = vmLocation[u]
                              \/ pc[o] = "cache" /\ u = Of(o) /\ vmLocation'[u] = call[o].core
           /\ call'[o].core # NoCore =>
                  /\ call'[o].uuid = Of(o)
                  /\ Leads(Of(o), call'[o].core)
<1>1. /\ Typed /\ Phases /\ Rows /\ Locations /\ Shape(o)
      /\ call[o].core # NoCore => Leads(Of(o), call[o].core)
      /\ call[o] \in CallRecord
  BY DEF LifecycleInv, Shapes, Finds, Typed, TypedCalls
<1> DEFINE RowKept == \A u \in UUID : row'[u] \in {row[u], NoVM}
           Found == call'[o].core # NoCore =>
                        call'[o].uuid = Of(o) /\ Leads(Of(o), call'[o].core)
           LocationKept == \A u \in UUID :
                              \/ vmLocation'[u] = vmLocation[u]
                              \/ pc[o] = "cache" /\ u = Of(o) /\ vmLocation'[u] = call[o].core
<1> USE <1>1 DEF TypedMemory, TypedCalls, TypedServices, memory, services, At, Of
<1>2. RowKept
  BY DEF CallNext, CallStep, Arrive, Report, FindHit, FindRow, FindCache, StatusOnCore, OnCore, StartOnCore,
         ShutdownOnCore, DeleteOnCore, ShutdownUnregister, DeleteLease, DeleteRow,
         DeleteUnconfigure, DeleteRemoveStatus, GetStatus, SetStatus, ReadBack, ConnectReadInfo,
         ConnectLogin, Typed
<1>3. LocationKept
  BY DEF CallNext, CallStep, Arrive, Report, FindHit, FindRow, FindCache, StatusOnCore, OnCore, StartOnCore,
         ShutdownOnCore, DeleteOnCore, ShutdownUnregister, DeleteLease, DeleteRow,
         DeleteUnconfigure, DeleteRemoveStatus, GetStatus, SetStatus, ReadBack, ConnectReadInfo,
         ConnectLogin, Typed, RM!CacheLocation, RM!UnregisterAlive
<1>4. Found
  <2>1. CASE UNCHANGED call
    BY <2>1
  <2>2. CASE (\E kind \in Kinds, u \in UUID : Arrive(o, kind, u)) \/ (\E u \in UUID : Report(o, u))
    <3>1. pc[o] = "idle" /\ call'[o].core = call[o].core
      <4>1. ASSUME NEW kind \in Kinds, NEW u \in UUID, Arrive(o, kind, u)
            PROVE  call'[o] = [call[o] EXCEPT !.kind = kind, !.uuid = u] /\ pc[o] = "idle"
        BY <4>1 DEF Arrive, Typed
      <4>2. ASSUME NEW u \in UUID, Report(o, u)
            PROVE  pc[o] = "idle" /\ \E x :
                       call'[o] = [call[o] EXCEPT !.kind = "report", !.uuid = u, !.status = x]
        BY <4>2 DEF Report, Typed
      <4> QED
        BY <2>2, <4>1, <4>2 DEF CallRecord
    <3> QED
      BY <3>1 DEF Shape
  <2>3. CASE FindHit(o)
    <3>1. Of(o) \in UUID /\ vmLocation[Of(o)] # NoCore
          /\ call' = [call EXCEPT ![o].core = vmLocation[Of(o)]]
      BY <2>3 DEF FindHit, Shape
    <3> QED
      BY <3>1 DEF Locations, CallRecord, Typed
  <2>4. CASE FindRow(o)
    <3>1. SUFFICES ASSUME row[Of(o)] # NoVM, call' = [call EXCEPT ![o].core = chosen[row[Of(o)]]]
                   PROVE  Found
      BY <2>1, <2>4 DEF FindRow
    <3>2. UUIDOf[row[Of(o)]] = Of(o) /\ Reached(row[Of(o)]) /\ row[Of(o)] \in Request
      BY <2>4, <3>1 DEF FindRow, Shape, Rows, Typed
    <3> QED
      BY <3>1, <3>2 DEF Leads, CallRecord, Typed
  <2>5. CASE ShutdownUnregister(o) \/ ConnectReadInfo(o)
    BY <2>5 DEF ShutdownUnregister, ConnectReadInfo, Typed, CallRecord
  <2> QED
    BY <2>1, <2>2, <2>3, <2>4, <2>5
       DEF CallNext, CallStep, FindCache, StatusOnCore, OnCore, StartOnCore,
         ShutdownOnCore, DeleteOnCore, DeleteLease, DeleteRow,
         DeleteUnconfigure, DeleteRemoveStatus, GetStatus, SetStatus, ReadBack, ConnectLogin
<1> QED
  BY <1>2, <1>3, <1>4

\* A call's step leads to a step that its kind has.
LEMMA CallShape ==
    ASSUME LifecycleInv, NEW o \in Call, CallNext(o)
    PROVE  Shape(o)'
<1>1. /\ Typed /\ Shape(o) /\ pc[o] \in CallLabel /\ call[o] \in CallRecord /\ LocationsStay
  BY CallFrame DEF LifecycleInv, Shapes, Typed, TypedCalls
<1> USE <1>1, LifecycleAssumption
    DEF TypedMemory, TypedCalls, memory, services, At, Of, Shape, AfterFind,
        DeleteLabel, Goto, LocationsStay
<1>2. ASSUME NEW kind \in Kinds, NEW u \in UUID, Arrive(o, kind, u) PROVE Shape(o)'
  BY <1>2 DEF Arrive, Typed, OpKind
<1>3. ASSUME NEW u \in UUID, Report(o, u) PROVE Shape(o)'
  <2>1. PICK posted :
          /\ call'[o] = [call[o] EXCEPT !.kind = "report", !.uuid = u,
                                        !.status = ValidateAndNormalizeStatus(posted)]
          /\ pc'[o] = "getStatus"
    BY <1>3 DEF Report, Typed
  <2>2. ValidateAndNormalizeStatus(posted) # Nothing
    BY DEF ValidateAndNormalizeStatus, Reported, Running, Stopped, Unknown, Nothing
  <2> QED
    BY <2>1, <2>2 DEF CallRecord
<1>4. CASE FindHit(o)
  <2>1. pc[o] = "find" /\ vmLocation[Of(o)] # NoCore /\ vmLocation' = vmLocation
        /\ Goto(o, FirstStep(call[o].kind)) /\ call' = [call EXCEPT ![o].core = vmLocation[Of(o)]]
    BY <1>4 DEF FindHit
  <2>2. call'[o] = [call[o] EXCEPT !.core = vmLocation[Of(o)]]
    BY <2>1 DEF Typed
  <2> QED
    BY <2>1, <2>2 DEF FirstStep, OpKind, Typed, CallRecord
<1>11. CASE FindRow(o)
  <2>1. pc[o] = "find" /\ vmLocation' = vmLocation /\ pc'[o] \in {"cache", "failed"}
    BY <1>11 DEF FindRow, Typed
  <2>2. CASE pc'[o] = "failed"
    BY <1>11, <2>1, <2>2 DEF FindRow, Typed, CallRecord
  <2>3. CASE pc'[o] = "cache"
    <3>1. row[Of(o)] # NoVM /\ call' = [call EXCEPT ![o].core = chosen[row[Of(o)]]]
      BY <1>11, <2>3 DEF FindRow, Typed
    <3>2. chosen[row[Of(o)]] # NoCore
      <4>1. Of(o) \in UUID /\ row[Of(o)] \in Request
        BY <2>1, <3>1 DEF Typed, TypedServices
      <4>2. Reached(row[Of(o)])
        BY <3>1, <4>1 DEF LifecycleInv, Rows
      <4> QED
        BY <4>1, <4>2, MemoryAssumption DEF LifecycleInv, Phases, Reached
    <3>3. call'[o] = [call[o] EXCEPT !.core = chosen[row[Of(o)]]]
      BY <3>1 DEF Typed
    <3> QED
      BY <2>1, <2>3, <3>2, <3>3 DEF Typed, CallRecord
  <2> QED
    BY <2>1, <2>2, <2>3
<1>5. CASE FindCache(o)
  BY <1>5 DEF FindCache, FirstStep, OpKind, Typed, CallRecord, RM!CacheLocation
<1>6. CASE StartOnCore(o) \/ ShutdownOnCore(o) \/ DeleteOnCore(o)
  BY <1>6 DEF StartOnCore, ShutdownOnCore, DeleteOnCore, OnCore, Typed
<1>7. CASE ShutdownUnregister(o)
  <2>1. pc'[o] = "getStatus" /\ call'[o] = [call[o] EXCEPT !.status = Stopped]
        /\ pc[o] = "unregister"
    BY <1>7 DEF ShutdownUnregister, Typed
  <2> QED
    BY <2>1 DEF CallRecord, Stopped, Nothing
<1>8. CASE DeleteLease(o) \/ DeleteRow(o) \/ DeleteUnconfigure(o) \/ DeleteRemoveStatus(o)
  BY <1>8 DEF DeleteLease, DeleteRow, DeleteUnconfigure, DeleteRemoveStatus, Typed
<1>9. CASE StatusOnCore(o) \/ GetStatus(o) \/ SetStatus(o) \/ ReadBack(o) \/ ConnectLogin(o)
  BY <1>9 DEF StatusOnCore, GetStatus, SetStatus, ReadBack, ConnectLogin, WithoutStatus, Typed
<1>10. CASE ConnectReadInfo(o)
  BY <1>10 DEF ConnectReadInfo, Typed, CallRecord
<1> QED
  BY <1>2, <1>3, <1>4, <1>5, <1>6, <1>7, <1>8, <1>9, <1>10, <1>11
     DEF CallNext, CallStep

LEMMA CallKeepsInv ==
    ASSUME LifecycleInv, NEW o \in Call, CallNext(o)
    PROVE  LifecycleInv'
<1>1. Typed /\ Phases /\ Rows /\ Locations /\ Finds /\ Shapes
  BY DEF LifecycleInv
<1>2. /\ Typed' /\ UNCHANGED <<phase, chosen>>
      /\ \A p \in (Request \cup Call) \ {o} : pc'[p] = pc[p]
      /\ \A q \in Call \ {o} : call'[q] = call[q]
      /\ LocationsStay
  BY <1>1, CallFrame
<1>3. \A r \in Request : pc'[r] = pc[r]
  BY <1>2, LifecycleAssumption
<1>4. Phases' /\ (\A r \in Request : Reached(r)' = Reached(r))
  BY <1>1, <1>2, <1>3 DEF Phases, Reached
<1>5. \A u \in UUID, c \in Core : Leads(u, c) => Leads(u, c)'
  BY <1>2, <1>4 DEF Leads
<1>6. Rows'
  BY <1>1, <1>4, CallLocations DEF Rows, Typed, TypedServices
<1>7. Locations'
  <2> SUFFICES ASSUME NEW u \in UUID, vmLocation'[u] # NoCore
               PROVE  Leads(u, vmLocation[u])'
    BY DEF Locations
  <2>1. Leads(u, vmLocation'[u])
    BY <1>1, CallLocations DEF Locations, Finds
  <2> QED
    BY <1>2, <1>5, <2>1 DEF Typed, TypedMemory
<1>8. Finds'
  <2> SUFFICES ASSUME NEW q \in Call, call'[q].core # NoCore
               PROVE  Leads(Of(q), call[q].core)'
    BY DEF Finds, Of
  <2>1. Leads(call'[q].uuid, call'[q].core)
    BY <1>1, <1>2, CallLocations DEF Finds, Of
  <2> QED
    BY <1>2, <1>4, <2>1 DEF Leads, Of
<1>9. Shapes'
  <2> SUFFICES ASSUME NEW q \in Call PROVE Shape(q)'
    BY DEF Shapes
  <2>1. CASE q = o
    BY <2>1, CallShape
  <2>2. CASE q # o
    <3>1. pc'[q] = pc[q] /\ call'[q] = call[q] /\ Shape(q)
      BY <1>1, <1>2, <2>2 DEF Shapes
    <3>2. pc[q] \in AfterFind => Of(q) \in UUID /\ vmLocation'[Of(q)] # NoCore
      BY <1>2, <3>1 DEF Shape, LocationsStay, AfterFind, DeleteLabel
    <3> QED
      BY <3>1, <3>2 DEF Shape, Of
  <2> QED
    BY <2>1, <2>2
<1> QED
  BY <1>2, <1>4, <1>6, <1>7, <1>8, <1>9 DEF LifecycleInv

LEMMA LifecycleStep == LifecycleInv /\ [Next]_lifecycleVars => LifecycleInv'
<1>1. ASSUME LifecycleInv, UNCHANGED lifecycleVars PROVE LifecycleInv'
  BY <1>1 DEF LifecycleInv, lifecycleVars, memory, services, Typed, TypedMemory, TypedCalls,
              TypedServices, Phases, Rows, Locations, Finds, Shapes, Shape, Leads, Reached, Of
<1> QED
  BY <1>1, NextMeans, CreateKeepsInv, CallKeepsInv

LEMMA LifecycleAlways == Spec => []LifecycleInv
  BY LifecycleInit, LifecycleStep, PTL DEF Spec

-----------------------------------------------------------------------------
(* The handlers and the resource manager.                                  *)

\* The guards of the manager's operations never hold a handler up: CreateVM selects,
\* allocates, registers and rolls back in the order the manager expects (service/vm.go),
\* FindCoreByVmUUID caches a location that a create has chosen, and ShutdownVM takes
\* a VM off the list only after it has found its core.
THEOREM ManagerAlwaysReady == Spec => []ManagerReady
<1>1. LifecycleInv => ManagerReady
  BY DEF LifecycleInv, Phases, Finds, Leads, Reached, Shapes, Shape, AfterFind, ManagerReady
<1> QED
  BY <1>1, LifecycleAlways, PTL

\* The memory of the server takes steps of the resource manager only.
LEMMA MemoryIsManaged == Spec => RM!Spec
<1>1. Init => RM!Init
  BY DEF Init
<1>2. ASSUME NEW r \in Request, CreateStep(r) PROVE RM!RequestNext(r) \/ UNCHANGED memory
  BY <1>2 DEF CreateStep, CreateSelect, CreateSubnet, CreateConfigure, CreateAllocate, CreateStore,
              CreateOnCore, CreateAddInstance, CreateRegister, CreateDeallocate, CreateUnconfigure,
              RM!RequestNext
<1>3. ASSUME LifecycleInv, NEW o \in Call, CallNext(o)
      PROVE  \/ \E u \in UUID, c \in Core : RM!CacheLocation(u, c)
             \/ \E u \in UUID : RM!UnregisterAlive(u)
             \/ UNCHANGED memory
  <2>1. Shape(o) /\ call[o] \in CallRecord
    BY <1>3 DEF LifecycleInv, Shapes, Typed, TypedCalls
  <2>2. CASE FindCache(o)
    <3>1. Of(o) \in UUID /\ call[o].core \in Core
      BY <2>1, <2>2 DEF FindCache, At, Shape, CallRecord
    <3> QED
      BY <2>2, <3>1 DEF FindCache
  <2>3. CASE ShutdownUnregister(o)
    <3>1. Of(o) \in UUID
      BY <2>1, <2>3 DEF ShutdownUnregister, At, Shape
    <3> QED
      BY <2>3, <3>1 DEF ShutdownUnregister
  <2> QED
    BY <1>3, <2>2, <2>3
       DEF CallNext, CallStep, Arrive, Report, FindHit, FindRow, StatusOnCore, OnCore, StartOnCore,
           ShutdownOnCore, DeleteOnCore, DeleteLease, DeleteRow, DeleteUnconfigure,
           DeleteRemoveStatus, GetStatus, SetStatus, ReadBack, ConnectReadInfo, ConnectLogin
<1>4. LifecycleInv /\ [Next]_lifecycleVars => [RM!Next]_RM!vars
  <2> SUFFICES ASSUME LifecycleInv, [Next]_lifecycleVars PROVE RM!Next \/ UNCHANGED memory
    BY DEF RM!vars, memory
  <2>1. CASE UNCHANGED lifecycleVars
    BY <2>1 DEF lifecycleVars
  <2>2. CASE Next
    BY <1>2, <1>3, <2>2, NextMeans DEF RM!Next, RM!Core, Core
  <2> QED
    BY <2>1, <2>2
<1> QED
  BY <1>1, <1>4, LifecycleAlways, PTL DEF Spec, RM!Spec

\* What is proved about the resource manager holds of the server's memory.
RMP == INSTANCE ResourceManagerProofs

LEMMA ManagerAssumed == RMP!ResourceAssumption
  BY MemoryAssumption
     DEF RMP!ResourceAssumption, RMP!Core, Core, RMP!Resource, RM!Resource, RMP!IsFiniteSet, IsFiniteSet

LEMMA ManagerSame == RM!Spec <=> RMP!Spec
<1>1. RM!Init <=> RMP!Init
  BY DEF RM!Init, RMP!Init, RM!Core, RMP!Core
<1>2. [RM!Next]_RM!vars <=> [RMP!Next]_RMP!vars
  BY DEF RM!Next, RMP!Next, RM!vars, RMP!vars, RM!RequestNext, RMP!RequestNext,
         RM!SelectCore, RMP!SelectCore, RM!NoCoreFits, RMP!NoCoreFits, RM!Abandon, RMP!Abandon,
         RM!AllocateResources, RMP!AllocateResources, RM!DeallocateResources, RMP!DeallocateResources,
         RM!RegisterVM, RMP!RegisterVM, RM!CacheLocation, RMP!CacheLocation,
         RM!UnregisterAlive, RMP!UnregisterAlive, RM!Suitable, RMP!Suitable, RM!Fits, RMP!Fits,
         RM!Core, RMP!Core, RM!Resource, RMP!Resource, RM!SubWord, RMP!SubWord, RM!AddWord, RMP!AddWord,
         RM!Waiting, RMP!Waiting, RM!AliveAt, RMP!AliveAt, RMP!RemoveAt, RM!RemoveAt
<1> QED
  BY <1>1, <1>2, PTL DEF RM!Spec, RMP!Spec

\* Whatever the handlers interleave and whichever calls fail, a rollback follows each
\* allocation at most once and a booking is made for one create only: Free* is what
\* is left modulo 2^32, and exactly what is left on every core that no stale selection
\* was booked on.
THEOREM BookingsAddUp ==
    Spec => [](RM!AccountingModWord /\ RM!OvercommitNeedsStaleSelection)
<1>1. RMP!Spec => []RMP!AccountingModWord
  BY ManagerAssumed, RMP!Accounting
<1>2. RMP!Spec => []RMP!OvercommitNeedsStaleSelection
  BY ManagerAssumed, RMP!Overcommit
<1>3. \A c \in RM!Core, k \in RM!Resource : RM!Reserved(c, k) = RMP!Reserved(c, k)
  BY DEF RM!Reserved, RMP!Reserved, RM!DemandOf, RMP!DemandOf, RM!Held, RMP!Held, RM!Units, RMP!Units,
         RM!Cardinality, RMP!Cardinality, RM!Resource, RMP!Resource
<1>4. RM!AccountingModWord <=> RMP!AccountingModWord
  BY <1>3 DEF RM!AccountingModWord, RMP!AccountingModWord, RM!Core, RMP!Core, RM!Resource, RMP!Resource
<1>5. RM!OvercommitNeedsStaleSelection <=> RMP!OvercommitNeedsStaleSelection
  BY <1>3 DEF RM!OvercommitNeedsStaleSelection, RMP!OvercommitNeedsStaleSelection,
              RM!Core, RMP!Core, RM!Resource, RMP!Resource
<1> QED
  BY <1>1, <1>2, <1>4, <1>5, MemoryIsManaged, ManagerSame, PTL

-----------------------------------------------------------------------------
(* What belongs to one create.                                             *)

\* An index entry is the record of a create that has it booked on that core.
IndexOwned ==
    \A c \in Core, u \in UUID :
        LET r == vmInfoIdx[c][u] IN
        r # NoVM => UUIDOf[r] = u /\ chosen[r] = c /\ phase[r] \in {"allocated", "registered"}

\* The steps of a create before it calls the Core, and before it stores the status.
BeforeStore == {"select", "subnet", "configure", "allocate", "store"}
BeforeCore == BeforeStore \cup {"coreCreate"}

\* A core has a VM only if a create that chose it has come to the Core.
DomainsOwned ==
    \A c \in Core, u \in UUID :
        domain[c][u] # Nothing =>
            \E r \in Request : UUIDOf[r] = u /\ chosen[r] = c /\ pc[r] \notin BeforeCore

\* What a create has made stays until somebody deletes the VM.
Whole(r) ==
    LET u == UUIDOf[r]
        Past(l) == pc[r] = l \/ pc[r] \in {"register", "done"}
    IN
    /\ ~DeleteSeen(u) =>
        /\ Past("configure") \/ pc[r] \in {"allocate", "store", "coreCreate", "addInstance"}
               => r \in lease
        /\ Past("allocate") \/ pc[r] \in {"store", "coreCreate", "addInstance"} => guac[u] = r
        /\ Past("addInstance") => domain[chosen[r]][u] # Nothing
        /\ Past("register") => row[u] = r
        /\ pc[r] = "done" => vmInfoIdx[chosen[r]][u] = r /\ vmLocation[u] = chosen[r]
        /\ row[u] = r => domain[chosen[r]][u] # Nothing /\ r \in lease
    /\ pc[r] \in {"store", "coreCreate", "addInstance", "register", "deallocate"}
           => vmInfoIdx[chosen[r]][u] = r
    /\ row[u] = r /\ phase[r] = "registered" => vmInfoIdx[chosen[r]][u] = r

Wholes == \A r \in Request : Whole(r)

\* A delete goes on after the Core only once no core has the VM.
DeletesFindNone ==
    \A o \in Call :
        pc[o] \in DeleteLabel \ {"coreDelete"} => \A c \in Core : domain[c][Of(o)] = Nothing

\* The initial status of u has been stored, if it ever is.
Stored(u) == \E r \in Request : UUIDOf[r] = u /\ pc[r] \notin BeforeStore

\* Whatever sets a status comes after that.
StatusesStored ==
    /\ \A u \in UUID : redis[u] \in Reported => Stored(u)
    /\ \A o \in Call : pc[o] \in {"getStatus", "setStatus", "readBack"} => Stored(Of(o))

OwnedInv == IndexOwned /\ DomainsOwned /\ Wholes /\ DeletesFindNone /\ StatusesStored

LEMMA OwnedInit == Init => OwnedInv
<1> SUFFICES ASSUME Init PROVE OwnedInv
  OBVIOUS
<1>1. UUIDOf \in [Request -> UUID] /\ NoCore \notin Core /\ NoVM \notin Request /\ Request \cap Call = {}
  BY LifecycleAssumption, MemoryAssumption
<1>2. IndexOwned /\ DomainsOwned /\ DeletesFindNone
  BY <1>1 DEF Init, RM!Init, RM!Core, Core, IndexOwned, DomainsOwned, DeletesFindNone, DeleteLabel, Nothing
<1>3. Wholes
  BY <1>1 DEF Init, RM!Init, Wholes, Whole
<1>4. StatusesStored
  BY <1>1 DEF Init, StatusesStored, Reported, Running, Stopped, Unknown, Nothing
<1> QED
  BY <1>2, <1>3, <1>4 DEF OwnedInv

\* A step of a create leaves what is kept under other uuids alone.
LEMMA CreateLocal ==
    ASSUME LifecycleInv, NEW r \in Request, CreateStep(r)
    PROVE  /\ \A v \in UUID \ {UUIDOf[r]} :
                /\ \A c \in Core : domain'[c][v] = domain[c][v] /\ vmInfoIdx'[c][v] = vmInfoIdx[c][v]
                /\ guac'[v] = guac[v] /\ row'[v] = row[v] /\ redis'[v] = redis[v]
                /\ vmLocation'[v] = vmLocation[v]
           /\ \A q \in Request \ {r} : q \in lease' <=> q \in lease
<1> USE MemoryAssumption
    DEF LifecycleInv, Typed, TypedMemory, TypedServices, memory, services
<1>1. CASE CreateSelect(r)
  BY <1>1 DEF CreateSelect, RM!SelectCore, RM!NoCoreFits
<1>2. CASE CreateSubnet(r)
  BY <1>2 DEF CreateSubnet, RM!Abandon
<1>3. CASE CreateConfigure(r)
  BY <1>3 DEF CreateConfigure, RM!Abandon
<1>4. CASE CreateAllocate(r) \/ CreateDeallocate(r)
  <2>1. PICK x \in Request \cup {NoVM} : vmInfoIdx' = [vmInfoIdx EXCEPT ![chosen[r]][UUIDOf[r]] = x]
    BY <1>4 DEF CreateAllocate, CreateDeallocate, RM!AllocateResources, RM!DeallocateResources
  <2>2. UNCHANGED <<services, vmLocation>>
    BY <1>4 DEF CreateAllocate, CreateDeallocate, RM!AllocateResources, RM!DeallocateResources
  <2> QED
    BY <2>1, <2>2
<1>5. CASE CreateStore(r)
  BY <1>5 DEF CreateStore
<1>6. CASE CreateOnCore(r)
  BY <1>6 DEF CreateOnCore
<1>7. CASE CreateAddInstance(r)
  BY <1>7 DEF CreateAddInstance
<1>8. CASE CreateRegister(r)
  BY <1>8 DEF CreateRegister, RM!RegisterVM
<1>9. CASE CreateUnconfigure(r)
  BY <1>9 DEF CreateUnconfigure, Unconfigure
<1> QED
  BY <1>1, <1>2, <1>3, <1>4, <1>5, <1>6, <1>7, <1>8, <1>9 DEF CreateStep

\* What a call has found it keeps.
LEMMA CallFoundStays ==
    ASSUME LifecycleInv, NEW o \in Call, CallNext(o), NEW q \in Call, call[q].core # NoCore
    PROVE  call'[q].kind = call[q].kind /\ call'[q].uuid = call[q].uuid /\ call'[q].core # NoCore
<1>1. Typed /\ Shape(o) /\ call[o] \in CallRecord
  BY DEF LifecycleInv, Shapes, Typed, TypedCalls
<1>2. \A p \in Call \ {o} : call'[p] = call[p]
  BY CallFrame DEF LifecycleInv
<1>3. SUFFICES ASSUME q = o, call'[o] # call[o]
               PROVE  call'[o].kind = call[o].kind /\ call'[o].uuid = call[o].uuid /\ call'[o].core # NoCore
  BY <1>2
<1>4. pc[o] \notin {"idle", "find"}
  BY <1>1, <1>3 DEF Shape
<1>5. ShutdownUnregister(o) \/ ConnectReadInfo(o)
  BY <1>3, <1>4
     DEF CallNext, CallStep, Arrive, Report, FindHit, FindRow, FindCache, StatusOnCore, OnCore, StartOnCore,
         ShutdownOnCore, DeleteOnCore, DeleteLease, DeleteRow, DeleteUnconfigure,
         DeleteRemoveStatus, GetStatus, SetStatus, ReadBack, ConnectLogin, At
<1>6. \/ call' = [call EXCEPT ![o].status = Stopped]
      \/ \E vm \in Request \cup {NoVM} : call' = [call EXCEPT ![o].vm = vm]
  <2>1. Of(o) \in UUID /\ call[o].core \in Core
    BY <1>1, <1>3, <1>4, <1>5 DEF ShutdownUnregister, ConnectReadInfo, At, Shape, AfterFind, CallRecord
  <2> QED
    BY <1>1, <1>3, <1>5, <2>1 DEF ShutdownUnregister, ConnectReadInfo, Typed, TypedMemory
<1> QED
  BY <1>1, <1>3, <1>6 DEF Typed, TypedCalls, CallRecord

\* A step of a call leaves what is kept under other uuids alone, and takes nothing
\* from a VM that no delete has found.
LEMMA CallLocal ==
    ASSUME LifecycleInv, IndexOwned, NEW o \in Call, CallNext(o), NEW v \in UUID
    PROVE  /\ DeleteSeen(v) => DeleteSeen(v)'
           /\ ~DeleteSeen(v)' =>
                /\ \A c \in Core : domain'[c][v] # Nothing <=> domain[c][v] # Nothing
                /\ guac'[v] = guac[v] /\ row'[v] = row[v]
                /\ \A q \in Request : UUIDOf[q] = v => (q \in lease' <=> q \in lease)
           /\ \A c \in Core : domain[c][v] = Nothing => domain'[c][v] = Nothing
           /\ \/ redis'[v] \in {redis[v], Nothing}
              \/ pc[o] = "setStatus" /\ Of(o) = v
<1>1. Typed /\ Shape(o) /\ call[o] \in CallRecord
  BY DEF LifecycleInv, Shapes, Typed, TypedCalls
<1> USE <1>1 DEF Typed, TypedMemory, TypedCalls, TypedServices, memory, services, At, Of
<1>2. ASSUME NEW q \in Call, call[q].core # NoCore
      PROVE  call'[q].kind = call[q].kind /\ call'[q].uuid = call[q].uuid /\ call'[q].core # NoCore
  BY <1>2, CallFoundStays
<1>3. DeleteSeen(v) => DeleteSeen(v)'
  BY <1>2 DEF DeleteSeen
<1>4. pc[o] \in DeleteLabel /\ v = Of(o) => DeleteSeen(v)
  BY DEF DeleteSeen, Shape, AfterFind
<1> DEFINE Kept == /\ ~DeleteSeen(v) =>
                        /\ \A c \in Core : domain'[c][v] # Nothing <=> domain[c][v] # Nothing
                        /\ guac'[v] = guac[v] /\ row'[v] = row[v]
                        /\ \A q \in Request : UUIDOf[q] = v => (q \in lease' <=> q \in lease)
                   /\ \A c \in Core : domain[c][v] = Nothing => domain'[c][v] = Nothing
                   /\ \/ redis'[v] \in {redis[v], Nothing}
                      \/ pc[o] = "setStatus" /\ Of(o) = v
<1>5. SUFFICES Kept
  BY <1>3
<1>6. CASE UNCHANGED services
  BY <1>6
<1>7. CASE StartOnCore(o) \/ ShutdownOnCore(o)
  <2>1. PICK applied \in BOOLEAN, state \in {Running, Stopped} :
          /\ applied => domain[call[o].core][Of(o)] # Nothing
          /\ domain' = IF applied THEN [domain EXCEPT ![call[o].core][Of(o)] = state] ELSE domain
          /\ UNCHANGED <<lease, guac, row, redis>>
    BY <1>7 DEF StartOnCore, ShutdownOnCore, OnCore, Running, Stopped, Nothing
  <2> QED
    BY <2>1 DEF Running, Stopped, Nothing
<1>8. CASE DeleteOnCore(o)
  <2>1. v = Of(o) => DeleteSeen(v)
    BY <1>4, <1>8 DEF DeleteOnCore, OnCore, DeleteLabel
  <2>2. PICK applied \in BOOLEAN :
          /\ domain' = IF applied THEN [domain EXCEPT ![call[o].core][Of(o)] = Nothing] ELSE domain
          /\ UNCHANGED <<lease, guac, row, redis>>
    BY <1>8 DEF DeleteOnCore, OnCore
  <2> QED
    BY <2>1, <2>2
<1>9. CASE DeleteLease(o)
  <2>1. v = Of(o) => DeleteSeen(v)
    BY <1>4, <1>9 DEF DeleteLease, DeleteLabel
  <2>2. lease' \in {lease, lease \ {InfoOf(Of(o))}} /\ UNCHANGED <<domain, guac, row, redis>>
    BY <1>9 DEF DeleteLease, RequestDeleteInstance
  <2>3. Of(o) \in UUID
    BY <1>9 DEF DeleteLease, Shape
  <2>4. InfoOf(Of(o)) # NoVM => UUIDOf[InfoOf(Of(o))] = Of(o)
    BY <2>3 DEF InfoOf, IndexOwned
  <2>5. ASSUME NEW q \in Request, UUIDOf[q] = v, v # Of(o) PROVE q \in lease' <=> q \in lease
    BY <2>2, <2>4, <2>5, MemoryAssumption
  <2> QED
    BY <2>1, <2>2, <2>5
<1>10. CASE DeleteRow(o) \/ DeleteUnconfigure(o) \/ DeleteRemoveStatus(o)
  <2>1. v = Of(o) => DeleteSeen(v)
    BY <1>4, <1>10 DEF DeleteRow, DeleteUnconfigure, DeleteRemoveStatus, DeleteLabel
  <2> QED
    BY <1>10, <2>1 DEF DeleteRow, DeleteUnconfigure, DeleteRemoveStatus, Unconfigure
<1>11. CASE SetStatus(o)
  BY <1>11 DEF SetStatus
<1> QED
  BY <1>6, <1>7, <1>8, <1>9, <1>10, <1>11
     DEF CallNext, CallStep, Arrive, Report, FindHit, FindRow, FindCache, StatusOnCore, ShutdownUnregister,
         GetStatus, ReadBack, ConnectReadInfo, ConnectLogin

\* Entries come with a booking and go with it.
LEMMA CreateIndex ==
    ASSUME LifecycleInv, IndexOwned, NEW r \in Request, CreateStep(r)
    PROVE  IndexOwned'
<1>1. /\ Typed /\ Phases /\ Typed' /\ ReachedStays
      /\ \A q \in Request \ {r} : phase'[q] = phase[q] /\ chosen'[q] = chosen[q]
  BY CreateFrame, CreatePhases DEF LifecycleInv, Typed
<1> USE <1>1, MemoryAssumption DEF Typed, TypedMemory, memory
<1>2. SUFFICES ASSUME NEW c \in Core, NEW u \in UUID, vmInfoIdx'[c][u] # NoVM
               PROVE  LET q == vmInfoIdx'[c][u] IN
                      UUIDOf[q] = u /\ chosen'[q] = c /\ phase'[q] \in {"allocated", "registered"}
  BY DEF IndexOwned
<1>3. CASE CreateAllocate(r)
  <2>1. /\ vmInfoIdx' = [vmInfoIdx EXCEPT ![chosen[r]][UUIDOf[r]] = r]
        /\ phase' = [phase EXCEPT ![r] = "allocated"] /\ chosen' = chosen
    BY <1>3 DEF CreateAllocate, RM!AllocateResources
  <2>2. CASE c = chosen[r] /\ u = UUIDOf[r]
    BY <2>1, <2>2
  <2>3. CASE ~(c = chosen[r] /\ u = UUIDOf[r])
    <3>1. vmInfoIdx'[c][u] = vmInfoIdx[c][u]
      BY <2>1, <2>3
    <3> QED
      BY <1>2, <2>1, <3>1 DEF IndexOwned
  <2> QED
    BY <2>2, <2>3
<1>4. CASE CreateDeallocate(r)
  <2>1. /\ vmInfoIdx' = [vmInfoIdx EXCEPT ![chosen[r]][UUIDOf[r]] = NoVM]
        /\ phase' = [phase EXCEPT ![r] = "released"] /\ chosen' = chosen
    BY <1>4 DEF CreateDeallocate, RM!DeallocateResources
  <2>2. ~(c = chosen[r] /\ u = UUIDOf[r]) /\ vmInfoIdx'[c][u] = vmInfoIdx[c][u]
    BY <1>2, <2>1
  <2>3. vmInfoIdx[c][u] # r
    BY <1>2, <2>2 DEF IndexOwned
  <2> QED
    BY <1>2, <2>1, <2>2, <2>3 DEF IndexOwned
<1>5. CASE vmInfoIdx' = vmInfoIdx /\ phase[r] \in {"allocated", "registered"}
                /\ phase'[r] \in {"allocated", "registered"} /\ chosen'[r] = chosen[r]
  BY <1>2, <1>5 DEF IndexOwned
<1>6. CASE vmInfoIdx' = vmInfoIdx /\ phase[r] \notin {"allocated", "registered"}
  <2>1. vmInfoIdx[c][u] \in Request \ {r}
    BY <1>2, <1>6 DEF IndexOwned
  <2> QED
    BY <1>2, <1>6, <2>1 DEF IndexOwned
<1>7. CASE CreateRegister(r)
  BY <1>5, <1>7 DEF CreateRegister, RM!RegisterVM
<1>8. CASE CreateSelect(r)
  BY <1>6, <1>8 DEF CreateSelect, RM!SelectCore, RM!NoCoreFits
<1>9. CASE CreateSubnet(r) \/ CreateConfigure(r)
  <2>1. phase[r] = "selected"
    BY <1>9 DEF CreateSubnet, CreateConfigure, Phases
  <2> QED
    BY <1>6, <1>9, <2>1 DEF CreateSubnet, CreateConfigure, RM!Abandon
<1>10. CASE UNCHANGED memory
  BY <1>5, <1>6, <1>10
<1> QED
  BY <1>3, <1>4, <1>7, <1>8, <1>9, <1>10
     DEF CreateStep, CreateStore, CreateOnCore, CreateAddInstance, CreateUnconfigure

\* What a create has made is kept through its own steps and those of other creates.
LEMMA CreateWhole ==
    ASSUME RM!FreshUUIDs, LifecycleInv, Wholes, NEW r \in Request, CreateStep(r)
    PROVE  Wholes'
<1>1. /\ Typed /\ Phases /\ Rows /\ Locations /\ Typed' /\ call' = call
      /\ \A p \in (Request \cup Call) \ {r} : pc'[p] = pc[p]
      /\ \A q \in Request \ {r} : phase'[q] = phase[q] /\ chosen'[q] = chosen[q]
  BY CreateFrame DEF LifecycleInv, Typed
<1>2. \A v \in UUID : DeleteSeen(v)' <=> DeleteSeen(v)
  BY <1>1 DEF DeleteSeen, Of
<1>3. ASSUME NEW q \in Request, q # r PROVE Whole(q)'
  <2>1. UUIDOf[q] \in UUID \ {UUIDOf[r]}
    BY <1>3, MemoryAssumption DEF RM!FreshUUIDs
  <2>2. pc'[q] = pc[q] /\ phase'[q] = phase[q] /\ chosen'[q] = chosen[q] /\ Whole(q)
    BY <1>1, <1>3 DEF Wholes
  <2>3. (pc[q] \in {"store", "coreCreate", "addInstance", "register", "deallocate", "done"}
             \/ row[UUIDOf[q]] = q) => chosen[q] \in Core
    <3>1. phase[q] \notin {"idle", "refused"} => chosen[q] \in Core
      BY <1>1 DEF Phases
    <3>2. pc[q] \in {"store", "coreCreate", "addInstance", "register", "deallocate", "done"}
              => phase[q] \in {"allocated", "registered"}
      BY <1>1 DEF Phases
    <3>3. row[UUIDOf[q]] = q => Reached(q)
      BY <1>1, <2>1, MemoryAssumption DEF Rows
    <3> QED
      BY <3>1, <3>2, <3>3 DEF Reached
  <2> QED
    BY <1>2, <1>3, <2>1, <2>2, <2>3, CreateLocal DEF Whole
<1>4. Whole(r)'
  <2> DEFINE u == UUIDOf[r]
  <2>1. /\ u \in UUID /\ Whole(r) /\ pc[r] \in CreateLabel
        /\ phase[r] \notin {"idle", "refused"} => chosen[r] \in Core
        /\ row[u] = r => Reached(r)
    BY <1>1, MemoryAssumption DEF Wholes, Phases, Rows, Typed, TypedCalls
  <2> USE <1>1, <1>2, <2>1, MemoryAssumption
      DEF Whole, Reached, Typed, TypedMemory, TypedCalls, TypedServices, Goto, memory, services
  <2>2. CASE CreateSelect(r)
    <3>1. pc[r] = "select" /\ pc'[r] \in {"subnet", "failed"} /\ row' = row
      BY <2>2 DEF CreateSelect
    <3> QED
      BY <3>1
  <2>3. CASE CreateSubnet(r)
    <3>1. /\ pc[r] = "subnet" /\ row' = row
          /\ pc'[r] = "failed" \/ (pc'[r] = "configure" /\ r \in lease')
      BY <2>3 DEF CreateSubnet, Outcome
    <3> QED
      BY <3>1
  <2>4. CASE CreateConfigure(r)
    <3>1. /\ pc[r] = "configure" /\ row' = row /\ lease' = lease
          /\ pc'[r] = "failed" \/ (pc'[r] = "allocate" /\ guac'[u] = r)
      BY <2>4 DEF CreateConfigure, Outcome
    <3> QED
      BY <3>1
  <2>5. CASE CreateAllocate(r)
    <3>1. /\ pc[r] = "allocate" /\ pc'[r] = "store" /\ UNCHANGED <<services, chosen>>
          /\ phase[r] = "selected"
          /\ vmInfoIdx' = [vmInfoIdx EXCEPT ![chosen[r]][u] = r]
      BY <2>5 DEF CreateAllocate, RM!AllocateResources
    <3> QED
      BY <3>1
  <2>6. CASE CreateStore(r)
    <3>1. /\ pc[r] = "store" /\ pc'[r] = "coreCreate"
          /\ UNCHANGED <<memory, domain, lease, guac, row>>
      BY <2>6 DEF CreateStore
    <3> QED
      BY <3>1
  <2>7. CASE CreateOnCore(r)
    <3>1. /\ pc[r] = "coreCreate" /\ UNCHANGED <<memory, lease, guac, row>>
          /\ \/ pc'[r] = "deallocate"
             \/ pc'[r] = "addInstance" /\ domain' = [domain EXCEPT ![chosen[r]][u] = Running]
      BY <2>7 DEF CreateOnCore, Outcome
    <3>2. chosen[r] \in Core
      BY <3>1 DEF Phases
    <3>3. ASSUME domain' = [domain EXCEPT ![chosen[r]][u] = Running]
          PROVE  domain'[chosen[r]][u] # Nothing
      <4>1. domain'[chosen[r]][u] = Running
        BY <3>2, <3>3
      <4> QED
        BY <4>1 DEF Running, Nothing
    <3> QED
      BY <3>1, <3>3
  <2>8. CASE CreateAddInstance(r)
    <3>1. /\ pc[r] = "addInstance" /\ UNCHANGED <<memory, domain, lease, guac>>
          /\ \/ pc'[r] = "deallocate"
             \/ pc'[r] = "register" /\ row'[u] = r
      BY <2>8 DEF CreateAddInstance, Outcome
    <3> QED
      BY <3>1 DEF Phases
  <2>9. CASE CreateRegister(r)
    <3>1. /\ pc[r] = "register" /\ pc'[r] = "done" /\ UNCHANGED <<services, vmInfoIdx, chosen>>
          /\ vmLocation'[u] = chosen[r]
      BY <2>9 DEF CreateRegister, RM!RegisterVM
    <3> QED
      BY <3>1
  <2>10. CASE CreateDeallocate(r)
    <3>1. /\ pc[r] = "deallocate" /\ pc'[r] = "unconfigure" /\ UNCHANGED <<services, chosen>>
          /\ phase'[r] = "released"
      BY <2>10 DEF CreateDeallocate, RM!DeallocateResources
    <3> QED
      BY <3>1
  <2>11. CASE CreateUnconfigure(r)
    <3>1. /\ pc[r] = "unconfigure" /\ pc'[r] = "failed" /\ UNCHANGED <<memory, domain, lease, row>>
      BY <2>11 DEF CreateUnconfigure
    <3> QED
      BY <3>1
  <2> QED
    BY <2>2, <2>3, <2>4, <2>5, <2>6, <2>7, <2>8, <2>9, <2>10, <2>11 DEF CreateStep
<1> QED
  BY <1>3, <1>4 DEF Wholes

\* Steps of a create only go forward.
LEMMA CreateForward ==
    ASSUME LifecycleInv, NEW r \in Request, CreateStep(r)
    PROVE  /\ pc[r] \notin BeforeStore => pc'[r] \notin BeforeStore
           /\ pc[r] \notin BeforeCore => pc'[r] \notin BeforeCore
           /\ pc[r] \in BeforeCore => chosen'[r] = chosen[r] \/ pc[r] = "select"
           /\ pc[r] \notin BeforeCore => chosen'[r] = chosen[r]
<1> USE DEF LifecycleInv, Typed, TypedCalls, BeforeCore, BeforeStore, Goto, memory, services
<1>1. CASE CreateSelect(r)
  BY <1>1 DEF CreateSelect
<1>2. CASE CreateSubnet(r) \/ CreateConfigure(r)
  BY <1>2 DEF CreateSubnet, CreateConfigure, RM!Abandon
<1>3. CASE CreateAllocate(r) \/ CreateRegister(r) \/ CreateDeallocate(r)
  BY <1>3 DEF CreateAllocate, CreateRegister, CreateDeallocate,
              RM!AllocateResources, RM!RegisterVM, RM!DeallocateResources
<1>4. CASE CreateStore(r) \/ CreateOnCore(r) \/ CreateAddInstance(r) \/ CreateUnconfigure(r)
  BY <1>4 DEF CreateStore, CreateOnCore, CreateAddInstance, CreateUnconfigure
<1> QED
  BY <1>1, <1>2, <1>3, <1>4 DEF CreateStep

\* No create is called back: the create of u is past the Core once a call has found u.
LEMMA FoundIsPast ==
    ASSUME RM!FreshUUIDs, LifecycleInv, NEW r \in Request, NEW o \in Call,
           call[o].core # NoCore, Of(o) = UUIDOf[r]
    PROVE  Reached(r) /\ call[o].core = chosen[r]
  BY DEF LifecycleInv, Finds, Leads, RM!FreshUUIDs

LEMMA CreateOwned ==
    ASSUME RM!FreshUUIDs, LifecycleInv, OwnedInv, NEW r \in Request, CreateStep(r)
    PROVE  OwnedInv'
<1>1. /\ Typed /\ Phases /\ Shapes /\ Typed' /\ call' = call
      /\ \A p \in (Request \cup Call) \ {r} : pc'[p] = pc[p]
      /\ \A q \in Request \ {r} : phase'[q] = phase[q] /\ chosen'[q] = chosen[q]
  BY CreateFrame DEF LifecycleInv, Typed
<1>2. IndexOwned' /\ Wholes'
  BY CreateIndex, CreateWhole DEF OwnedInv
<1>3. \A c \in Core, v \in UUID :
          domain'[c][v] # domain[c][v] => v = UUIDOf[r] /\ c = chosen[r] /\ pc[r] = "coreCreate"
  <2>1. CASE CreateOnCore(r)
    BY <1>1, <2>1 DEF CreateOnCore, Typed, TypedServices
  <2>2. CASE UNCHANGED domain
    BY <2>2
  <2> QED
    BY <2>1, <2>2 DEF CreateStep, CreateSelect, CreateSubnet, CreateConfigure, CreateAllocate,
        CreateStore, CreateAddInstance, CreateRegister, CreateDeallocate, CreateUnconfigure, services
<1>4. pc[r] = "coreCreate" => pc'[r] \notin BeforeCore /\ chosen'[r] = chosen[r]
  <2>1. pc[r] = "coreCreate" => CreateOnCore(r)
    BY DEF CreateStep, CreateSelect, CreateSubnet, CreateConfigure, CreateAllocate,
        CreateStore, CreateAddInstance, CreateRegister, CreateDeallocate, CreateUnconfigure
  <2> QED
    BY <1>1, <2>1 DEF CreateOnCore, Goto, BeforeCore, BeforeStore, memory, Typed, TypedCalls
<1>5. DomainsOwned'
  <2> SUFFICES ASSUME NEW c \in Core, NEW v \in UUID, domain'[c][v] # Nothing
               PROVE  \E q \in Request : UUIDOf[q] = v /\ chosen'[q] = c /\ pc'[q] \notin BeforeCore
    BY DEF DomainsOwned
  <2>1. CASE domain'[c][v] = domain[c][v]
    <3>1. PICK q \in Request : UUIDOf[q] = v /\ chosen[q] = c /\ pc[q] \notin BeforeCore
      BY <2>1 DEF OwnedInv, DomainsOwned
    <3>2. chosen'[q] = c /\ pc'[q] \notin BeforeCore
      BY <1>1, <3>1, CreateForward
    <3> QED
      BY <3>1, <3>2
  <2>2. CASE domain'[c][v] # domain[c][v]
    BY <1>3, <1>4, <2>2
  <2> QED
    BY <2>1, <2>2
<1>6. DeletesFindNone'
  <2> SUFFICES ASSUME NEW o \in Call, pc'[o] \in DeleteLabel \ {"coreDelete"}, NEW c \in Core
               PROVE  domain'[c][Of(o)] = Nothing
    BY <1>1 DEF DeletesFindNone, Of
  <2>1. pc[o] = pc'[o] /\ call[o].core # NoCore /\ Of(o) \in UUID
    BY <1>1, LifecycleAssumption DEF Shapes, Shape, AfterFind, DeleteLabel
  <2>2. domain[c][Of(o)] = Nothing
    BY <2>1 DEF OwnedInv, DeletesFindNone
  <2>3. Of(o) = UUIDOf[r] => pc[r] # "coreCreate"
    BY <2>1, FoundIsPast DEF Reached
  <2> QED
    BY <1>3, <2>1, <2>2, <2>3
<1>7. \A v \in UUID \cup {Nothing} : Stored(v) => Stored(v)'
  <2> SUFFICES ASSUME NEW v, NEW q \in Request, UUIDOf[q] = v, pc[q] \notin BeforeStore
               PROVE  pc'[q] \notin BeforeStore
    BY DEF Stored
  <2> QED
    BY <1>1, CreateForward
<1>8. StatusesStored'
  <2>1. ASSUME NEW v \in UUID, redis'[v] \in Reported PROVE Stored(v)'
    <3>1. CASE CreateStore(r)
      <4>1. redis' = redis \/ redis' = [redis EXCEPT ![UUIDOf[r]] = Initial]
        BY <3>1 DEF CreateStore
      <4>2. redis'[v] = redis[v]
        BY <1>1, <2>1, <4>1 DEF Typed, TypedServices, Reported, Initial, Running, Stopped, Unknown
      <4> QED
        BY <1>7, <2>1, <4>2 DEF OwnedInv, StatusesStored
    <3>2. CASE UNCHANGED redis
      BY <1>7, <2>1, <3>2 DEF OwnedInv, StatusesStored
    <3> QED
      BY <3>1, <3>2 DEF CreateStep, CreateSelect, CreateSubnet, CreateConfigure, CreateAllocate,
        CreateOnCore, CreateAddInstance, CreateRegister, CreateDeallocate, CreateUnconfigure, services
  <2>2. ASSUME NEW o \in Call, pc'[o] \in {"getStatus", "setStatus", "readBack"} PROVE Stored(Of(o))'
    <3>1. pc'[o] = pc[o] /\ Of(o) \in UUID \cup {Nothing}
      BY <1>1, LifecycleAssumption DEF Typed, TypedCalls, CallRecord, Of
    <3>2. Stored(Of(o))
      BY <2>2, <3>1 DEF OwnedInv, StatusesStored
    <3> QED
      BY <1>1, <1>7, <3>1, <3>2 DEF Of, Stored
  <2> QED
    BY <2>1, <2>2 DEF StatusesStored, Of
<1> QED
  BY <1>2, <1>5, <1>6, <1>8 DEF OwnedInv

\* A delete whose Core has answered has left the VM on no core.
LEMMA DeleteFindsNone ==
    ASSUME RM!FreshUUIDs, LifecycleInv, DomainsOwned, NEW o \in Call, DeleteOnCore(o),
           pc'[o] = "releaseLease", NEW c \in Core
    PROVE  domain'[c][Of(o)] = Nothing
<1>1. Typed /\ Shape(o) /\ call[o] \in CallRecord /\ pc[o] = "coreDelete"
  BY DEF LifecycleInv, Shapes, DeleteOnCore, OnCore, At, Typed, TypedCalls
<1>2. Of(o) \in UUID /\ call[o].core # NoCore /\ call[o].core \in Core
  BY <1>1 DEF Shape, AfterFind, DeleteLabel, CallRecord
<1>3. domain' = [domain EXCEPT ![call[o].core][Of(o)] = Nothing]
  BY <1>1 DEF DeleteOnCore, OnCore, Outcome, Goto, Typed, TypedCalls
<1>4. CASE c = call[o].core
  BY <1>1, <1>2, <1>3, <1>4 DEF Typed, TypedServices
<1>5. CASE c # call[o].core
  <2>1. domain[c][Of(o)] = Nothing
    BY <1>2, <1>5, FoundIsPast DEF DomainsOwned
  <2> QED
    BY <1>1, <1>2, <1>3, <1>5, <2>1 DEF Typed, TypedServices
<1> QED
  BY <1>4, <1>5

\* A call that goes on to the status knows of a VM whose initial status is stored.
LEMMA StatusIsLate ==
    ASSUME LifecycleInv, DomainsOwned, StatusesStored, NEW o \in Call, CallNext(o),
           pc'[o] \in {"getStatus", "setStatus", "readBack"}
    PROVE  call'[o].uuid \in UUID /\ Stored(call'[o].uuid)
<1>1. Typed /\ Shape(o) /\ call[o] \in CallRecord
  BY DEF LifecycleInv, Shapes, Typed, TypedCalls
<1>2. CASE pc[o] \in {"getStatus", "setStatus"}
  <2>1. call' = call
    BY <1>1, <1>2 DEF CallNext, CallStep, Arrive, Report, FindHit, FindRow, FindCache, StatusOnCore, OnCore,
         StartOnCore, ShutdownOnCore, DeleteOnCore, ShutdownUnregister, DeleteLease, DeleteRow,
         DeleteUnconfigure, DeleteRemoveStatus, GetStatus, SetStatus, ReadBack, ConnectReadInfo,
         ConnectLogin, At
  <2> QED
    BY <1>1, <1>2, <2>1 DEF StatusesStored, Shape, Of
<1>3. ASSUME NEW u \in UUID, Report(o, u) PROVE call'[o].uuid \in UUID /\ Stored(call'[o].uuid)
  <2>1. PICK c \in Core :
          /\ domain[c][u] # Nothing
          /\ \E s : call'[o] = [call[o] EXCEPT !.kind = "report", !.uuid = u, !.status = s]
    BY <1>1, <1>3 DEF Report, Typed, TypedCalls
  <2>2. call'[o].uuid = u
    BY <1>1, <2>1 DEF CallRecord
  <2> QED
    BY <2>1, <2>2 DEF DomainsOwned, Stored, BeforeCore
<1>4. CASE ShutdownUnregister(o)
  <2>1. pc[o] = "unregister" /\ call'[o].uuid = Of(o)
    BY <1>1, <1>4 DEF ShutdownUnregister, At, Of, Typed, TypedCalls, CallRecord
  <2>2. Of(o) \in UUID /\ Leads(Of(o), call[o].core)
    BY <1>1, <2>1 DEF Shape, AfterFind, LifecycleInv, Finds
  <2> QED
    BY <2>1, <2>2 DEF Leads, Reached, Stored, BeforeStore
<1>5. \/ ShutdownUnregister(o) \/ (\E u \in UUID : Report(o, u))
      \/ pc[o] \in {"getStatus", "setStatus"}
  BY <1>1 DEF CallNext, CallStep, Arrive, FindHit, FindRow, FindCache, StatusOnCore, OnCore, FirstStep,
         StartOnCore, ShutdownOnCore, DeleteOnCore, DeleteLease, DeleteRow, Shape,
         DeleteUnconfigure, DeleteRemoveStatus, GetStatus, SetStatus, ReadBack, ConnectReadInfo,
         ConnectLogin, At, Goto, Typed, TypedCalls, OpKind
<1> QED
  BY <1>2, <1>3, <1>4, <1>5

LEMMA CallOwned ==
    ASSUME RM!FreshUUIDs, LifecycleInv, OwnedInv, NEW o \in Call, CallNext(o)
    PROVE  OwnedInv'
<1>1. /\ Typed /\ Phases /\ Shapes /\ Locations /\ Typed'
      /\ UNCHANGED <<vmInfoIdx, phase, chosen>>
      /\ \A p \in (Request \cup Call) \ {o} : pc'[p] = pc[p]
      /\ \A q \in Call \ {o} : call'[q] = call[q]
  BY CallFrame DEF LifecycleInv
<1>2. \A r \in Request : pc'[r] = pc[r]
  BY <1>1, LifecycleAssumption
<1>3. IndexOwned'
  BY <1>1 DEF OwnedInv, IndexOwned
<1>4. DomainsOwned'
  BY <1>1, <1>2, CallLocal DEF OwnedInv, DomainsOwned
<1>5. ASSUME NEW r \in Request PROVE Whole(r)'
  <2> DEFINE u == UUIDOf[r]
  <2>1. /\ u \in UUID /\ Whole(r)
        /\ row'[u] \in {row[u], NoVM} /\ r # NoVM
    BY CallLocations, MemoryAssumption DEF OwnedInv, Wholes
  <2>2. DeleteSeen(u) => DeleteSeen(u)'
    BY <2>1, CallLocal DEF OwnedInv
  <2>3. ~DeleteSeen(u)' =>
          /\ \A c \in Core : domain'[c][u] # Nothing <=> domain[c][u] # Nothing
          /\ guac'[u] = guac[u] /\ row'[u] = row[u]
          /\ r \in lease' <=> r \in lease
    BY <2>1, CallLocal DEF OwnedInv
  <2>4. vmLocation[u] = chosen[r] => vmLocation'[u] = chosen[r]
    <3>1. \/ vmLocation'[u] = vmLocation[u]
          \/ pc[o] = "cache" /\ u = Of(o) /\ vmLocation'[u] = call[o].core
      BY <2>1, CallLocations
    <3>2. pc[o] = "cache" => call[o].core # NoCore
      BY <1>1 DEF Shapes, Shape
    <3> QED
      BY <3>1, <3>2, FoundIsPast
  <2>5. /\ pc[r] \in {"addInstance", "register", "done"} => chosen[r] \in Core
        /\ row[u] = r => chosen[r] \in Core
    <3>1. phase[r] \notin {"idle", "refused"} => chosen[r] \in Core
      BY <1>1 DEF Phases
    <3>2. pc[r] \in {"addInstance", "register", "done"} => phase[r] \in {"allocated", "registered"}
      BY <1>1 DEF Phases
    <3>3. row[u] = r => Reached(r)
      BY <2>1 DEF LifecycleInv, Rows
    <3> QED
      BY <3>1, <3>2, <3>3 DEF Reached
  <2> QED
    BY <1>1, <1>2, <2>1, <2>2, <2>3, <2>4, <2>5 DEF Whole
<1>6. DeletesFindNone'
  <2> SUFFICES ASSUME NEW p \in Call, pc'[p] \in DeleteLabel \ {"coreDelete"}, NEW c \in Core
               PROVE  domain'[c][call'[p].uuid] = Nothing
    BY DEF DeletesFindNone, Of
  <2>1. CASE pc[p] \in DeleteLabel \ {"coreDelete"}
    <3>1. call[p].core # NoCore /\ Of(p) \in UUID
      BY <1>1, <2>1 DEF Shapes, Shape, AfterFind, DeleteLabel
    <3>2. call'[p].uuid = Of(p)
      BY <3>1, CallFoundStays DEF Of
    <3>3. domain[c][Of(p)] = Nothing
      BY <2>1 DEF OwnedInv, DeletesFindNone
    <3> QED
      BY <3>1, <3>2, <3>3, CallLocal DEF OwnedInv
  <2>2. CASE pc[p] \notin DeleteLabel \ {"coreDelete"}
    <3>1. p = o
      BY <1>1, <2>2
    <3>2. DeleteOnCore(o) /\ pc'[o] = "releaseLease"
      <4>1. Shape(o) /\ pc \in [Request \cup Call -> CreateLabel \cup CallLabel]
        BY <1>1 DEF Shapes, Typed, TypedCalls
      <4>2. pc'[o] \in DeleteLabel \ {"coreDelete"} /\ pc[o] \notin DeleteLabel \ {"coreDelete"}
        BY <2>2, <3>1
      <4>3. ~FindHit(o) /\ ~FindCache(o)
        BY <4>1, <4>2 DEF FindHit, FindCache, FirstStep, At, Goto, DeleteLabel, Shape, OpKind
      <4> QED
        BY <4>1, <4>2, <4>3
         DEF CallNext, CallStep, Arrive, Report, FindRow, StatusOnCore, OnCore,
             StartOnCore, ShutdownOnCore, DeleteOnCore, ShutdownUnregister, DeleteLease, DeleteRow,
             DeleteUnconfigure, DeleteRemoveStatus, GetStatus, SetStatus, ReadBack,
             ConnectReadInfo, ConnectLogin, At, Goto, DeleteLabel, WithoutStatus
    <3>3. call' = call
      BY <3>2 DEF DeleteOnCore, OnCore
    <3> QED
      BY <3>1, <3>2, <3>3, DeleteFindsNone DEF OwnedInv, Of
  <2> QED
    BY <2>1, <2>2
<1>7. \A v : Stored(v)' <=> Stored(v)
  BY <1>2 DEF Stored
<1>8. StatusesStored'
  <2>1. ASSUME NEW v \in UUID, redis'[v] \in Reported PROVE Stored(v)
    <3>1. \/ redis'[v] \in {redis[v], Nothing}
          \/ pc[o] = "setStatus" /\ Of(o) = v
      BY CallLocal DEF OwnedInv
    <3> QED
      BY <2>1, <3>1 DEF OwnedInv, StatusesStored, Reported, Running, Stopped, Unknown, Nothing
  <2>2. ASSUME NEW p \in Call, pc'[p] \in {"getStatus", "setStatus", "readBack"}
        PROVE  Stored(call'[p].uuid)
    <3>1. CASE p = o
      BY <2>2, <3>1, StatusIsLate DEF OwnedInv
    <3>2. CASE p # o
      BY <1>1, <2>2, <3>2 DEF OwnedInv, StatusesStored, Of
    <3> QED
      BY <3>1, <3>2
  <2> QED
    BY <1>7, <2>1, <2>2 DEF StatusesStored, Of, Stored
<1> QED
  BY <1>3, <1>4, <1>5, <1>6, <1>8 DEF OwnedInv, Wholes

LEMMA OwnedStep ==
    ASSUME RM!FreshUUIDs
    PROVE  LifecycleInv /\ OwnedInv /\ [Next]_lifecycleVars => OwnedInv'
<1>1. ASSUME OwnedInv, UNCHANGED lifecycleVars PROVE OwnedInv'
  BY <1>1 DEF lifecycleVars, memory, services, OwnedInv, IndexOwned, DomainsOwned, Wholes, Whole,
              DeletesFindNone, StatusesStored, Stored, DeleteSeen, Of
<1> QED
  BY <1>1, NextMeans, CreateOwned, CallOwned

LEMMA OwnedAlways == ASSUME RM!FreshUUIDs PROVE Spec => [](LifecycleInv /\ OwnedInv)
  BY LifecycleInit, LifecycleStep, OwnedInit, OwnedStep, PTL DEF Spec

LEMMA OwnedMeansWhole == LifecycleInv /\ OwnedInv => CreatedIsWhole
<1> SUFFICES ASSUME LifecycleInv, OwnedInv, NEW r \in Request, pc[r] = "done", ~DeleteSeen(UUIDOf[r])
             PROVE  /\ domain[chosen[r]][UUIDOf[r]] # Nothing
                    /\ r \in lease
                    /\ guac[UUIDOf[r]] = r
                    /\ row[UUIDOf[r]] = r
                    /\ Booked(r)
                    /\ vmLocation[UUIDOf[r]] = chosen[r]
  BY DEF CreatedIsWhole
<1>1. Whole(r) /\ phase[r] = "registered"
  BY DEF LifecycleInv, OwnedInv, Wholes, Phases
<1> QED
  BY <1>1 DEF Whole, Booked

LEMMA OwnedMeansFound ==
    ASSUME RM!FreshUUIDs PROVE LifecycleInv /\ OwnedInv => FoundWhereItIs
<1> SUFFICES ASSUME LifecycleInv, OwnedInv, NEW o \in Call, NEW c \in Core,
                    call[o].core # NoCore, domain[c][Of(o)] # Nothing
             PROVE  call[o].core = c
  BY DEF FoundWhereItIs
<1>1. PICK r \in Request : UUIDOf[r] = Of(o) /\ chosen[r] = call[o].core
  BY DEF LifecycleInv, Finds, Leads
<1>2. PICK q \in Request : UUIDOf[q] = Of(o) /\ chosen[q] = c
  BY <1>1, MemoryAssumption DEF OwnedInv, DomainsOwned
<1> QED
  BY <1>1, <1>2 DEF RM!FreshUUIDs

\* CreateVM answers 201 only for a VM that is whole, and it stays whole until a delete
\* has found it: no other create, no shutdown, start, connect or report takes its
\* domain, its IP, its Guacamole password, its row, its booking or its location away.
THEOREM CreatedStaysWhole == ASSUME RM!FreshUUIDs PROVE Spec => []CreatedIsWhole
  BY OwnedAlways, OwnedMeansWhole, PTL

\* FindCoreByVmUUID, whichever of the cache and the inst_loc row answers, leads every
\* operation to the one core that has the VM.
THEOREM FoundAlwaysWhereItIs == ASSUME RM!FreshUUIDs PROVE Spec => []FoundWhereItIs
  BY OwnedAlways, OwnedMeansFound, PTL

LEMMA StatusAction ==
    ASSUME RM!FreshUUIDs, LifecycleInv, OwnedInv, [Next]_lifecycleVars,
           NEW u \in UUID, redis[u] \in Reported
    PROVE  redis'[u] # Initial
<1>1. Initial \notin Reported /\ Initial # Nothing
  BY DEF Reported, Running, Stopped, Unknown, Initial, Nothing
<1>2. Stored(u) /\ redis \in [UUID -> Reported \cup {Nothing, Initial}]
      /\ call \in [Call -> CallRecord]
  BY DEF OwnedInv, StatusesStored, LifecycleInv, Typed, TypedServices, TypedCalls
<1>3. CASE UNCHANGED redis
  BY <1>1, <1>3
<1>4. ASSUME NEW r \in Request, CreateStore(r) PROVE redis'[u] # Initial
  <2>1. pc[r] = "store" /\ redis' \in {redis, [redis EXCEPT ![UUIDOf[r]] = Initial]}
    BY <1>4 DEF CreateStore
  <2>2. UUIDOf[r] # u
    BY <1>2, <2>1 DEF Stored, BeforeStore, RM!FreshUUIDs
  <2> QED
    BY <1>1, <1>2, <2>1, <2>2
<1>5. ASSUME NEW o \in Call, SetStatus(o) \/ DeleteRemoveStatus(o) PROVE redis'[u] # Initial
  <2>1. PICK x \in Reported \cup {Nothing} : redis' \in {redis, [redis EXCEPT ![Of(o)] = x]}
    BY <1>2, <1>5 DEF SetStatus, DeleteRemoveStatus, CallRecord
  <2> QED
    BY <1>1, <1>2, <2>1
<1>6. \/ UNCHANGED redis \/ \E r \in Request : CreateStore(r)
      \/ \E o \in Call : SetStatus(o) \/ DeleteRemoveStatus(o)
  BY DEF lifecycleVars, services, Next, CreateStep, CreateSelect, CreateSubnet, CreateConfigure,
         CreateAllocate, CreateOnCore, CreateAddInstance, CreateRegister, CreateDeallocate,
         CreateUnconfigure, CallStep, Arrive, Report, FindHit, FindRow, FindCache, StatusOnCore, OnCore,
         StartOnCore, ShutdownOnCore, DeleteOnCore, ShutdownUnregister, DeleteLease, DeleteRow,
         DeleteUnconfigure, GetStatus, ReadBack, ConnectReadInfo, ConnectLogin
<1> QED
  BY <1>3, <1>4, <1>5, <1>6

\* service/vm.go:94: the initial status never replaces one that the Core reported,
\* "unknown" or what ValidateAndNormalizeStatus turned into it included, or that
\* ShutdownVM wrote.
THEOREM StatusInOrder == ASSUME RM!FreshUUIDs PROVE Spec => InitialStatusComesFirst
<1>1. LifecycleInv /\ OwnedInv /\ [Next]_lifecycleVars
        => [\A u \in UUID : redis[u] \in Reported => redis'[u] # Initial]_lifecycleVars
  BY StatusAction
<1> QED
  BY <1>1, OwnedAlways, PTL DEF Spec, InitialStatusComesFirst

LEMMA RowAction ==
    ASSUME LifecycleInv, OwnedInv, [Next]_lifecycleVars, NEW u \in UUID,
           row[u] # NoVM, row'[u] = NoVM, NEW c \in Core
    PROVE  domain[c][u] = Nothing
<1>1. ASSUME NEW r \in Request, CreateStep(r) PROVE FALSE
  BY <1>1, CreateLocations, MemoryAssumption DEF LifecycleInv
<1>2. PICK o \in Call : CallNext(o)
  BY <1>1, NextMeans DEF lifecycleVars, services
<1>3. DeleteRow(o)
  BY <1>2 DEF services, CallNext, CallStep, Arrive, Report, FindHit, FindRow, FindCache, StatusOnCore,
       OnCore, StartOnCore, ShutdownOnCore, DeleteOnCore, ShutdownUnregister, DeleteLease,
       DeleteUnconfigure, DeleteRemoveStatus, GetStatus, SetStatus, ReadBack, ConnectReadInfo,
       ConnectLogin
<1>4. pc[o] = "deleteRow" /\ row' \in {row, [row EXCEPT ![Of(o)] = NoVM]}
  BY <1>3 DEF DeleteRow, At
<1>5. u = Of(o)
  BY <1>4 DEF LifecycleInv, Typed, TypedServices
<1> QED
  BY <1>4, <1>5 DEF OwnedInv, DeletesFindNone, DeleteLabel

\* DeleteVM removes the rows only once no core has the VM any more.
THEOREM RowsOutliveDomains == ASSUME RM!FreshUUIDs PROVE Spec => RowOutlivesDomain
<1>1. LifecycleInv /\ OwnedInv /\ [Next]_lifecycleVars
        => [\A u \in UUID : row[u] # NoVM /\ row'[u] = NoVM
                => \A c \in Core : domain[c][u] = Nothing]_lifecycleVars
  BY RowAction
<1> QED
  BY <1>1, OwnedAlways, PTL DEF Spec, RowOutlivesDomain

-----------------------------------------------------------------------------
(* A server that does not stop.                                            *)

\* Nothing is lost under way, and a login is for a VM that has been booked.
LoginKnown(o) ==
    pc[o] = "login" =>
        LET vm == call[o].vm IN
        /\ vm \in Request
        /\ UUIDOf[vm] = Of(o)
        /\ phase[vm] \in {"allocated", "registered", "released"}

UpInv ==
    /\ \A p \in Request \cup Call : pc[p] # "lost"
    /\ \A o \in Call : LoginKnown(o)

LEMMA CreateForwardPhase ==
    ASSUME LifecycleInv, NEW r \in Request, CreateStep(r)
    PROVE  /\ pc'[r] # "lost"
           /\ phase[r] \in {"allocated", "registered", "released"}
                  => phase'[r] \in {"allocated", "registered", "released"}
<1> USE DEF LifecycleInv, Typed, TypedMemory, TypedCalls, Goto, memory
<1>1. CASE CreateSelect(r)
  BY <1>1 DEF CreateSelect, RM!SelectCore, RM!NoCoreFits
<1>2. CASE CreateSubnet(r) \/ CreateConfigure(r)
  BY <1>2 DEF CreateSubnet, CreateConfigure, RM!Abandon
<1>3. CASE CreateAllocate(r) \/ CreateRegister(r) \/ CreateDeallocate(r)
  BY <1>3 DEF CreateAllocate, CreateRegister, CreateDeallocate,
              RM!AllocateResources, RM!RegisterVM, RM!DeallocateResources
<1>4. CASE CreateStore(r) \/ CreateOnCore(r) \/ CreateAddInstance(r) \/ CreateUnconfigure(r)
  BY <1>4 DEF CreateStore, CreateOnCore, CreateAddInstance, CreateUnconfigure
<1> QED
  BY <1>1, <1>2, <1>3, <1>4 DEF CreateStep

LEMMA CallUp ==
    ASSUME LifecycleInv, IndexOwned, NEW o \in Call, CallNext(o), pc[o] # "lost"
    PROVE  pc'[o] # "lost" /\ LoginKnown(o)'
<1>1. Typed /\ Shape(o) /\ call[o] \in CallRecord
  BY DEF LifecycleInv, Shapes, Typed, TypedCalls
<1> USE <1>1 DEF Typed, TypedMemory, TypedCalls, At, Of, Goto
<1>2. CASE ConnectReadInfo(o)
  <2>1. pc[o] = "readInfo" /\ pc'[o] \in {"login", "failed"} /\ UNCHANGED memory
    BY <1>2 DEF ConnectReadInfo
  <2>2. CASE pc'[o] = "login"
    <3> DEFINE vm == vmInfoIdx[call[o].core][Of(o)]
    <3>1. vm # NoVM /\ call' = [call EXCEPT ![o].vm = vm]
      BY <1>2, <2>2 DEF ConnectReadInfo
    <3>2. call[o].core \in Core /\ Of(o) \in UUID
      BY <2>1 DEF Shape, AfterFind, CallRecord
    <3>3. vm \in Request /\ UUIDOf[vm] = Of(o) /\ phase[vm] \in {"allocated", "registered"}
      BY <3>1, <3>2 DEF IndexOwned
    <3>4. call'[o].vm = vm /\ call'[o].uuid = Of(o)
      BY <3>1 DEF CallRecord
    <3> QED
      BY <2>1, <2>2, <3>3, <3>4 DEF LoginKnown, memory
  <2> QED
    BY <2>1, <2>2 DEF LoginKnown
<1>3. CASE FindHit(o) \/ FindCache(o)
  BY <1>3 DEF FindHit, FindCache, FirstStep, Shape, OpKind, LoginKnown
<1>4. CASE GetStatus(o) \/ SetStatus(o)
  BY <1>4 DEF GetStatus, SetStatus, WithoutStatus, LoginKnown
<1>5. CASE ~(ConnectReadInfo(o) \/ FindHit(o) \/ FindCache(o) \/ GetStatus(o) \/ SetStatus(o))
  BY <1>5 DEF CallNext, CallStep, Arrive, Report, FindRow, StatusOnCore, OnCore, StartOnCore, ShutdownOnCore,
         DeleteOnCore, ShutdownUnregister, DeleteLease, DeleteRow, DeleteUnconfigure,
         DeleteRemoveStatus, ReadBack, ConnectLogin, LoginKnown
<1> QED
  BY <1>2, <1>3, <1>4, <1>5

LEMMA UpStep ==
    LifecycleInv /\ OwnedInv /\ UpInv /\ [Next]_lifecycleVars => UpInv'
<1> SUFFICES ASSUME LifecycleInv, OwnedInv, UpInv, [Next]_lifecycleVars PROVE UpInv'
  OBVIOUS
<1>1. CASE UNCHANGED lifecycleVars
  BY <1>1 DEF lifecycleVars, memory, UpInv, LoginKnown, Of
<1>2. ASSUME NEW r \in Request, CreateStep(r) PROVE UpInv'
  <2>1. /\ call' = call /\ Typed
        /\ \A p \in (Request \cup Call) \ {r} : pc'[p] = pc[p]
        /\ \A q \in Request \ {r} : phase'[q] = phase[q]
    BY <1>2, CreateFrame DEF LifecycleInv
  <2>2. \A o \in Call : pc'[o] = pc[o]
    BY <2>1, LifecycleAssumption
  <2> QED
    BY <1>2, <2>1, <2>2, CreateForwardPhase DEF UpInv, LoginKnown, Of
<1>3. ASSUME NEW o \in Call, CallNext(o) PROVE UpInv'
  <2>1. /\ phase' = phase
        /\ \A p \in (Request \cup Call) \ {o} : pc'[p] = pc[p]
        /\ \A q \in Call \ {o} : call'[q] = call[q]
    BY <1>3, CallFrame DEF LifecycleInv
  <2> QED
    BY <1>3, <2>1, CallUp DEF OwnedInv, UpInv, LoginKnown, Of
<1> QED
  BY <1>1, <1>2, <1>3, NextMeans

LEMMA UpInit == Init => UpInv
  BY LifecycleAssumption DEF Init, UpInv, LoginKnown

LEMMA UpAlways == ASSUME RM!FreshUUIDs PROVE Spec => [](LifecycleInv /\ OwnedInv /\ UpInv)
  BY OwnedAlways, UpInit, UpStep, PTL DEF Spec

\* GetGuacamoleToken logs in with the password that Guacamole has for the VM, between
\* the steps of any create and however many calls there are, unless a delete has
\* found the VM or its create is being undone.
THEOREM LoginsHavePassword == ASSUME RM!FreshUUIDs PROVE Spec => []LoginHasPassword
<1>1. LifecycleInv /\ OwnedInv /\ UpInv => LoginHasPassword
  <2> SUFFICES ASSUME LifecycleInv, OwnedInv, UpInv, NEW o \in Call, At(o, "login"),
                      ~DeleteSeen(Of(o)),
                      pc[call[o].vm] \notin {"deallocate", "unconfigure", "failed"}
               PROVE  guac[Of(o)] = call[o].vm
    BY DEF LoginHasPassword
  <2> DEFINE vm == call[o].vm
  <2>1. /\ vm \in Request /\ UUIDOf[vm] = Of(o)
        /\ phase[vm] \in {"allocated", "registered", "released"}
        /\ pc[vm] # "lost"
    BY DEF UpInv, LoginKnown, At
  <2>2. pc[vm] \in {"store", "coreCreate", "addInstance", "register", "done"}
    BY <2>1 DEF LifecycleInv, Typed, TypedCalls, CreateLabel, Phases
  <2> QED
    BY <2>1, <2>2 DEF OwnedInv, Wholes, Whole
<1> QED
  BY <1>1, UpAlways, PTL

-----------------------------------------------------------------------------
(* No answer is lost.                                                      *)

\* Only a create that goes on to register its VM, or has, leaves a row.
RowsEarned == \A r \in Request : row[UUIDOf[r]] = r => pc[r] \in {"register", "done"}

LEMMA RowsEarnedStep ==
    ASSUME ~LostAnswers
    PROVE  LifecycleInv /\ RowsEarned /\ [Next]_lifecycleVars => RowsEarned'
<1> SUFFICES ASSUME LifecycleInv, RowsEarned, [Next]_lifecycleVars PROVE RowsEarned'
  OBVIOUS
<1>1. CASE UNCHANGED lifecycleVars
  BY <1>1 DEF lifecycleVars, services, RowsEarned
<1>2. ASSUME NEW r \in Request, CreateStep(r) PROVE RowsEarned'
  <2>1. /\ Typed
        /\ \A p \in (Request \cup Call) \ {r} : pc'[p] = pc[p]
    BY <1>2, CreateFrame DEF LifecycleInv
  <2>2. ASSUME NEW q \in Request, row'[UUIDOf[q]] = q PROVE pc'[q] \in {"register", "done"}
    <3>1. UUIDOf[q] \in UUID
      BY MemoryAssumption
    <3>2. CASE q # r
      <4>1. row[UUIDOf[q]] = q
        BY <1>2, <2>2, <3>1, <3>2, CreateLocations DEF LifecycleInv
      <4> QED
        BY <2>1, <3>2, <4>1 DEF RowsEarned
    <3>3. CASE q = r /\ CreateAddInstance(r)
      <4>1. pc[r] = "addInstance" /\ row[UUIDOf[r]] # r
        BY <3>3 DEF CreateAddInstance, RowsEarned
      <4>2. pc'[r] = "register"
        BY <2>1, <2>2, <3>3, <4>1 DEF CreateAddInstance, Outcome, Goto, Typed, TypedCalls
      <4> QED
        BY <3>3, <4>2
    <3>4. CASE q = r /\ CreateRegister(r)
      BY <2>1, <3>4 DEF CreateRegister, Goto, Typed, TypedCalls
    <3>5. CASE q = r /\ ~CreateAddInstance(r) /\ ~CreateRegister(r)
      <4>1. row' = row /\ pc[r] \notin {"register", "done"}
        BY <1>2, <3>5 DEF CreateStep, CreateSelect, CreateSubnet, CreateConfigure, CreateAllocate,
            CreateStore, CreateOnCore, CreateDeallocate, CreateUnconfigure, services
      <4> QED
        BY <2>2, <3>5, <4>1 DEF RowsEarned
    <3> QED
      BY <3>2, <3>3, <3>4, <3>5
  <2> QED
    BY <2>2 DEF RowsEarned
<1>3. ASSUME NEW o \in Call, CallNext(o) PROVE RowsEarned'
  <2>1. \A r \in Request : pc'[r] = pc[r]
    BY <1>3, CallFrame, LifecycleAssumption DEF LifecycleInv
  <2> QED
    BY <1>3, <2>1, CallLocations, MemoryAssumption DEF RowsEarned
<1> QED
  BY <1>1, <1>2, <1>3, NextMeans

LEMMA RowsEarnedInit == Init => RowsEarned
  BY MemoryAssumption DEF Init, RowsEarned

\* Every row of the database is of a VM that the server has booked in memory, on the
\* core the row names, from the commit of AddInstance until DeleteInstance.
THEOREM RowsAreBooked ==
    ASSUME RM!FreshUUIDs, ~LostAnswers PROVE Spec => []RowIsBooked
<1>1. LifecycleInv /\ OwnedInv /\ RowsEarned => RowIsBooked
  <2> SUFFICES ASSUME LifecycleInv, OwnedInv, RowsEarned, NEW u \in UUID, row[u] # NoVM
               PROVE  Booked(row[u]) /\ UUIDOf[row[u]] = u
    BY DEF RowIsBooked
  <2> DEFINE r == row[u]
  <2>1. r \in Request /\ UUIDOf[r] = u
    BY DEF LifecycleInv, Typed, TypedServices, Rows
  <2>2. \/ pc[r] = "register" /\ phase[r] = "allocated"
        \/ pc[r] = "done" /\ phase[r] = "registered"
    <3>1. pc[r] \in {"register", "done"}
      BY <2>1 DEF RowsEarned
    <3> QED
      BY <2>1, <3>1 DEF LifecycleInv, Phases
  <2> QED
    BY <2>1, <2>2 DEF OwnedInv, Wholes, Whole, Booked
<1> QED
  BY <1>1, RowsEarnedInit, RowsEarnedStep, OwnedAlways, PTL DEF Spec

-----------------------------------------------------------------------------
(* No answer is lost and no cleanup fails.                                 *)

\* Only a create that is under way or done has its password in Guacamole, and a
\* create that has failed has nothing booked.
FailedHasNothing ==
    \A r \in Request :
        /\ guac[UUIDOf[r]] = r => pc[r] \notin {"select", "subnet", "configure", "failed"}
        /\ pc[r] = "failed" => phase[r] \notin {"allocated", "registered"}

LEMMA FailedStep ==
    ASSUME ~LostAnswers, ~BestEffortFails
    PROVE  LifecycleInv /\ FailedHasNothing /\ [Next]_lifecycleVars => FailedHasNothing'
<1> SUFFICES ASSUME LifecycleInv, FailedHasNothing, [Next]_lifecycleVars PROVE FailedHasNothing'
  OBVIOUS
<1>1. CASE UNCHANGED lifecycleVars
  BY <1>1 DEF lifecycleVars, memory, services, FailedHasNothing
<1>2. ASSUME NEW r \in Request, CreateStep(r) PROVE FailedHasNothing'
  <2>1. /\ Typed /\ Phases
        /\ \A p \in (Request \cup Call) \ {r} : pc'[p] = pc[p]
        /\ \A q \in Request \ {r} : phase'[q] = phase[q]
    BY <1>2, CreateFrame DEF LifecycleInv
  <2> DEFINE u == UUIDOf[r]
  <2>2. guac' \in {guac, [guac EXCEPT ![u] = r], [guac EXCEPT ![u] = NoVM]}
    BY <1>2 DEF CreateStep, CreateSelect, CreateSubnet, CreateConfigure, CreateAllocate,
        CreateStore, CreateOnCore, CreateAddInstance, CreateRegister, CreateDeallocate,
        CreateUnconfigure, Unconfigure, services
  <2>3. ASSUME NEW q \in Request, q # r, guac'[UUIDOf[q]] = q PROVE guac[UUIDOf[q]] = q
    BY <2>1, <2>2, <2>3, MemoryAssumption DEF Typed, TypedServices
  <2>4. guac'[u] = r => pc'[r] \notin {"select", "subnet", "configure", "failed"}
    <3> SUFFICES ASSUME guac'[u] = r PROVE pc'[r] \notin {"select", "subnet", "configure", "failed"}
      OBVIOUS
    <3> USE <2>1, MemoryAssumption DEF Typed, TypedCalls, TypedServices, Goto, services
    <3>1. CASE CreateConfigure(r)
      <4>1. pc[r] = "configure" /\ guac[u] # r
        BY <3>1 DEF CreateConfigure, FailedHasNothing
      <4>2. pc'[r] = "allocate"
        BY <3>1, <4>1 DEF CreateConfigure, Outcome
      <4> QED
        BY <4>2
    <3>2. CASE CreateUnconfigure(r)
      BY <3>2 DEF CreateUnconfigure, Unconfigure, Tolerated
    <3>3. CASE CreateSelect(r) \/ CreateSubnet(r)
      BY <3>3 DEF CreateSelect, CreateSubnet, FailedHasNothing
    <3>4. CASE CreateAllocate(r) \/ CreateStore(r) \/ CreateOnCore(r) \/ CreateAddInstance(r)
                 \/ CreateRegister(r) \/ CreateDeallocate(r)
      BY <3>4 DEF CreateAllocate, CreateStore, CreateOnCore, CreateAddInstance, CreateRegister,
                  CreateDeallocate
    <3> QED
      BY <1>2, <3>1, <3>2, <3>3, <3>4 DEF CreateStep
  <2>5. pc'[r] = "failed" => phase'[r] \notin {"allocated", "registered"}
    <3> USE <2>1 DEF Typed, TypedMemory, TypedCalls, Phases, Goto, memory
    <3>1. CASE CreateSelect(r)
      BY <3>1 DEF CreateSelect, RM!NoCoreFits
    <3>2. CASE CreateSubnet(r) \/ CreateConfigure(r)
      BY <3>2 DEF CreateSubnet, CreateConfigure, RM!Abandon
    <3>3. CASE CreateUnconfigure(r)
      BY <3>3 DEF CreateUnconfigure
    <3>4. CASE CreateAllocate(r) \/ CreateStore(r) \/ CreateOnCore(r) \/ CreateAddInstance(r)
                 \/ CreateRegister(r) \/ CreateDeallocate(r)
      BY <3>4 DEF CreateAllocate, CreateStore, CreateOnCore, CreateAddInstance, CreateRegister,
                  CreateDeallocate
    <3> QED
      BY <1>2, <3>1, <3>2, <3>3, <3>4 DEF CreateStep
  <2> QED
    BY <2>1, <2>3, <2>4, <2>5 DEF FailedHasNothing
<1>3. ASSUME NEW o \in Call, CallNext(o) PROVE FailedHasNothing'
  <2>1. Typed /\ phase' = phase /\ \A r \in Request : pc'[r] = pc[r]
    BY <1>3, CallFrame, LifecycleAssumption DEF LifecycleInv
  <2>2. guac' = guac \/ guac' = [guac EXCEPT ![Of(o)] = NoVM]
    BY <1>3 DEF services, CallNext, CallStep, Arrive, Report, FindHit, FindRow, FindCache, StatusOnCore, OnCore,
         StartOnCore, ShutdownOnCore, DeleteOnCore, ShutdownUnregister, DeleteLease, DeleteRow,
         DeleteUnconfigure, Unconfigure, DeleteRemoveStatus, GetStatus, SetStatus, ReadBack,
         ConnectReadInfo, ConnectLogin
  <2>3. ASSUME NEW q \in Request, guac'[UUIDOf[q]] = q PROVE guac[UUIDOf[q]] = q
    BY <2>1, <2>2, <2>3, MemoryAssumption DEF Typed, TypedServices
  <2> QED
    BY <2>1, <2>3 DEF FailedHasNothing
<1> QED
  BY <1>1, <1>2, <1>3, NextMeans

LEMMA FailedInit == Init => FailedHasNothing
  BY MemoryAssumption DEF Init, FailedHasNothing

LEMMA IndexAlways == Spec => [](LifecycleInv /\ IndexOwned)
<1>1. LifecycleInv /\ IndexOwned /\ [Next]_lifecycleVars => IndexOwned'
  <2>1. ASSUME LifecycleInv, IndexOwned, NEW o \in Call, CallNext(o) PROVE IndexOwned'
    BY <2>1, CallFrame DEF LifecycleInv, IndexOwned
  <2>2. ASSUME IndexOwned, UNCHANGED lifecycleVars PROVE IndexOwned'
    BY <2>2 DEF lifecycleVars, memory, IndexOwned
  <2> QED
    BY <2>1, <2>2, CreateIndex, NextMeans
<1> QED
  BY <1>1, LifecycleInit, LifecycleStep, OwnedInit, PTL DEF Spec, OwnedInv

\* A create that fails leaves no booking, no Guacamole password, no row and no index
\* entry: service/cleanup.go undoes every step that was done, for clients that repeat
\* a uuid as well.
THEOREM FailedIsUndone ==
    ASSUME ~LostAnswers, ~BestEffortFails PROVE Spec => []FailedCreateIsUndone
<1>1. LifecycleInv /\ IndexOwned /\ RowsEarned /\ FailedHasNothing => FailedCreateIsUndone
  <2> SUFFICES ASSUME LifecycleInv, IndexOwned, RowsEarned, FailedHasNothing,
                      NEW r \in Request, pc[r] = "failed"
               PROVE  /\ phase[r] # "allocated" /\ phase[r] # "registered"
                      /\ guac[UUIDOf[r]] # r
                      /\ row[UUIDOf[r]] # r
                      /\ \A c \in Core : vmInfoIdx[c][UUIDOf[r]] # r
    BY DEF FailedCreateIsUndone
  <2>1. UUIDOf[r] \in UUID /\ r # NoVM
    BY MemoryAssumption
  <2> QED
    BY <2>1 DEF FailedHasNothing, RowsEarned, IndexOwned
<1> QED
  BY <1>1, IndexAlways, RowsEarnedInit, RowsEarnedStep, FailedInit, FailedStep, PTL DEF Spec

=============================================================================
