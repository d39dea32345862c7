-------------------------- MODULE VMServiceProofs --------------------------
(* The operations of VMLifecycle implement VMService, for any number of     *)
(* creates, calls, cores and uuids: what a client sees of the six stores is *)
(* the life of one VM.  As in the run, no uuid is used twice, no answer is  *)
(* lost and no cleanup fails.                                               *)
EXTENDS VMLifecycleProofs

Clean == RM!FreshUUIDs /\ ~LostAnswers /\ ~BestEffortFails

-----------------------------------------------------------------------------
(* What the stores show of a create that has made its VM appear.           *)

\* The create of u has put its row into the database.
Appeared(u) == \E r \in Request : UUIDOf[r] = u /\ pc[r] \in {"register", "done"}

\* A location, wherever it was found, is that of such a VM.
LocatedAppeared == \A u \in UUID : vmLocation[u] # NoCore => Appeared(u)
FoundAppeared == \A o \in Call : call[o].core # NoCore => Appeared(Of(o))

\* The Core has the VM, and runs it, before the row is there.
JustCreated ==
    \A r \in Request : pc[r] = "addInstance" => domain[chosen[r]][UUIDOf[r]] = Running

\* Once it was there, the row goes only after the VM.
DomainHasRow ==
    \A r \in Request :
        pc[r] \in {"register", "done"} /\ domain[chosen[r]][UUIDOf[r]] # Nothing
            => row[UUIDOf[r]] = r

\* A delete that is answered has found the VM and taken its password away for good.
DeleteForgets ==
    \A o \in Call :
        call[o].kind = "delete" /\ pc[o] \in {"removeStatus", "done"} =>
            call[o].core # NoCore /\ guac[Of(o)] = NoVM

SeenInv ==
    LocatedAppeared /\ FoundAppeared /\ JustCreated /\ DomainHasRow /\ DeleteForgets

CleanInv == LifecycleInv /\ OwnedInv /\ UpInv /\ RowsEarned /\ SeenInv

LEMMA SeenInit == Init => SeenInv
<1> SUFFICES ASSUME Init PROVE SeenInv
  OBVIOUS
<1>1. \A o \in Call : call[o].core = NoCore /\ call[o].kind = Nothing /\ o \notin Request
  BY LifecycleAssumption DEF Init
<1> QED
  BY <1>1, MemoryAssumption
     DEF Init, RM!Init, SeenInv, LocatedAppeared, FoundAppeared, JustCreated, DomainHasRow,
         DeleteForgets, Nothing

\* A row tells that its VM has appeared.
LEMMA RowsAppeared ==
    ASSUME LifecycleInv, RowsEarned, NEW u \in UUID, row[u] # NoVM
    PROVE  /\ row[u] \in Request /\ UUIDOf[row[u]] = u
           /\ pc[row[u]] \in {"register", "done"}
           /\ chosen[row[u]] \in Core
           /\ Appeared(u)
<1>1. row[u] \in Request /\ UUIDOf[row[u]] = u
  BY DEF LifecycleInv, Typed, TypedServices, Rows
<1>2. pc[row[u]] \in {"register", "done"}
  BY <1>1 DEF RowsEarned
<1>3. chosen[row[u]] \in Core
  BY <1>1, <1>2 DEF LifecycleInv, Phases
<1> QED
  BY <1>1, <1>2, <1>3 DEF Appeared

\* What appears does not disappear.
LEMMA CreateAppears ==
    ASSUME LifecycleInv, NEW r \in Request, CreateStep(r)
    PROVE  /\ \A q \in Request : pc[q] \in {"register", "done"} => pc'[q] \in {"register", "done"}
           /\ \A u : Appeared(u) => Appeared(u)'
<1>1. TypedCalls /\ \A p \in (Request \cup Call) \ {r} : pc'[p] = pc[p]
  BY CreateFrame DEF LifecycleInv, Typed
<1>2. pc[r] \in {"register", "done"} => pc'[r] \in {"register", "done"}
  BY <1>1 DEF CreateStep, CreateSelect, CreateSubnet, CreateConfigure, CreateAllocate, CreateStore,
         CreateOnCore, CreateAddInstance, CreateRegister, CreateDeallocate, CreateUnconfigure,
         Goto, TypedCalls
<1>3. \A q \in Request : pc[q] \in {"register", "done"} => pc'[q] \in {"register", "done"}
  BY <1>1, <1>2
<1> QED
  BY <1>3 DEF Appeared

LEMMA CallAppears ==
    ASSUME LifecycleInv, NEW o \in Call, CallNext(o)
    PROVE  /\ \A q \in Request : pc'[q] = pc[q]
           /\ \A u : Appeared(u)' <=> Appeared(u)
<1>1. \A q \in Request : pc'[q] = pc[q]
  BY CallFrame, LifecycleAssumption DEF LifecycleInv
<1> QED
  BY <1>1 DEF Appeared

\* With fresh uuids a create that has appeared is the one of its uuid.
LEMMA AppearedIs ==
    ASSUME Clean, NEW r \in Request, Appeared(UUIDOf[r])
    PROVE  pc[r] \in {"register", "done"}
  BY DEF Clean, RM!FreshUUIDs, Appeared

LEMMA CreateSeen ==
    ASSUME Clean, CleanInv, NEW r \in Request, CreateStep(r)
    PROVE  SeenInv'
<1>1. /\ Typed /\ Phases /\ Shapes /\ Typed' /\ call' = call
      /\ \A p \in (Request \cup Call) \ {r} : pc'[p] = pc[p]
      /\ \A q \in Request \ {r} : phase'[q] = phase[q] /\ chosen'[q] = chosen[q]
      /\ \A o \in Call : pc'[o] = pc[o]
  BY CreateFrame, LifecycleAssumption DEF CleanInv, LifecycleInv, Typed
<1>2. /\ \A v \in UUID \ {UUIDOf[r]} :
           /\ \A c \in Core : domain'[c][v] = domain[c][v]
           /\ guac'[v] = guac[v] /\ row'[v] = row[v]
           /\ vmLocation'[v] = vmLocation[v]
      /\ \A u : Appeared(u) => Appeared(u)'
  BY CreateLocal, CreateAppears DEF CleanInv
<1>3. ASSUME NEW q \in Request, q # r PROVE UUIDOf[q] \in UUID \ {UUIDOf[r]}
  BY <1>3, MemoryAssumption DEF Clean, RM!FreshUUIDs
<1>4. UUIDOf[r] \in UUID /\ (pc[r] \notin {"select"} => chosen'[r] = chosen[r])
  BY CreateForward, MemoryAssumption DEF CleanInv
<1>5. LocatedAppeared'
  <2> SUFFICES ASSUME NEW u \in UUID, vmLocation'[u] # NoCore PROVE Appeared(u)'
    BY DEF LocatedAppeared
  <2>1. CASE vmLocation'[u] = vmLocation[u]
    BY <1>2, <2>1 DEF CleanInv, SeenInv, LocatedAppeared
  <2>2. CASE u = UUIDOf[r] /\ CreateRegister(r)
    BY <1>1, <2>2 DEF CreateRegister, Goto, Appeared, Typed, TypedCalls
  <2>3. CASE u = UUIDOf[r] /\ ~CreateRegister(r)
    <3>1. vmLocation' = vmLocation
      BY <2>3 DEF CreateStep, CreateSelect, CreateSubnet, CreateConfigure, CreateAllocate, CreateStore,
         CreateOnCore, CreateAddInstance, CreateDeallocate, CreateUnconfigure, memory,
         RM!SelectCore, RM!NoCoreFits, RM!Abandon, RM!AllocateResources, RM!DeallocateResources
    <3> QED
      BY <2>1, <3>1
  <2> QED
    BY <1>2, <2>1, <2>2, <2>3
<1>6. FoundAppeared'
  BY <1>1, <1>2 DEF CleanInv, SeenInv, FoundAppeared, Of
<1>7. JustCreated'
  <2> SUFFICES ASSUME NEW q \in Request, pc'[q] = "addInstance"
               PROVE  domain'[chosen'[q]][UUIDOf[q]] = Running
    BY DEF JustCreated
  <2>1. CASE q # r
    <3>1. pc[q] = "addInstance" /\ chosen'[q] = chosen[q] /\ chosen[q] \in Core
      BY <1>1, <2>1 DEF Phases
    <3> QED
      BY <1>2, <1>3, <2>1, <3>1 DEF CleanInv, SeenInv, JustCreated
  <2>2. CASE q = r
    <3>1. CreateOnCore(r)
      BY <1>1, <2>2 DEF CreateStep, CreateSelect, CreateSubnet, CreateConfigure, CreateAllocate,
         CreateStore, CreateAddInstance, CreateRegister, CreateDeallocate, CreateUnconfigure,
         Goto, Typed, TypedCalls
    <3>2. pc[r] = "coreCreate" /\ chosen' = chosen /\ chosen[r] \in Core
      BY <1>1, <3>1 DEF CreateOnCore, memory, Phases
    <3>3. domain' = [domain EXCEPT ![chosen[r]][UUIDOf[r]] = Running]
      BY <1>1, <2>2, <3>1 DEF CreateOnCore, Outcome, Goto, Typed, TypedCalls, Clean
    <3> QED
      BY <1>1, <1>4, <2>2, <3>2, <3>3 DEF Typed, TypedServices
  <2> QED
    BY <2>1, <2>2
<1>8. DomainHasRow'
  <2> SUFFICES ASSUME NEW q \in Request, pc'[q] \in {"register", "done"},
                      domain'[chosen'[q]][UUIDOf[q]] # Nothing
               PROVE  row'[UUIDOf[q]] = q
    BY DEF DomainHasRow
  <2>1. CASE q # r
    <3>1. pc[q] = pc'[q] /\ chosen'[q] = chosen[q] /\ chosen[q] \in Core
      BY <1>1, <2>1 DEF Phases
    <3> QED
      BY <1>2, <1>3, <2>1, <3>1 DEF CleanInv, SeenInv, DomainHasRow
  <2>2. CASE q = r /\ CreateAddInstance(r)
    BY <1>1, <1>4, <2>2 DEF CreateAddInstance, Outcome, Goto, Typed, TypedCalls, TypedServices
  <2>3. CASE q = r /\ CreateRegister(r)
    BY <2>3 DEF CreateRegister, RM!RegisterVM, services, CleanInv, SeenInv, DomainHasRow
  <2>4. CASE q = r /\ ~CreateAddInstance(r) /\ ~CreateRegister(r)
    BY <1>1, <2>4 DEF CreateStep, CreateSelect, CreateSubnet, CreateConfigure, CreateAllocate,
       CreateStore, CreateOnCore, CreateDeallocate, CreateUnconfigure, Goto, Typed, TypedCalls
  <2> QED
    BY <2>1, <2>2, <2>3, <2>4
<1>9. DeleteForgets'
  <2> SUFFICES ASSUME NEW o \in Call, call[o].kind = "delete", pc[o] \in {"removeStatus", "done"}
               PROVE  call[o].core # NoCore /\ guac'[Of(o)] = NoVM
    BY <1>1 DEF DeleteForgets, Of
  <2>1. call[o].core # NoCore /\ guac[Of(o)] = NoVM /\ Of(o) \in UUID /\ Appeared(Of(o))
    BY <1>1 DEF CleanInv, SeenInv, DeleteForgets, FoundAppeared, Shapes, Shape
  <2>2. CASE Of(o) = UUIDOf[r]
    <3>1. CreateRegister(r)
      BY <2>1, <2>2, AppearedIs DEF CreateStep, CreateSelect, CreateSubnet, CreateConfigure,
         CreateAllocate, CreateStore, CreateOnCore, CreateAddInstance, CreateDeallocate,
         CreateUnconfigure
    <3> QED
      BY <2>1, <3>1 DEF CreateRegister, services
  <2> QED
    BY <1>2, <2>1, <2>2
<1> QED
  BY <1>5, <1>6, <1>7, <1>8, <1>9 DEF SeenInv

\* The delete under way takes the password away, the others keep it away.
LEMMA DeletesForget ==
    ASSUME Clean, CleanInv, NEW o \in Call, CallNext(o)
    PROVE  DeleteForgets'
<1>1. /\ Typed /\ Shape(o) /\ call[o] \in CallRecord /\ Shapes
      /\ \A p \in (Request \cup Call) \ {o} : pc'[p] = pc[p]
      /\ \A q \in Call \ {o} : call'[q] = call[q]
  BY CallFrame DEF CleanInv, LifecycleInv, Shapes, Typed, TypedCalls
<1>2. guac' = guac \/ guac' = [guac EXCEPT ![Of(o)] = NoVM]
  BY DEF services, CallNext, CallStep, Arrive, Report, FindHit, FindRow, FindCache, StatusOnCore, OnCore,
       StartOnCore, ShutdownOnCore, DeleteOnCore, ShutdownUnregister, DeleteLease, DeleteRow,
       DeleteUnconfigure, Unconfigure, DeleteRemoveStatus, GetStatus, SetStatus, ReadBack,
       ConnectReadInfo, ConnectLogin
<1>3. ASSUME NEW u \in UUID, guac[u] = NoVM PROVE guac'[u] = NoVM
  BY <1>1, <1>2, <1>3 DEF Typed, TypedServices
<1>4. ASSUME NEW q \in Call, q # o, call'[q].kind = "delete", pc'[q] \in {"removeStatus", "done"}
      PROVE  call'[q].core # NoCore /\ guac'[call'[q].uuid] = NoVM
  <2>1. /\ call[q].kind = "delete" /\ pc[q] \in {"removeStatus", "done"}
        /\ call'[q] = call[q] /\ Shape(q)
    BY <1>1, <1>4 DEF Shapes
  <2>2. call[q].core # NoCore /\ guac[Of(q)] = NoVM /\ Of(q) \in UUID
    BY <2>1 DEF CleanInv, SeenInv, DeleteForgets, Shape
  <2> QED
    BY <1>3, <2>1, <2>2 DEF Of
<1>5. ASSUME call'[o].kind = "delete", pc'[o] \in {"removeStatus", "done"}
      PROVE  call'[o].core # NoCore /\ guac'[call'[o].uuid] = NoVM
  <2>1. DeleteUnconfigure(o) \/ DeleteRemoveStatus(o)
    <3> USE <1>1, <1>5 DEF Typed, TypedCalls, Goto, At, CallRecord
    <3>1. CASE \/ \E kind \in Kinds, u \in UUID : Arrive(o, kind, u)
               \/ \E u \in UUID : Report(o, u)
               \/ FindRow(o)
      BY <3>1 DEF Arrive, Report, FindRow
    <3>2. CASE FindHit(o) \/ FindCache(o)
      <4>1. Goto(o, FirstStep(call[o].kind)) /\ call'[o].kind = call[o].kind
        BY <3>2 DEF FindHit, FindCache
      <4> QED
        BY <4>1 DEF FirstStep
    <3>3. CASE StartOnCore(o) \/ ShutdownOnCore(o) \/ DeleteOnCore(o)
      BY <3>3 DEF StartOnCore, ShutdownOnCore, DeleteOnCore, OnCore, Shape
    <3>4. CASE ShutdownUnregister(o) \/ ConnectReadInfo(o) \/ DeleteLease(o) \/ DeleteRow(o)
      BY <3>4 DEF ShutdownUnregister, ConnectReadInfo, DeleteLease, DeleteRow
    <3>5. CASE StatusOnCore(o) \/ GetStatus(o) \/ SetStatus(o) \/ ReadBack(o) \/ ConnectLogin(o)
      BY <3>5 DEF StatusOnCore, GetStatus, SetStatus, ReadBack, ConnectLogin, Shape
    <3> QED
      BY <3>1, <3>2, <3>3, <3>4, <3>5 DEF CallNext, CallStep
  <2>2. call' = call
    BY <2>1 DEF DeleteUnconfigure, DeleteRemoveStatus
  <2>3. CASE DeleteUnconfigure(o)
    <3>1. call[o].core # NoCore /\ Of(o) \in UUID
      BY <1>1, <2>3 DEF DeleteUnconfigure, At, Shape, AfterFind, DeleteLabel
    <3>2. guac' = [guac EXCEPT ![Of(o)] = NoVM]
      BY <2>3 DEF DeleteUnconfigure, Unconfigure, Tolerated, Clean
    <3> QED
      BY <1>1, <2>2, <3>1, <3>2 DEF Typed, TypedServices, Of
  <2>4. CASE DeleteRemoveStatus(o)
    BY <1>5, <2>2, <2>4 DEF DeleteRemoveStatus, At, Of, CleanInv, SeenInv, DeleteForgets
  <2> QED
    BY <2>1, <2>3, <2>4
<1> QED
  BY <1>4, <1>5 DEF DeleteForgets, Of

LEMMA CallSeen ==
    ASSUME Clean, CleanInv, NEW o \in Call, CallNext(o)
    PROVE  SeenInv'
<1>1. /\ Typed /\ Shape(o) /\ call[o] \in CallRecord /\ Shapes /\ Phases
      /\ chosen' = chosen
      /\ \A p \in (Request \cup Call) \ {o} : pc'[p] = pc[p]
      /\ \A q \in Call \ {o} : call'[q] = call[q]
      /\ \A r \in Request : pc'[r] = pc[r]
      /\ \A u : Appeared(u)' <=> Appeared(u)
  BY CallFrame, CallAppears DEF CleanInv, LifecycleInv, Shapes, Typed, TypedCalls
<1>2. LocatedAppeared'
  <2> SUFFICES ASSUME NEW u \in UUID, vmLocation'[u] # NoCore PROVE Appeared(u)
    BY <1>1 DEF LocatedAppeared
  <2>1. CASE vmLocation'[u] = vmLocation[u]
    BY <2>1 DEF CleanInv, SeenInv, LocatedAppeared
  <2>2. CASE u = Of(o) /\ vmLocation'[u] = call[o].core
    BY <2>2 DEF CleanInv, SeenInv, FoundAppeared
  <2> QED
    BY <2>1, <2>2, CallLocations DEF CleanInv
<1>3. FoundAppeared'
  <2> SUFFICES ASSUME NEW q \in Call, call'[q].core # NoCore PROVE Appeared(call'[q].uuid)
    BY <1>1 DEF FoundAppeared, Of
  <2>1. CASE q # o
    BY <1>1, <2>1 DEF CleanInv, SeenInv, FoundAppeared, Of
  <2>2. CASE q = o
    <3>1. call'[o].uuid = Of(o)
      BY <2>2, CallLocations DEF CleanInv
    <3>2. CASE call[o].core # NoCore
      BY <2>2, <3>1, <3>2 DEF CleanInv, SeenInv, FoundAppeared
    <3>3. CASE call[o].core = NoCore
      <4>1. FindHit(o) \/ FindRow(o)
        <5>1. CASE ShutdownUnregister(o)
          BY <1>1, <3>3, <5>1 DEF ShutdownUnregister, Shape, AfterFind, At
        <5>2. CASE ConnectReadInfo(o)
          BY <1>1, <3>3, <5>2 DEF ConnectReadInfo, Shape, AfterFind, At
        <5>3. CASE \E u \in UUID : Report(o, u)
          BY <1>1, <2>2, <3>3, <5>3 DEF Report, Typed, TypedCalls, CallRecord
        <5>4. CASE \E kind \in Kinds, u \in UUID : Arrive(o, kind, u)
          BY <1>1, <2>2, <3>3, <5>4 DEF Arrive, Typed, TypedCalls, CallRecord
        <5> QED
          BY <2>2, <3>3, <5>1, <5>2, <5>3, <5>4
             DEF CallNext, CallStep, FindCache, StatusOnCore, OnCore, StartOnCore, ShutdownOnCore, DeleteOnCore,
                 DeleteLease, DeleteRow, DeleteUnconfigure, DeleteRemoveStatus, GetStatus, SetStatus,
                 ReadBack, ConnectLogin
      <4>2. Of(o) \in UUID
        BY <1>1, <4>1 DEF FindHit, FindRow, At, Shape
      <4>3. CASE FindHit(o)
        BY <3>1, <2>2, <4>2, <4>3 DEF FindHit, CleanInv, SeenInv, LocatedAppeared
      <4>4. CASE FindRow(o)
        <5>1. row[Of(o)] # NoVM
          BY <2>2, <3>3, <4>4 DEF FindRow
        <5> QED
          BY <2>2, <3>1, <4>2, <5>1, RowsAppeared DEF CleanInv
      <4> QED
        BY <4>1, <4>3, <4>4
    <3> QED
      BY <3>2, <3>3
  <2> QED
    BY <2>1, <2>2
<1>4. JustCreated'
  <2> SUFFICES ASSUME NEW r \in Request, pc[r] = "addInstance"
               PROVE  domain'[chosen[r]][UUIDOf[r]] = Running
    BY <1>1 DEF JustCreated
  <2>1. domain[chosen[r]][UUIDOf[r]] = Running /\ chosen[r] \in Core /\ UUIDOf[r] \in UUID
    BY <1>1, MemoryAssumption DEF CleanInv, SeenInv, JustCreated, Phases
  <2>2. CASE StartOnCore(o) \/ ShutdownOnCore(o) \/ DeleteOnCore(o)
    <3>1. call[o].core # NoCore
      BY <1>1, <2>2 DEF StartOnCore, ShutdownOnCore, DeleteOnCore, OnCore, At, Shape, AfterFind,
         DeleteLabel
    <3>2. Of(o) # UUIDOf[r]
      BY <2>1, <3>1, AppearedIs DEF CleanInv, SeenInv, FoundAppeared
    <3>3. domain' = domain \/ \E state : domain' = [domain EXCEPT ![call[o].core][Of(o)] = state]
      BY <2>2 DEF StartOnCore, ShutdownOnCore, DeleteOnCore, OnCore
    <3>4. ASSUME NEW state, domain' = [domain EXCEPT ![call[o].core][Of(o)] = state]
          PROVE  domain'[chosen[r]][UUIDOf[r]] = domain[chosen[r]][UUIDOf[r]]
      BY <1>1, <2>1, <3>2, <3>4 DEF Typed, TypedServices
    <3> QED
      BY <2>1, <3>3, <3>4
  <2>3. CASE domain' = domain
    BY <2>1, <2>3
  <2> QED
    BY <2>2, <2>3 DEF CallNext, CallStep, Arrive, Report, FindHit, FindRow, FindCache, StatusOnCore,
       ShutdownUnregister, DeleteLease, DeleteRow, DeleteUnconfigure, DeleteRemoveStatus,
       GetStatus, SetStatus, ReadBack, ConnectReadInfo, ConnectLogin, services
<1>5. DomainHasRow'
  <2> SUFFICES ASSUME NEW r \in Request, pc[r] \in {"register", "done"},
                      domain'[chosen[r]][UUIDOf[r]] # Nothing
               PROVE  row'[UUIDOf[r]] = r
    BY <1>1 DEF DomainHasRow
  <2>1. chosen[r] \in Core /\ UUIDOf[r] \in UUID
    BY <1>1, MemoryAssumption DEF Phases
  <2>2. domain[chosen[r]][UUIDOf[r]] # Nothing
    BY <2>1, CallLocal DEF CleanInv, OwnedInv
  <2>3. row[UUIDOf[r]] = r
    BY <2>2 DEF CleanInv, SeenInv, DomainHasRow
  <2>4. CASE DeleteRow(o)
    <3>1. Of(o) # UUIDOf[r]
      BY <1>1, <2>1, <2>2, <2>4 DEF CleanInv, OwnedInv, DeletesFindNone, DeleteRow, At, DeleteLabel
    <3> QED
      BY <1>1, <2>1, <2>3, <2>4, <3>1 DEF DeleteRow, Typed, TypedServices
  <2>5. CASE row' = row
    BY <2>3, <2>5
  <2> QED
    BY <2>4, <2>5 DEF CallNext, CallStep, Arrive, Report, FindHit, FindRow, FindCache, StatusOnCore,
       ShutdownUnregister, OnCore, StartOnCore, ShutdownOnCore, DeleteOnCore, DeleteLease,
       DeleteUnconfigure, DeleteRemoveStatus, GetStatus, SetStatus, ReadBack, ConnectReadInfo,
       ConnectLogin, services
<1> QED
  BY <1>2, <1>3, <1>4, <1>5, DeletesForget DEF SeenInv

LEMMA SeenAlways == ASSUME Clean PROVE Spec => []CleanInv
<1>1. CleanInv /\ [Next]_lifecycleVars => SeenInv'
  <2> SUFFICES ASSUME CleanInv, [Next]_lifecycleVars PROVE SeenInv'
    OBVIOUS
  <2>1. CASE UNCHANGED lifecycleVars
    BY <2>1 DEF lifecycleVars, memory, services, CleanInv, SeenInv, LocatedAppeared, FoundAppeared,
       JustCreated, DomainHasRow, DeleteForgets, Appeared, Of
  <2> QED
    BY <2>1, CreateSeen, CallSeen, NextMeans
<1>2. Spec => [](LifecycleInv /\ OwnedInv /\ UpInv)
  BY UpAlways DEF Clean
<1>3. LifecycleInv /\ RowsEarned /\ [Next]_lifecycleVars => RowsEarned'
  BY RowsEarnedStep DEF Clean
<1> QED
  BY <1>1, <1>2, <1>3, SeenInit, RowsEarnedInit, PTL DEF Spec, CleanInv

-----------------------------------------------------------------------------
(* What a client sees.                                                     *)

LEMMA VMOf ==
    ASSUME NEW u \in UUID
    PROVE  LET d == domain[chosen[row[u]]][u] IN
           /\ row[u] # NoVM /\ d = Running => VMSeen(u) = "running"
           /\ row[u] # NoVM /\ d = Stopped => VMSeen(u) = "stopped"
           /\ row[u] # NoVM /\ d = Nothing => VMSeen(u) = "destroyed"
           /\ row[u] = NoVM /\ Appeared(u) => VMSeen(u) = "gone"
           /\ row[u] = NoVM /\ ~Appeared(u) => VMSeen(u) = "absent"
  BY DEF VMSeen, Appeared, Running, Stopped, Nothing

\* A VM that has a domain is seen to have one, and a VM that has appeared is not absent.
LEMMA VMIsThere ==
    ASSUME LifecycleInv, RowsEarned, NEW u \in UUID
    PROVE  /\ row[u] # NoVM => domain[chosen[row[u]]][u] \in {Nothing, Running, Stopped}
           /\ row[u] # NoVM /\ domain[chosen[row[u]]][u] # Nothing => VMSeen(u) \in {"running", "stopped"}
           /\ Appeared(u) => VMSeen(u) # "absent"
<1>1. row[u] # NoVM => domain[chosen[row[u]]][u] \in {Nothing, Running, Stopped}
  BY RowsAppeared DEF LifecycleInv, Typed, TypedServices
<1> QED
  BY <1>1, VMOf

\* It changes with the row, with its domain and when it appears, and with nothing else.
LEMMA SameVM ==
    ASSUME NEW u \in UUID, row'[u] = row[u], Appeared(u)' <=> Appeared(u),
           row[u] # NoVM => domain'[chosen'[row[u]]][u] = domain[chosen[row[u]]][u]
    PROVE  VMSeen(u)' = VMSeen(u)
<1>1. CASE row[u] = NoVM
  BY <1>1 DEF VMSeen, Appeared
<1>2. CASE row[u] # NoVM
  <2> DEFINE Sight(d) == CASE d = Running -> "running"
                           [] d = Stopped -> "stopped"
                           [] d = Nothing -> "destroyed"
  <2>1. VMSeen(u) = Sight(domain[chosen[row[u]]][u])
    BY <1>2 DEF VMSeen
  <2>2. VMSeen(u)' = Sight(domain'[chosen'[row'[u]]][u])
    BY <1>2 DEF VMSeen
  <2> HIDE DEF Sight
  <2> QED
    BY <1>2, <2>1, <2>2
<1> QED
  BY <1>1, <1>2

LEMMA StatusOfEnded ==
    ASSUME NEW p
    PROVE  /\ pc[p] = "idle" => StatusSeen(p) = "idle"
           /\ pc[p] = "done" => StatusSeen(p) = "answered"
           /\ pc[p] = "failed" => StatusSeen(p) = "failed"
  BY DEF StatusSeen

LEMMA StatusOfCreate ==
    ASSUME NEW r \in Request, pc[r] \notin {"idle", "done", "failed"}
    PROVE  StatusSeen(r) = IF pc[r] = "register" THEN "effective" ELSE "called"
  BY LifecycleAssumption DEF StatusSeen

\* The call has had its effect and is about to be answered.
Effective(o) ==
    \/ call[o].kind = "delete" /\ pc[o] \in {"unconfigure", "removeStatus"}
    \/ call[o].kind = "shutdown" /\ pc[o] \in {"unregister", "getStatus", "setStatus"}

LEMMA StatusOfCall ==
    ASSUME NEW o \in Call, pc[o] \notin {"idle", "done", "failed"}
    PROVE  StatusSeen(o) = IF Effective(o) THEN "effective" ELSE "called"
<1>1. o \notin Request
  BY LifecycleAssumption
<1> QED
  BY <1>1 DEF StatusSeen, Effective

LEMMA SameStatus ==
    ASSUME NEW p, pc'[p] = pc[p], p \in Call => call'[p].kind = call[p].kind
    PROVE  StatusSeen(p)' = StatusSeen(p)
  BY DEF StatusSeen

-----------------------------------------------------------------------------
(* The steps of the service, by what is seen of them.                      *)

Client == Request \cup Call

SameVMs == \A u \in UUID : VMSeen(u)' = VMSeen(u)
SameAsks == \A o \in Call : call'[o].kind = call[o].kind /\ call'[o].uuid = call[o].uuid
SameStatuses == \A p \in Client : StatusSeen(p)' = StatusSeen(p)

VMTurns(u, state) == \A v \in UUID : VMSeen(v)' = IF v = u THEN state ELSE VMSeen(v)
StatusTurns(p, s) == \A q \in Client : StatusSeen(q)' = IF q = p THEN s ELSE StatusSeen(q)

LEMMA SeenVMs ==
    SameVMs => [u \in UUID |-> VMSeen(u)]' = [u \in UUID |-> VMSeen(u)]
  BY DEF SameVMs

LEMMA SeenAsks ==
    SameAsks => [o \in Call |-> [kind |-> call[o].kind, uuid |-> Of(o)]]'
                    = [o \in Call |-> [kind |-> call[o].kind, uuid |-> Of(o)]]
  BY DEF SameAsks, Of

LEMMA SeenVM ==
    ASSUME NEW u \in UUID, NEW state, VMTurns(u, state)
    PROVE  [v \in UUID |-> VMSeen(v)]' = [[v \in UUID |-> VMSeen(v)] EXCEPT ![u] = state]
  BY DEF VMTurns

LEMMA SeenStatus ==
    ASSUME NEW p \in Client, NEW s, StatusTurns(p, s)
    PROVE  Service!Becomes(p, s)
  BY DEF StatusTurns, Client, Service!Becomes

LEMMA Unseen ==
    ASSUME SameVMs, SameAsks, SameStatuses PROVE UNCHANGED Service!serviceVars
<1>1. [p \in Request \cup Call |-> StatusSeen(p)]' = [p \in Request \cup Call |-> StatusSeen(p)]
  BY DEF SameStatuses, Client
<1> QED
  BY <1>1, SeenVMs, SeenAsks DEF Service!serviceVars

LEMMA SeenReturn ==
    ASSUME NEW p \in Client, SameVMs, SameAsks,
           \/ StatusSeen(p) = "effective" /\ StatusTurns(p, "answered")
           \/ StatusSeen(p) = "called" /\ StatusTurns(p, "failed")
    PROVE  Service!Next
<1>1. Service!Return(p)
  BY SeenVMs, SeenAsks, SeenStatus DEF Service!Return, Client
<1> QED
  BY <1>1 DEF Service!Next, Client

LEMMA SeenCreate ==
    ASSUME NEW r \in Request, StatusSeen(r) = "called", VMSeen(UUIDOf[r]) = "absent",
           VMTurns(UUIDOf[r], "running"), SameAsks, StatusTurns(r, "effective")
    PROVE  Service!Next
<1>1. UUIDOf[r] \in UUID
  BY MemoryAssumption
<1>2. Service!Create(r)
  BY <1>1, SeenVM, SeenAsks, SeenStatus DEF Service!Create, Client
<1> QED
  BY <1>2 DEF Service!Next

LEMMA SeenInvoke ==
    ASSUME NEW o \in Call, NEW k \in OpKind, NEW u \in UUID, StatusSeen(o) = "idle",
           call'[o].kind = k, call'[o].uuid = u,
           \A q \in Call \ {o} : call'[q].kind = call[q].kind /\ call'[q].uuid = call[q].uuid,
           SameVMs, StatusTurns(o, "called")
    PROVE  Service!Next
<1>1. [q \in Call |-> [kind |-> call[q].kind, uuid |-> Of(q)]]'
        = [[q \in Call |-> [kind |-> call[q].kind, uuid |-> Of(q)]]
              EXCEPT ![o] = [kind |-> k, uuid |-> u]]
  BY DEF Of
<1>2. Service!Invoke(o)
  BY <1>1, SeenVMs, SeenStatus DEF Service!Invoke, Service!Kind, OpKind, Client
<1> QED
  BY <1>2 DEF Service!Next

LEMMA SeenSwitch ==
    ASSUME NEW o \in Call, Of(o) \in UUID, StatusSeen(o) = "called",
           VMSeen(Of(o)) \in {"running", "stopped"}, SameAsks,
           \/ /\ call[o].kind = "start" /\ VMTurns(Of(o), "running")
              /\ StatusTurns(o, "answered")
           \/ /\ call[o].kind = "shutdown" /\ VMTurns(Of(o), "stopped")
              /\ StatusTurns(o, "effective")
    PROVE  Service!Next
<1>1. Service!Switch(o, "start", "running") \/ Service!Switch(o, "shutdown", "stopped")
  BY SeenVM, SeenAsks, SeenStatus DEF Service!Switch, Service!Asks, Client
<1> QED
  BY <1>1 DEF Service!Next

LEMMA SeenDestroy ==
    ASSUME NEW o \in Call, Of(o) \in UUID, StatusSeen(o) = "called", call[o].kind = "delete",
           VMSeen(Of(o)) \in {"running", "stopped"}, VMTurns(Of(o), "destroyed"),
           SameAsks, SameStatuses
    PROVE  Service!Next
<1>1. [p \in Request \cup Call |-> StatusSeen(p)]' = [p \in Request \cup Call |-> StatusSeen(p)]
  BY DEF SameStatuses, Client
<1>2. Service!Destroy(o)
  BY <1>1, SeenVM, SeenAsks DEF Service!Destroy, Service!Asks, Client
<1> QED
  BY <1>2 DEF Service!Next

LEMMA SeenForget ==
    ASSUME NEW o \in Call, Of(o) \in UUID, StatusSeen(o) = "called", call[o].kind = "delete",
           VMSeen(Of(o)) \in {"destroyed", "gone"}, VMTurns(Of(o), "gone"),
           SameAsks, StatusTurns(o, "effective")
    PROVE  Service!Next
<1>1. Service!Forget(o)
  BY SeenVM, SeenAsks, SeenStatus DEF Service!Forget, Service!Asks, Client
<1> QED
  BY <1>1 DEF Service!Next

LEMMA SeenTell ==
    ASSUME NEW o \in Call, Of(o) \in UUID, StatusSeen(o) = "called", SameVMs, SameAsks,
           StatusTurns(o, "answered"),
           \/ call[o].kind = "report"
           \/ call[o].kind = "status" /\ VMSeen(Of(o)) # "absent"
           \/ /\ call[o].kind = "connect" /\ VMSeen(Of(o)) # "absent"
              /\ \A d \in Call : StatusSeen(d) = "answered" /\ call[d].kind = "delete"
                                    => Of(d) # Of(o)
    PROVE  Service!Next
<1>1. call[o].kind = "connect" => ~Service!Deleted(Of(o))
  BY DEF Service!Deleted, Client
<1>2. Service!Tell(o)
  BY <1>1, SeenVMs, SeenAsks, SeenStatus DEF Service!Tell, Service!Asks, Client
<1> QED
  BY <1>2 DEF Service!Next

-----------------------------------------------------------------------------
(* What is seen after a step.                                              *)

LEMMA VMOfNext ==
    ASSUME NEW u \in UUID
    PROVE  LET d == domain'[chosen'[row'[u]]][u] IN
           /\ row'[u] # NoVM /\ d = Running => VMSeen(u)' = "running"
           /\ row'[u] # NoVM /\ d = Stopped => VMSeen(u)' = "stopped"
           /\ row'[u] # NoVM /\ d = Nothing => VMSeen(u)' = "destroyed"
           /\ row'[u] = NoVM /\ Appeared(u)' => VMSeen(u)' = "gone"
  BY DEF VMSeen, Appeared, Running, Stopped, Nothing

LEMMA StatusOfEndedNext ==
    ASSUME NEW p
    PROVE  /\ pc'[p] = "done" => StatusSeen(p)' = "answered"
           /\ pc'[p] = "failed" => StatusSeen(p)' = "failed"
  BY DEF StatusSeen

LEMMA StatusOfCreateNext ==
    ASSUME NEW r \in Request, pc'[r] \notin {"idle", "done", "failed"}
    PROVE  StatusSeen(r)' = IF pc'[r] = "register" THEN "effective" ELSE "called"
  BY LifecycleAssumption DEF StatusSeen

LEMMA StatusOfCallNext ==
    ASSUME NEW o \in Call, pc'[o] \notin {"idle", "done", "failed"}
    PROVE  StatusSeen(o)' = IF Effective(o)' THEN "effective" ELSE "called"
<1>1. o \notin Request
  BY LifecycleAssumption
<1> QED
  BY <1>1 DEF StatusSeen, Effective

-----------------------------------------------------------------------------
(* The steps of a create.                                                  *)

\* Until its row is there a create shows nothing, and the row shows the whole VM.
LEMMA CreateVMs ==
    ASSUME Clean, CleanInv, NEW r \in Request, CreateStep(r)
    PROVE  /\ \A v \in UUID \ {UUIDOf[r]} : VMSeen(v)' = VMSeen(v)
           /\ \/ VMSeen(UUIDOf[r])' = VMSeen(UUIDOf[r])
              \/ pc[r] = "addInstance" /\ pc'[r] = "register"
           /\ pc[r] = "addInstance" /\ pc'[r] = "register" =>
                VMSeen(UUIDOf[r]) = "absent" /\ VMSeen(UUIDOf[r])' = "running"
<1> DEFINE u == UUIDOf[r]
<1>1. /\ Typed /\ Phases /\ Typed' /\ call' = call /\ u \in UUID /\ r # NoVM
      /\ \A p \in (Request \cup Call) \ {r} : pc'[p] = pc[p]
      /\ \A q \in Request \ {r} : phase'[q] = phase[q] /\ chosen'[q] = chosen[q]
      /\ pc[r] # "select" => chosen'[r] = chosen[r]
  BY CreateFrame, CreateForward, MemoryAssumption DEF CleanInv, LifecycleInv, Typed
<1>2. ASSUME NEW v \in UUID \ {u} PROVE VMSeen(v)' = VMSeen(v)
  <2>1. row'[v] = row[v] /\ \A c \in Core : domain'[c][v] = domain[c][v]
    BY <1>2, CreateLocal DEF CleanInv
  <2>2. Appeared(v)' <=> Appeared(v)
    BY <1>1, <1>2 DEF Appeared
  <2>3. row[v] # NoVM => chosen'[row[v]] = chosen[row[v]] /\ chosen[row[v]] \in Core
    BY <1>1, <1>2, RowsAppeared DEF CleanInv
  <2> QED
    BY <2>1, <2>2, <2>3, SameVM
<1>3. CASE CreateAddInstance(r) /\ pc'[r] = "register"
  <2>1. pc[r] = "addInstance" /\ UNCHANGED <<chosen, domain>> /\ row[u] = NoVM
        /\ row' = [row EXCEPT ![u] = r]
    BY <1>1, <1>3 DEF CreateAddInstance, Outcome, Goto, Typed, TypedCalls, memory
  <2>2. VMSeen(u) = "absent"
    BY <1>1, <2>1, AppearedIs, VMOf
  <2>3. row'[u] = r /\ domain'[chosen'[r]][u] = Running
    BY <1>1, <2>1 DEF CleanInv, SeenInv, JustCreated, Typed, TypedServices
  <2>4. VMSeen(u)' = "running"
    BY <1>1, <2>3, VMOfNext
  <2> QED
    BY <1>2, <2>1, <2>2, <2>4, <1>3
<1>4. CASE ~(CreateAddInstance(r) /\ pc'[r] = "register")
  <2>1. row'[u] = row[u] /\ (pc'[r] \in {"register", "done"} <=> pc[r] \in {"register", "done"})
    <3>1. CASE CreateAddInstance(r)
      BY <1>1, <1>4, <3>1 DEF CreateAddInstance, Outcome, Goto, Typed, TypedCalls, Clean
    <3>2. CASE ~CreateAddInstance(r)
      BY <1>1, <3>2 DEF CreateStep, CreateSelect, CreateSubnet, CreateConfigure, CreateAllocate,
         CreateStore, CreateOnCore, CreateRegister, CreateDeallocate, CreateUnconfigure,
         Goto, Typed, TypedCalls, services
    <3> QED
      BY <3>1, <3>2
  <2>2. Appeared(u)' <=> Appeared(u)
    BY <1>1, <2>1 DEF Appeared
  <2>3. row[u] # NoVM => chosen'[row[u]] = chosen[row[u]] /\ domain' = domain
    <3> SUFFICES ASSUME row[u] # NoVM PROVE chosen'[row[u]] = chosen[row[u]] /\ domain' = domain
      OBVIOUS
    <3>1. row[u] = r /\ pc[r] \in {"register", "done"}
      BY <1>1, RowsAppeared DEF CleanInv, Clean, RM!FreshUUIDs
    <3>2. CreateRegister(r)
      BY <3>1 DEF CreateStep, CreateSelect, CreateSubnet, CreateConfigure, CreateAllocate,
         CreateStore, CreateOnCore, CreateAddInstance, CreateDeallocate, CreateUnconfigure
    <3> QED
      BY <1>1, <3>1, <3>2 DEF CreateRegister, services
  <2>4. VMSeen(u)' = VMSeen(u)
    BY <1>1, <2>1, <2>2, <2>3, SameVM
  <2>5. ~(pc[r] = "addInstance" /\ pc'[r] = "register")
    BY <1>4, <2>1
  <2> QED
    BY <1>2, <2>4, <2>5
<1> QED
  BY <1>3, <1>4

LEMMA CreateSees ==
    ASSUME Clean, CleanInv, NEW r \in Request, CreateStep(r)
    PROVE  Service!Next \/ UNCHANGED Service!serviceVars
<1>1. /\ TypedCalls /\ call' = call /\ UUIDOf[r] \in UUID
      /\ \A p \in (Request \cup Call) \ {r} : pc'[p] = pc[p]
  BY CreateFrame, MemoryAssumption DEF CleanInv, LifecycleInv, Typed
<1>2. SameAsks /\ \A p \in Client \ {r} : StatusSeen(p)' = StatusSeen(p)
  BY <1>1, SameStatus DEF SameAsks, Client
<1>3. \/ pc[r] = "addInstance" /\ pc'[r] = "register"
      \/ pc[r] = "register" /\ pc'[r] = "done"
      \/ /\ pc[r] \notin {"idle", "register", "done", "failed"}
         /\ pc'[r] \notin {"idle", "register", "done"}
  BY <1>1 DEF CreateStep, CreateSelect, CreateSubnet, CreateConfigure, CreateAllocate,
     CreateStore, CreateOnCore, CreateAddInstance, CreateRegister, CreateDeallocate,
     CreateUnconfigure, Goto, TypedCalls
<1>4. CASE pc[r] = "addInstance" /\ pc'[r] = "register"
  <2>1. StatusSeen(r) = "called" /\ StatusSeen(r)' = "effective"
    BY <1>4, StatusOfCreate, StatusOfCreateNext
  <2>2. StatusTurns(r, "effective")
    BY <1>2, <2>1 DEF StatusTurns
  <2>3. VMSeen(UUIDOf[r]) = "absent" /\ VMTurns(UUIDOf[r], "running")
    BY <1>4, CreateVMs DEF VMTurns
  <2> QED
    BY <1>2, <2>1, <2>2, <2>3, SeenCreate
<1>5. CASE pc[r] = "register" /\ pc'[r] = "done"
  <2>1. StatusSeen(r) = "effective" /\ StatusSeen(r)' = "answered"
    BY <1>5, StatusOfCreate, StatusOfEndedNext
  <2>2. StatusTurns(r, "answered")
    BY <1>2, <2>1 DEF StatusTurns
  <2>3. SameVMs
    BY <1>5, CreateVMs DEF SameVMs
  <2> QED
    BY <1>2, <2>1, <2>2, <2>3, SeenReturn DEF Client
<1>6. CASE /\ pc[r] \notin {"idle", "register", "done", "failed"}
           /\ pc'[r] \notin {"idle", "register", "done"}
  <2>1. StatusSeen(r) = "called"
    BY <1>6, StatusOfCreate
  <2>2. SameVMs
    BY <1>6, CreateVMs DEF SameVMs
  <2>3. CASE pc'[r] = "failed"
    <3>1. StatusTurns(r, "failed")
      BY <1>2, <2>3, StatusOfEndedNext DEF StatusTurns
    <3> QED
      BY <1>2, <2>1, <2>2, <3>1, SeenReturn DEF Client
  <2>4. CASE pc'[r] # "failed"
    <3>1. SameStatuses
      BY <1>2, <1>6, <2>1, <2>4, StatusOfCreateNext DEF SameStatuses
    <3> QED
      BY <1>2, <2>2, <3>1, Unseen
  <2> QED
    BY <2>3, <2>4
<1> QED
  BY <1>3, <1>4, <1>5, <1>6

-----------------------------------------------------------------------------
(* The steps of a call.                                                    *)

\* What a call's step shows of the others and of other VMs.
LEMMA CallSees ==
    ASSUME CleanInv, NEW o \in Call, CallNext(o)
    PROVE  /\ \A p \in Client \ {o} : StatusSeen(p)' = StatusSeen(p)
           /\ \A q \in Call \ {o} : call'[q].kind = call[q].kind /\ call'[q].uuid = call[q].uuid
           /\ UNCHANGED <<domain, row>> => SameVMs
<1>1. /\ chosen' = chosen
      /\ \A p \in Client \ {o} : pc'[p] = pc[p]
      /\ \A q \in Call \ {o} : call'[q] = call[q]
      /\ \A u : Appeared(u)' <=> Appeared(u)
  BY CallFrame, CallAppears DEF CleanInv, LifecycleInv, Client
<1>2. UNCHANGED <<domain, row>> => SameVMs
  BY <1>1, SameVM DEF SameVMs
<1> QED
  BY <1>1, <1>2, SameStatus

\* A call that has arrived stays what it is.
LEMMA CallKeepsAsk ==
    ASSUME CleanInv, NEW o \in Call, CallStep(o)
    PROVE  SameAsks
<1>1. /\ TypedCalls /\ call[o] \in CallRecord
      /\ \A q \in Call \ {o} : call'[q] = call[q]
  BY CallFrame DEF CleanInv, LifecycleInv, Typed, TypedCalls, CallNext
<1>2. call'[o].kind = call[o].kind /\ call'[o].uuid = call[o].uuid
  <2>1. CASE UNCHANGED call
    BY <2>1
  <2>2. CASE FindHit(o) \/ FindRow(o) \/ ShutdownUnregister(o) \/ ConnectReadInfo(o)
    BY <1>1, <2>2 DEF FindHit, FindRow, ShutdownUnregister, ConnectReadInfo, TypedCalls, CallRecord
  <2> QED
    BY <2>1, <2>2 DEF CallStep, FindCache, StatusOnCore, OnCore, StartOnCore, ShutdownOnCore, DeleteOnCore,
       DeleteLease, DeleteRow, DeleteUnconfigure, DeleteRemoveStatus, GetStatus, SetStatus,
       ReadBack, ConnectLogin
<1> QED
  BY <1>1, <1>2 DEF SameAsks

LEMMA ArriveSees ==
    ASSUME CleanInv, NEW o \in Call, CallNext(o), ~CallStep(o)
    PROVE  Service!Next
<1>1. TypedCalls /\ call[o] \in CallRecord
  BY DEF CleanInv, LifecycleInv, Typed, TypedCalls
<1>2. PICK k \in OpKind, u \in UUID :
        /\ pc[o] = "idle" /\ UNCHANGED <<domain, row>>
        /\ call'[o].kind = k /\ call'[o].uuid = u
        /\ pc'[o] = "find" \/ (pc'[o] = "getStatus" /\ k = "report")
  <2>1. ASSUME NEW k \in Kinds, NEW u \in UUID, Arrive(o, k, u)
        PROVE  /\ pc[o] = "idle" /\ UNCHANGED <<domain, row>> /\ pc'[o] = "find"
               /\ k \in OpKind /\ call'[o].kind = k /\ call'[o].uuid = u
    BY <1>1, <2>1, LifecycleAssumption
       DEF Arrive, At, Goto, TypedCalls, CallRecord, services, OpKind
  <2>2. ASSUME NEW u \in UUID, Report(o, u)
        PROVE  /\ pc[o] = "idle" /\ UNCHANGED <<domain, row>> /\ pc'[o] = "getStatus"
               /\ "report" \in OpKind /\ call'[o].kind = "report" /\ call'[o].uuid = u
    BY <1>1, <2>2 DEF Report, At, Goto, TypedCalls, CallRecord, services, OpKind
  <2> QED
    BY <2>1, <2>2 DEF CallNext
<1>3. StatusSeen(o) = "idle" /\ StatusSeen(o)' = "called"
  BY <1>2, StatusOfEnded, StatusOfCallNext DEF Effective
<1>4. StatusTurns(o, "called")
  BY <1>3, CallSees DEF StatusTurns
<1> QED
  BY <1>2, <1>3, <1>4, CallSees, SeenInvoke

\* A call that goes on without anything to be seen, is answered after its effect, or
\* fails before it.
LEMMA QuietSees ==
    ASSUME CleanInv, NEW o \in Call, CallStep(o), UNCHANGED <<domain, row>>,
           pc[o] \notin {"idle", "done", "failed"},
           \/ pc'[o] \notin {"idle", "done", "failed"} /\ (Effective(o)' <=> Effective(o))
           \/ pc'[o] = "done" /\ Effective(o)
           \/ pc'[o] = "failed" /\ ~Effective(o)
    PROVE  Service!Next \/ UNCHANGED Service!serviceVars
<1>1. /\ SameVMs /\ SameAsks
      /\ \A p \in Client \ {o} : StatusSeen(p)' = StatusSeen(p)
  BY CallSees, CallKeepsAsk DEF CallNext
<1>2. StatusSeen(o) = IF Effective(o) THEN "effective" ELSE "called"
  BY StatusOfCall
<1>3. CASE pc'[o] \notin {"idle", "done", "failed"} /\ (Effective(o)' <=> Effective(o))
  BY <1>1, <1>2, <1>3, StatusOfCallNext, Unseen DEF SameStatuses
<1>4. CASE pc'[o] = "done" /\ Effective(o)
  <2>1. StatusTurns(o, "answered")
    BY <1>1, <1>4, StatusOfEndedNext DEF StatusTurns
  <2> QED
    BY <1>1, <1>2, <1>4, <2>1, SeenReturn DEF Client
<1>5. CASE pc'[o] = "failed" /\ ~Effective(o)
  <2>1. StatusTurns(o, "failed")
    BY <1>1, <1>5, StatusOfEndedNext DEF StatusTurns
  <2> QED
    BY <1>1, <1>2, <1>5, <2>1, SeenReturn DEF Client
<1> QED
  BY <1>3, <1>4, <1>5

\* A call that is answered with what it has found.
LEMMA TellSees ==
    ASSUME CleanInv, NEW o \in Call, CallStep(o), UNCHANGED <<domain, row>>,
           pc[o] \notin {"idle", "done", "failed"}, ~Effective(o), pc'[o] = "done",
           Of(o) \in UUID,
           \/ call[o].kind = "report"
           \/ call[o].kind = "status" /\ Appeared(Of(o))
           \/ /\ call[o].kind = "connect" /\ Appeared(Of(o))
              /\ guac[Of(o)] # NoVM
    PROVE  Service!Next
<1>1. /\ SameVMs /\ SameAsks
      /\ \A p \in Client \ {o} : StatusSeen(p)' = StatusSeen(p)
  BY CallSees, CallKeepsAsk DEF CallNext
<1>2. StatusSeen(o) = "called"
  BY StatusOfCall
<1>3. StatusTurns(o, "answered")
  BY <1>1, StatusOfEndedNext DEF StatusTurns
<1>4. Appeared(Of(o)) => VMSeen(Of(o)) # "absent"
  BY VMIsThere DEF CleanInv
<1>5. ASSUME guac[Of(o)] # NoVM, NEW d \in Call, StatusSeen(d) = "answered", call[d].kind = "delete"
      PROVE  Of(d) # Of(o)
  <2>1. pc[d] = "done"
    <3>1. pc[d] # "idle" /\ pc[d] # "failed"
      BY <1>5, StatusOfEnded
    <3>2. CASE pc[d] # "done"
      BY <1>5, <3>1, <3>2, StatusOfCall
    <3> QED
      BY <3>2
  <2> QED
    BY <1>5, <2>1 DEF CleanInv, SeenInv, DeleteForgets
<1> QED
  BY <1>1, <1>2, <1>3, <1>4, <1>5, SeenTell

\* What the cases below need of a call.
LEMMA CallFacts ==
    ASSUME CleanInv, NEW o \in Call, CallStep(o)
    PROVE  /\ Typed /\ Shape(o) /\ call[o] \in CallRecord
           /\ call'[o].kind = call[o].kind
           /\ pc[o] # "idle" => Of(o) \in UUID
           /\ call[o].core # NoCore => Appeared(Of(o))
<1>1. Typed /\ Shape(o) /\ call[o] \in CallRecord
  BY DEF CleanInv, LifecycleInv, Shapes, Typed, TypedCalls
<1>2. call'[o].kind = call[o].kind
  BY CallKeepsAsk DEF SameAsks
<1> QED
  BY <1>1, <1>2 DEF Shape, CleanInv, SeenInv, FoundAppeared

LEMMA FindSees ==
    ASSUME CleanInv, NEW o \in Call, FindHit(o) \/ FindRow(o) \/ FindCache(o)
    PROVE  Service!Next \/ UNCHANGED Service!serviceVars
<1>1. /\ CallStep(o) /\ Typed /\ Shape(o) /\ call'[o].kind = call[o].kind
      /\ pc[o] \in {"find", "cache"} /\ UNCHANGED <<domain, row>>
  BY CallFacts DEF CallStep, FindHit, FindRow, FindCache, At, services
<1>2. Of(o) \in UUID /\ ~Effective(o) /\ call[o].kind \in OpKind \ {"report"}
  BY <1>1 DEF Shape, Effective
<1>3. CASE FindRow(o)
  <2>1. pc'[o] \in {"cache", "failed"}
    BY <1>1, <1>3 DEF FindRow, Goto, Typed, TypedCalls
  <2>2. pc'[o] = "cache" => ~Effective(o)'
    BY DEF Effective
  <2> QED
    BY <1>1, <1>2, <2>1, <2>2, QuietSees
<1>4. CASE FindHit(o) \/ FindCache(o)
  <2>1. pc'[o] = FirstStep(call[o].kind)
    BY <1>1, <1>4 DEF FindHit, FindCache, Goto, Typed, TypedCalls
  <2>2. pc'[o] \in {"coreDelete", "coreShutdown", "coreStart", "readInfo", "coreStatus"}
    BY <1>2, <2>1 DEF FirstStep, OpKind
  <2>3. ~Effective(o)'
    BY <2>2 DEF Effective
  <2> QED
    BY <1>1, <1>2, <2>2, <2>3, QuietSees
<1> QED
  BY <1>3, <1>4

\* A Core that answers about a VM tells of one that has appeared.
LEMMA AskSees ==
    ASSUME CleanInv, NEW o \in Call, StatusOnCore(o)
    PROVE  Service!Next \/ UNCHANGED Service!serviceVars
<1>1. /\ CallStep(o) /\ Typed /\ Shape(o) /\ call'[o].kind = call[o].kind
      /\ pc[o] = "coreStatus" /\ UNCHANGED <<domain, row>>
  BY CallFacts DEF CallStep, StatusOnCore, At, services
<1>2. /\ Of(o) \in UUID /\ call[o].kind = "status" /\ Appeared(Of(o))
      /\ ~Effective(o) /\ ~Effective(o)'
  BY <1>1, CallFacts DEF Shape, AfterFind, Effective
<1>3. pc'[o] \in {"done", "failed"}
  BY <1>1 DEF StatusOnCore, Goto, Typed, TypedCalls
<1>4. CASE pc'[o] = "done"
  BY <1>1, <1>2, <1>4, TellSees
<1>5. CASE pc'[o] = "failed"
  BY <1>1, <1>2, <1>5, QuietSees
<1> QED
  BY <1>3, <1>4, <1>5

LEMMA StatusSees ==
    ASSUME Clean, CleanInv, NEW o \in Call,
           ShutdownUnregister(o) \/ GetStatus(o) \/ SetStatus(o) \/ ReadBack(o)
    PROVE  Service!Next \/ UNCHANGED Service!serviceVars
<1>1. /\ CallStep(o) /\ Typed /\ Shape(o) /\ call'[o].kind = call[o].kind
      /\ pc[o] \in {"unregister", "getStatus", "setStatus", "readBack"}
      /\ UNCHANGED <<domain, row>> /\ Of(o) \in UUID
  BY CallFacts DEF CallStep, ShutdownUnregister, GetStatus, SetStatus, ReadBack, At, services
<1>2. \/ call[o].kind = "shutdown" /\ pc[o] # "readBack" /\ Effective(o)
      \/ call[o].kind = "report" /\ pc[o] # "unregister" /\ ~Effective(o)
  BY <1>1 DEF Shape, Effective
<1>3. CASE call[o].kind = "shutdown"
  <2>1. pc'[o] \in {"getStatus", "setStatus", "done"}
    BY <1>1, <1>2, <1>3 DEF ShutdownUnregister, GetStatus, SetStatus, ReadBack, WithoutStatus,
       At, Goto, Typed, TypedCalls
  <2>2. pc'[o] # "done" => Effective(o)'
    BY <1>1, <1>3, <2>1 DEF Effective
  <2> QED
    BY <1>1, <1>2, <1>3, <2>1, <2>2, QuietSees
<1>4. CASE call[o].kind = "report"
  <2>1. pc'[o] \in {"setStatus", "readBack", "done", "failed"}
    BY <1>1, <1>2, <1>4 DEF ShutdownUnregister, GetStatus, SetStatus, ReadBack, WithoutStatus,
       At, Goto, Typed, TypedCalls
  <2>2. ~Effective(o)'
    BY <1>1, <1>4 DEF Effective
  <2>3. CASE pc'[o] = "done"
    BY <1>1, <1>2, <1>4, <2>3, TellSees
  <2>4. CASE pc'[o] # "done"
    BY <1>1, <1>2, <1>4, <2>1, <2>2, <2>4, QuietSees
  <2> QED
    BY <2>3, <2>4
<1> QED
  BY <1>2, <1>3, <1>4

\* A login that Guacamole accepts is not for a VM whose delete has been answered.
LEMMA ConnectSees ==
    ASSUME CleanInv, NEW o \in Call, ConnectReadInfo(o) \/ ConnectLogin(o)
    PROVE  Service!Next \/ UNCHANGED Service!serviceVars
<1>1. /\ CallStep(o) /\ Typed /\ Shape(o) /\ call'[o].kind = call[o].kind
      /\ pc[o] \in {"readInfo", "login"}
      /\ UNCHANGED <<domain, row>> /\ Of(o) \in UUID
  BY CallFacts DEF CallStep, ConnectReadInfo, ConnectLogin, At, services
<1>2. call[o].kind = "connect" /\ Appeared(Of(o)) /\ ~Effective(o) /\ ~Effective(o)'
  BY <1>1, CallFacts DEF Shape, AfterFind, Effective
<1>3. CASE ConnectReadInfo(o)
  <2>1. pc'[o] \in {"login", "failed"}
    BY <1>1, <1>3 DEF ConnectReadInfo, Goto, Typed, TypedCalls
  <2> QED
    BY <1>1, <1>2, <2>1, QuietSees
<1>4. CASE ConnectLogin(o)
  <2>1. \/ pc'[o] = "done" /\ guac[Of(o)] = call[o].vm
        \/ pc'[o] = "failed"
    BY <1>1, <1>4 DEF ConnectLogin, Goto, Typed, TypedCalls
  <2>2. call[o].vm # NoVM
    BY <1>4, MemoryAssumption DEF ConnectLogin, At, CleanInv, UpInv, LoginKnown
  <2>3. CASE pc'[o] = "done"
    BY <1>1, <1>2, <2>1, <2>2, <2>3, TellSees
  <2>4. CASE pc'[o] = "failed"
    BY <1>1, <1>2, <2>4, QuietSees
  <2> QED
    BY <2>1, <2>3, <2>4
<1> QED
  BY <1>3, <1>4

LEMMA DeleteSees ==
    ASSUME CleanInv, NEW o \in Call,
           DeleteLease(o) \/ DeleteUnconfigure(o) \/ DeleteRemoveStatus(o)
    PROVE  Service!Next \/ UNCHANGED Service!serviceVars
<1>1. /\ CallStep(o) /\ Typed /\ Shape(o) /\ call'[o].kind = call[o].kind
      /\ UNCHANGED <<domain, row>>
  BY CallFacts DEF CallStep, DeleteLease, DeleteUnconfigure, DeleteRemoveStatus
<1>2. \/ pc[o] = "releaseLease" /\ pc'[o] = "deleteRow"
      \/ pc[o] = "unconfigure" /\ pc'[o] = "removeStatus"
      \/ pc[o] = "removeStatus" /\ pc'[o] = "done"
  BY <1>1 DEF DeleteLease, DeleteUnconfigure, DeleteRemoveStatus, At, Goto, Typed, TypedCalls
<1>3. call[o].kind = "delete"
  BY <1>1, <1>2 DEF Shape, DeleteLabel
<1>4. /\ Effective(o) <=> pc[o] # "releaseLease"
      /\ Effective(o)' <=> pc'[o] = "removeStatus"
  BY <1>1, <1>2, <1>3 DEF Effective
<1> QED
  BY <1>1, <1>2, <1>4, QuietSees

-----------------------------------------------------------------------------
(* The steps that have an effect.                                          *)

\* The domain of u becomes that of the call, and nothing else of what is seen changes.
LEMMA DomainTurns ==
    ASSUME Clean, CleanInv, NEW o \in Call, CallStep(o), call[o].core # NoCore, Of(o) \in UUID,
           NEW state \in {Nothing, Running, Stopped}, UNCHANGED row,
           domain' = [domain EXCEPT ![call[o].core][Of(o)] = state]
    PROVE  /\ domain[call[o].core][Of(o)] # Nothing =>
                /\ VMSeen(Of(o)) \in {"running", "stopped"}
                /\ VMTurns(Of(o), IF state = Running THEN "running"
                                  ELSE IF state = Stopped THEN "stopped" ELSE "destroyed")
           /\ domain[call[o].core][Of(o)] = state => UNCHANGED domain
<1> DEFINE u == Of(o)
           c == call[o].core
           seen == IF state = Running THEN "running" ELSE IF state = Stopped THEN "stopped" ELSE "destroyed"
<1>1. /\ Typed /\ call[o] \in CallRecord /\ Appeared(u) /\ chosen' = chosen
      /\ \A v : Appeared(v)' <=> Appeared(v)
  BY CallFacts, CallFrame, CallAppears DEF CleanInv, LifecycleInv, CallNext
<1>2. c \in Core /\ domain \in [Core -> [UUID -> {Nothing, Running, Stopped}]]
  BY <1>1 DEF CallRecord, Typed, TypedServices
<1>3. domain[c][u] = state => UNCHANGED domain
  BY <1>2
<1>4. ASSUME domain[c][u] # Nothing
      PROVE  VMSeen(u) \in {"running", "stopped"} /\ VMTurns(u, seen)
  <2>1. PICK r \in Request : UUIDOf[r] = u /\ pc[r] \in {"register", "done"}
    BY <1>1 DEF Appeared
  <2>2. c = chosen[r]
    BY <2>1, FoundIsPast DEF Clean, CleanInv
  <2>3. row[u] = r /\ r # NoVM
    BY <1>4, <2>1, <2>2, MemoryAssumption DEF CleanInv, SeenInv, DomainHasRow
  <2>4. VMSeen(u) \in {"running", "stopped"}
    BY <1>4, <2>2, <2>3, VMIsThere DEF CleanInv
  <2>5. domain'[chosen'[row'[u]]][u] = state
    BY <1>1, <1>2, <2>2, <2>3
  <2>6. ASSUME NEW v \in UUID, v = u PROVE VMSeen(v)' = seen
    <3>1. row'[v] # NoVM /\ domain'[chosen'[row'[v]]][v] = state
      BY <2>3, <2>5, <2>6
    <3> QED
      BY <3>1, VMOfNext DEF Running, Stopped, Nothing
  <2>7. ASSUME NEW v \in UUID, v # u PROVE VMSeen(v)' = VMSeen(v)
    <3>1. \A k \in Core : domain'[k][v] = domain[k][v]
      BY <1>2, <2>7
    <3>2. row[v] # NoVM => chosen[row[v]] \in Core
      BY RowsAppeared DEF CleanInv
    <3> QED
      BY <1>1, <3>1, <3>2, SameVM
  <2> QED
    BY <2>4, <2>6, <2>7 DEF VMTurns
<1> QED
  BY <1>3, <1>4

LEMMA OnCoreSees ==
    ASSUME Clean, CleanInv, NEW o \in Call,
           StartOnCore(o) \/ ShutdownOnCore(o) \/ DeleteOnCore(o)
    PROVE  Service!Next \/ UNCHANGED Service!serviceVars
<1>1. /\ CallStep(o) /\ Typed /\ Shape(o) /\ call'[o].kind = call[o].kind /\ UNCHANGED row
      /\ pc[o] \in {"coreStart", "coreShutdown", "coreDelete"}
  BY CallFacts DEF CallStep, StartOnCore, ShutdownOnCore, DeleteOnCore, OnCore, At
<1>2. Of(o) \in UUID /\ call[o].core # NoCore /\ ~Effective(o)
  BY <1>1 DEF Shape, AfterFind, DeleteLabel, Effective
<1>3. StatusSeen(o) = "called" /\ SameAsks
      /\ \A p \in Client \ {o} : StatusSeen(p)' = StatusSeen(p)
  BY <1>1, <1>2, StatusOfCall, CallKeepsAsk, CallSees DEF CallNext
<1>4. ASSUME pc'[o] = "failed", UNCHANGED domain PROVE Service!Next \/ UNCHANGED Service!serviceVars
  BY <1>1, <1>2, <1>4, QuietSees
<1>5. CASE StartOnCore(o)
  <2>1. \/ pc'[o] = "failed" /\ UNCHANGED domain
        \/ /\ pc'[o] = "done" /\ domain[call[o].core][Of(o)] # Nothing
           /\ domain' = [domain EXCEPT ![call[o].core][Of(o)] = Running]
    BY <1>1, <1>5 DEF StartOnCore, OnCore, Outcome, Goto, Clean, Typed, TypedCalls, Running, Nothing
  <2>2. CASE /\ pc'[o] = "done" /\ domain[call[o].core][Of(o)] # Nothing
             /\ domain' = [domain EXCEPT ![call[o].core][Of(o)] = Running]
    <3>1. call[o].kind = "start"
      BY <1>5, <1>1 DEF StartOnCore, OnCore, At, Shape
    <3>2. VMSeen(Of(o)) \in {"running", "stopped"} /\ VMTurns(Of(o), "running")
      BY <1>1, <1>2, <2>2, DomainTurns
    <3>3. StatusTurns(o, "answered")
      BY <1>3, <2>2, StatusOfEndedNext DEF StatusTurns
    <3> QED
      BY <1>2, <1>3, <3>1, <3>2, <3>3, SeenSwitch
  <2> QED
    BY <1>4, <2>1, <2>2
<1>6. CASE ShutdownOnCore(o)
  <2>1. \/ pc'[o] = "failed" /\ UNCHANGED domain
        \/ /\ pc'[o] = "unregister" /\ domain[call[o].core][Of(o)] # Nothing
           /\ domain' = [domain EXCEPT ![call[o].core][Of(o)] = Stopped]
    BY <1>1, <1>6 DEF ShutdownOnCore, OnCore, Outcome, Goto, Clean, Typed, TypedCalls, Stopped, Nothing
  <2>2. CASE /\ pc'[o] = "unregister" /\ domain[call[o].core][Of(o)] # Nothing
             /\ domain' = [domain EXCEPT ![call[o].core][Of(o)] = Stopped]
    <3>1. call[o].kind = "shutdown"
      BY <1>1, <1>6 DEF ShutdownOnCore, OnCore, At, Shape
    <3>2. VMSeen(Of(o)) \in {"running", "stopped"} /\ VMTurns(Of(o), "stopped")
      BY <1>1, <1>2, <2>2, DomainTurns DEF Stopped, Running
    <3>3. StatusSeen(o)' = "effective"
      BY <1>1, <2>2, <3>1, StatusOfCallNext DEF Effective
    <3>4. StatusTurns(o, "effective")
      BY <1>3, <3>3 DEF StatusTurns
    <3> QED
      BY <1>2, <1>3, <3>1, <3>2, <3>4, SeenSwitch
  <2> QED
    BY <1>4, <2>1, <2>2
<1>7. CASE DeleteOnCore(o)
  <2>1. \/ pc'[o] = "failed" /\ UNCHANGED domain
        \/ /\ pc'[o] = "releaseLease"
           /\ domain' = [domain EXCEPT ![call[o].core][Of(o)] = Nothing]
    BY <1>1, <1>7 DEF DeleteOnCore, OnCore, Outcome, Goto, Clean, Typed, TypedCalls
  <2>2. CASE /\ pc'[o] = "releaseLease"
             /\ domain' = [domain EXCEPT ![call[o].core][Of(o)] = Nothing]
    <3>1. call[o].kind = "delete" /\ ~Effective(o)'
      BY <1>1, <1>7, <2>2 DEF DeleteOnCore, OnCore, At, Shape, DeleteLabel, Effective
    <3>2. CASE UNCHANGED domain
      BY <1>1, <1>2, <2>2, <3>1, <3>2, QuietSees
    <3>3. CASE domain[call[o].core][Of(o)] # Nothing
      <4>1. VMSeen(Of(o)) \in {"running", "stopped"} /\ VMTurns(Of(o), "destroyed")
        BY <1>1, <1>2, <2>2, <3>3, DomainTurns DEF Nothing, Running, Stopped
      <4>2. SameStatuses
        BY <1>3, <2>2, <3>1, StatusOfCallNext DEF SameStatuses
      <4> QED
        BY <1>2, <1>3, <3>1, <4>1, <4>2, SeenDestroy
    <3> QED
      BY <1>1, <1>2, <2>2, <3>2, <3>3, DomainTurns
  <2> QED
    BY <1>4, <2>1, <2>2
<1> QED
  BY <1>5, <1>6, <1>7

\* The row goes, of a VM that is destroyed or of one that is forgotten already.
LEMMA DeleteRowSees ==
    ASSUME Clean, CleanInv, NEW o \in Call, DeleteRow(o)
    PROVE  Service!Next \/ UNCHANGED Service!serviceVars
<1> DEFINE u == Of(o)
<1>1. /\ CallStep(o) /\ Typed /\ Shape(o) /\ call'[o].kind = call[o].kind
      /\ pc[o] = "deleteRow" /\ UNCHANGED domain
  BY CallFacts DEF CallStep, DeleteRow, At
<1>2. /\ u \in UUID /\ call[o].core # NoCore /\ call[o].kind = "delete"
      /\ ~Effective(o) /\ Appeared(u)
  BY <1>1, CallFacts DEF Shape, AfterFind, DeleteLabel, Effective
<1>3. StatusSeen(o) = "called" /\ SameAsks
      /\ \A p \in Client \ {o} : StatusSeen(p)' = StatusSeen(p)
  BY <1>1, <1>2, StatusOfCall, CallKeepsAsk, CallSees DEF CallNext
<1>4. \/ pc'[o] = "failed" /\ UNCHANGED row
      \/ pc'[o] = "unconfigure" /\ row' = [row EXCEPT ![u] = NoVM]
  BY <1>1 DEF DeleteRow, Outcome, Goto, Clean, Typed, TypedCalls
<1>5. CASE pc'[o] = "failed" /\ UNCHANGED row
  BY <1>1, <1>2, <1>5, QuietSees
<1>6. CASE pc'[o] = "unconfigure" /\ row' = [row EXCEPT ![u] = NoVM]
  <2>1. VMSeen(u) \in {"destroyed", "gone"}
    <3>1. CASE row[u] = NoVM
      BY <1>2, <3>1, VMOf
    <3>2. CASE row[u] # NoVM
      <4>1. chosen[row[u]] \in Core
        BY <1>2, <3>2, RowsAppeared DEF CleanInv
      <4>2. domain[chosen[row[u]]][u] = Nothing
        BY <1>1, <4>1 DEF CleanInv, OwnedInv, DeletesFindNone, DeleteLabel
      <4> QED
        BY <1>2, <3>2, <4>2, VMOf
    <3> QED
      BY <3>1, <3>2
  <2>2. chosen' = chosen /\ \A v : Appeared(v)' <=> Appeared(v)
    BY <1>1, CallFrame, CallAppears DEF CleanInv, LifecycleInv, CallNext
  <2>3. ASSUME NEW v \in UUID, v = u PROVE VMSeen(v)' = "gone"
    <3>1. row'[v] = NoVM /\ Appeared(v)'
      BY <1>1, <1>2, <1>6, <2>2, <2>3 DEF Typed, TypedServices
    <3> QED
      BY <3>1, VMOfNext
  <2>4. ASSUME NEW v \in UUID, v # u PROVE VMSeen(v)' = VMSeen(v)
    <3>1. row'[v] = row[v]
      BY <1>1, <1>6, <2>4 DEF Typed, TypedServices
    <3> QED
      BY <1>1, <2>2, <3>1, SameVM
  <2>5. VMTurns(u, "gone")
    BY <2>3, <2>4 DEF VMTurns
  <2>6. StatusSeen(o)' = "effective"
    BY <1>1, <1>2, <1>6, StatusOfCallNext DEF Effective
  <2>7. StatusTurns(o, "effective")
    BY <1>3, <2>6 DEF StatusTurns
  <2> QED
    BY <1>2, <1>3, <2>1, <2>5, <2>7, SeenForget
<1> QED
  BY <1>4, <1>5, <1>6

-----------------------------------------------------------------------------
(* The refinement.                                                         *)

LEMMA ServiceInit == Init => Service!Init
<1> SUFFICES ASSUME Init PROVE Service!Init
  OBVIOUS
<1>1. \A u \in UUID : VMSeen(u) = "absent"
  <2>1. \A u \in UUID : row[u] = NoVM /\ ~Appeared(u)
    BY DEF Init, Appeared
  <2> QED
    BY <2>1, VMOf
<1>2. \A p \in Request \cup Call : StatusSeen(p) = IF p \in Request THEN "called" ELSE "idle"
  <2>1. \A r \in Request : StatusSeen(r) = "called"
    BY StatusOfCreate DEF Init
  <2>2. \A o \in Call : o \notin Request /\ StatusSeen(o) = "idle"
    BY StatusOfEnded, LifecycleAssumption DEF Init
  <2> QED
    BY <2>1, <2>2
<1>3. \A o \in Call : call[o].kind = "none" /\ Of(o) = "none"
  BY DEF Init, Nothing, Of
<1> QED
  BY <1>1, <1>2, <1>3 DEF Service!Init, Service!NoAsk

LEMMA ServiceStep ==
    ASSUME Clean PROVE CleanInv /\ [Next]_lifecycleVars => [Service!Next]_Service!serviceVars
<1> SUFFICES ASSUME CleanInv, [Next]_lifecycleVars
             PROVE  Service!Next \/ UNCHANGED Service!serviceVars
  OBVIOUS
<1>1. CASE UNCHANGED lifecycleVars
  <2>1. UNCHANGED <<pc, call, row, domain, chosen>>
    BY <1>1 DEF lifecycleVars, memory, services
  <2>2. SameVMs
    BY <2>1, SameVM DEF SameVMs, Appeared
  <2>3. SameAsks /\ SameStatuses
    BY <2>1, SameStatus DEF SameAsks, SameStatuses
  <2> QED
    BY <2>2, <2>3, Unseen
<1>2. ASSUME NEW o \in Call, CallNext(o)
      PROVE  Service!Next \/ UNCHANGED Service!serviceVars
  <2>1. CASE CallStep(o)
    BY <2>1, FindSees, AskSees, StatusSees, ConnectSees, DeleteSees, OnCoreSees, DeleteRowSees DEF CallStep
  <2> QED
    BY <1>2, <2>1, ArriveSees
<1> QED
  BY <1>1, <1>2, CreateSees, NextMeans

\* The handlers of api/ and service/ over the six stores, in every interleaving, look
\* to the clients like the life of one VM for each uuid: it appears, is switched and is
\* forgotten in an instant between a request and its answer, a create that fails was
\* never seen, a VM that runs is not forgotten, and no login is given to a VM whose
\* delete was answered.
THEOREM HandlersImplementService ==
    ASSUME RM!FreshUUIDs, ~LostAnswers, ~BestEffortFails PROVE Spec => ImplementsService
<1>1. Clean
  BY DEF Clean
<1> QED
  BY <1>1, ServiceInit, ServiceStep, SeenAlways, PTL DEF Spec, ImplementsService, Service!Spec

=============================================================================
