---------------------------- MODULE VMLifecycle ----------------------------
(***************************************************************************)
(* The control server's VM operations (service/vm.go, service/guacamole.go,*)
(* service/redis.go and the handlers of api/) as interleaved calls, each   *)
(* one action per external call or locked section, over the resource       *)
(* manager and the five services the server talks to: the Cores that run   *)
(* the VMs, CMS, the Guacamole database, MySQL and Redis.                  *)
(*                                                                         *)
(* The memory of the server is that of ResourceManager, changed by its     *)
(* actions only.  An external call may be refused, may be carried out, or  *)
(* may be carried out and still come back as an error (a timeout, a lost   *)
(* answer, a body that does not parse).                                    *)
(***************************************************************************)
EXTENDS Integers, Sequences, FiniteSets

CONSTANTS
    Request, UUID, NumCores, AliveCores, UUIDOf, Demand, StartFree, W, NoCore, NoVM,
    Call,        \* the calls of the other operations
    Kinds,       \* the operations these calls may ask for
    LostAnswers, \* calls that took effect may come back as errors
    BestEffortFails \* Redis and the steps whose errors are only logged may fail

VARIABLES
    free, vmInfoIdx, vmLocation, aliveVM, phase, chosen, interfered, staleCores,
    pc,     \* the next step of each create and each call
    call,   \* what each call asks for and has found out so far
    domain, \* Core: the state of each VM on each core
    lease,  \* CMS: the creates whose IP is taken
    guac,   \* Guacamole: whose password the user named by the uuid has
    row,    \* MySQL: whose inst_info and inst_loc rows the uuid has
    redis   \* Redis: the status stored under the uuid

RM == INSTANCE ResourceManager

Core == 1..NumCores

\* As the resource manager assumes them.
ASSUME MemoryAssumption ==
    /\ IsFiniteSet(Request)
    /\ NumCores \in Nat
    /\ W \in Nat \ {0}
    /\ AliveCores \subseteq Core
    /\ UUIDOf \in [Request -> UUID]
    /\ Demand \in [Request -> [RM!Resource -> 1..(W - 1)]]
    /\ StartFree \in [Core -> [RM!Resource -> 0..(W - 1)]]
    /\ NoCore \notin Core
    /\ NoVM \notin Request

ASSUME LifecycleAssumption ==
    /\ Kinds \subseteq {"delete", "shutdown", "start", "connect", "status", "report"}
    /\ LostAnswers \in BOOLEAN
    /\ BestEffortFails \in BOOLEAN
    /\ Request \cap Call = {}

memory == <<free, vmInfoIdx, vmLocation, aliveVM, phase, chosen, interfered, staleCores>>
services == <<domain, lease, guac, row, redis>>
lifecycleVars == <<memory, pc, call, services>>

Running == "started begin"  \* api.VMStatusStarted
Stopped == "stopped end"    \* service.VMStatusStopped
Unknown == "unknown"        \* service.VMStatusUnknown
Nothing == "none"           \* no domain, no key

\* CreateVM stores the string of Unknown.  Nothing in the code tells it from a reported
\* "unknown"; the model does, to say which came first.
Initial == "unknown (initial)"

\* Any status that is not in the list of ValidateAndNormalizeStatus, "" and "null"
\* included.
Unrecognised == "(unrecognised)"

\* What reports and shutdowns leave in Redis.
Reported == {Running, Stopped, Unknown}

Init ==
    /\ RM!Init
    /\ pc = [p \in Request \cup Call |-> IF p \in Request THEN "select" ELSE "idle"]
    /\ call = [o \in Call |-> [kind |-> Nothing, uuid |-> Nothing, core |-> NoCore,
                               vm |-> NoVM, status |-> Nothing]]
    /\ domain = [c \in Core |-> [u \in UUID |-> Nothing]]
    /\ lease = {}
    /\ guac = [u \in UUID |-> NoVM]
    /\ row = [u \in UUID |-> NoVM]
    /\ redis = [u \in UUID |-> Nothing]

Goto(p, l) == pc' = [pc EXCEPT ![p] = l]

\* An answer means that the call took effect; an error means that it did not, or
\* that the answer got lost.
Outcome(applied, answered) == (answered => applied) /\ (applied /\ ~answered => LostAnswers)

\* A call whose error is logged and otherwise ignored.
Tolerated(applied) == applied \/ BestEffortFails

-----------------------------------------------------------------------------
(* CreateVM.                                                               *)

CreateSelect(r) ==
    /\ pc[r] = "select"
    /\ \/ RM!SelectCore(r) /\ Goto(r, "subnet")
       \/ RM!NoCoreFits(r) /\ Goto(r, "failed")
    /\ UNCHANGED <<call, services>>

\* CMS gives an IP, or refuses.  Two more refusals are a create without users or
\* whose key cannot be made, and a create with "Add": AddCmsSubnet looks the IP up
\* under the uuid of the VM that is being created and finds none.
CreateSubnet(r) ==
    \E applied, answered \in BOOLEAN :
        /\ pc[r] = "subnet"
        /\ Outcome(applied, answered)
        /\ lease' = IF applied THEN lease \cup {r} ELSE lease
        /\ IF answered THEN Goto(r, "configure") /\ UNCHANGED memory
                       ELSE Goto(r, "failed") /\ RM!Abandon(r)
        /\ UNCHANGED <<call, domain, guac, row, redis>>

\* Faulty: the cleanup of the booking is pushed before the booking is made.
CreateConfigureCleanupFirst(r) ==
    \E applied, answered \in BOOLEAN :
        /\ pc[r] = "configure"
        /\ Outcome(applied, answered)
        /\ guac' = IF applied THEN [guac EXCEPT ![UUIDOf[r]] = r] ELSE guac
        /\ Goto(r, IF answered THEN "allocate" ELSE "deallocate")
        /\ UNCHANGED <<memory, call, domain, lease, row, redis>>

\* guacamole.Configure: one transaction that gives the user a new password,
\* whoever configured it before.
CreateConfigure(r) ==
    \E applied, answered \in BOOLEAN :
        /\ pc[r] = "configure"
        /\ Outcome(applied, answered)
        /\ guac' = IF applied THEN [guac EXCEPT ![UUIDOf[r]] = r] ELSE guac
        /\ IF answered THEN Goto(r, "allocate") /\ UNCHANGED memory
                       ELSE Goto(r, "failed") /\ RM!Abandon(r)
        /\ UNCHANGED <<call, domain, lease, row, redis>>

CreateAllocate(r) ==
    /\ pc[r] = "allocate"
    /\ RM!AllocateResources(r)
    /\ Goto(r, "store")
    /\ UNCHANGED <<call, services>>

\* StoreVMInfoToRedis; its error is logged.
CreateStore(r) ==
    \E stored \in BOOLEAN :
        /\ pc[r] = "store"
        /\ Tolerated(stored)
        /\ redis' = IF stored THEN [redis EXCEPT ![UUIDOf[r]] = Initial] ELSE redis
        /\ Goto(r, "coreCreate")
        /\ UNCHANGED <<memory, call, domain, lease, guac, row>>

\* Faulty: the error of the Core is not looked at.
CreateOnCoreUnchecked(r) ==
    \E applied, answered \in BOOLEAN :
        /\ pc[r] = "coreCreate"
        /\ Outcome(applied, answered)
        /\ applied => domain[chosen[r]][UUIDOf[r]] = Nothing
        /\ domain' = IF applied THEN [domain EXCEPT ![chosen[r]][UUIDOf[r]] = Running]
                                ELSE domain
        /\ Goto(r, "addInstance")
        /\ UNCHANGED <<memory, call, lease, guac, row, redis>>

\* A Core does not create a VM it already has.
CreateOnCore(r) ==
    \E applied, answered \in BOOLEAN :
        /\ pc[r] = "coreCreate"
        /\ Outcome(applied, answered)
        /\ applied => domain[chosen[r]][UUIDOf[r]] = Nothing
        /\ domain' = IF applied THEN [domain EXCEPT ![chosen[r]][UUIDOf[r]] = Running]
                                ELSE domain
        /\ Goto(r, IF answered THEN "addInstance" ELSE "deallocate")
        /\ UNCHANGED <<memory, call, lease, guac, row, redis>>

\* Faulty: the initial status is stored with the rows.
CreateAddInstanceAndStore(r) ==
    \E applied, answered \in BOOLEAN :
        /\ pc[r] = "addInstance"
        /\ Outcome(applied, answered)
        /\ applied => row[UUIDOf[r]] = NoVM
        /\ row' = IF applied THEN [row EXCEPT ![UUIDOf[r]] = r] ELSE row
        /\ redis' = IF applied THEN [redis EXCEPT ![UUIDOf[r]] = Initial] ELSE redis
        /\ Goto(r, IF answered THEN "register" ELSE "deallocate")
        /\ UNCHANGED <<memory, call, domain, lease, guac>>

\* Faulty: returns the error without running the cleanup chain.
CreateAddInstanceNoCleanup(r) ==
    \E applied, answered \in BOOLEAN :
        /\ pc[r] = "addInstance"
        /\ Outcome(applied, answered)
        /\ applied => row[UUIDOf[r]] = NoVM
        /\ row' = IF applied THEN [row EXCEPT ![UUIDOf[r]] = r] ELSE row
        /\ Goto(r, IF answered THEN "register" ELSE "failed")
        /\ UNCHANGED <<memory, call, domain, lease, guac, redis>>

\* AddInstance: one transaction; uuid is the primary key of both tables.
CreateAddInstance(r) ==
    \E applied, answered \in BOOLEAN :
        /\ pc[r] = "addInstance"
        /\ Outcome(applied, answered)
        /\ applied => row[UUIDOf[r]] = NoVM
        /\ row' = IF applied THEN [row EXCEPT ![UUIDOf[r]] = r] ELSE row
        /\ Goto(r, IF answered THEN "register" ELSE "deallocate")
        /\ UNCHANGED <<memory, call, domain, lease, guac, redis>>

\* Faulty: a deferred cleanup of Guacamole runs on success as well.
CreateRegisterAndUnconfigure(r) ==
    /\ pc[r] = "register"
    /\ RM!RegisterVM(r)
    /\ guac' = [guac EXCEPT ![UUIDOf[r]] = NoVM]
    /\ Goto(r, "done")
    /\ UNCHANGED <<call, domain, lease, row, redis>>

CreateRegister(r) ==
    /\ pc[r] = "register"
    /\ RM!RegisterVM(r)
    /\ Goto(r, "done")
    /\ UNCHANGED <<call, services>>

\* cleanupChain.run: the steps pushed so far, last one first.
CreateDeallocate(r) ==
    /\ pc[r] = "deallocate"
    /\ RM!DeallocateResources(r)
    /\ Goto(r, "unconfigure")
    /\ UNCHANGED <<call, services>>

\* guacamole.Cleanup deletes the user named by the uuid, whoever configured it.
Unconfigure(u) ==
    \E applied \in BOOLEAN :
        /\ Tolerated(applied)
        /\ guac' = IF applied THEN [guac EXCEPT ![u] = NoVM] ELSE guac

CreateUnconfigure(r) ==
    /\ pc[r] = "unconfigure"
    /\ Unconfigure(UUIDOf[r])
    /\ Goto(r, "failed")
    /\ UNCHANGED <<memory, call, domain, lease, row, redis>>

CreateStep(r) ==
    \/ CreateSelect(r)
    \/ CreateSubnet(r)
    \/ CreateConfigure(r)
    \/ CreateAllocate(r)
    \/ CreateStore(r)
    \/ CreateOnCore(r)
    \/ CreateAddInstance(r)
    \/ CreateRegister(r)
    \/ CreateDeallocate(r)
    \/ CreateUnconfigure(r)

-----------------------------------------------------------------------------
(* The other operations.  A call of any kind but "report" looks its core   *)
(* up first; "report" is a Core that posts the status of one of its VMs.   *)

At(o, l) == pc[o] = l
Of(o) == call[o].uuid

Arrive(o, kind, u) ==
    /\ At(o, "idle")
    /\ kind # "report"
    /\ call' = [call EXCEPT ![o].kind = kind, ![o].uuid = u]
    /\ Goto(o, "find")
    /\ UNCHANGED <<memory, services>>

ValidateAndNormalizeStatus(status) == IF status \in Reported THEN status ELSE Unknown

\* A Core that has the VM posts its state, or that it does not know it, or something
\* the server does not know.  (The other statuses of the list are stored as they are,
\* like these.)
Report(o, u) ==
    /\ At(o, "idle")
    /\ "report" \in Kinds
    /\ \E c \in Core :
        /\ domain[c][u] # Nothing
        /\ \E posted \in {domain[c][u], Unknown, Unrecognised} :
            call' = [call EXCEPT ![o] = [@ EXCEPT
                        !.kind = "report", !.uuid = u,
                        !.status = ValidateAndNormalizeStatus(posted)]]
    /\ Goto(o, "getStatus")
    /\ UNCHANGED <<memory, services>>

\* The first step of each operation once its core is known.
FirstStep(kind) ==
    CASE kind = "delete"   -> "coreDelete"
      [] kind = "shutdown" -> "coreShutdown"
      [] kind = "start"    -> "coreStart"
      [] kind = "connect"  -> "readInfo"
      [] kind = "status"   -> "coreStatus"

\* FindCoreByVmUUID: the cache,
FindHit(o) ==
    /\ At(o, "find")
    /\ vmLocation[Of(o)] # NoCore
    /\ call' = [call EXCEPT ![o].core = vmLocation[Of(o)]]
    /\ Goto(o, FirstStep(call[o].kind))
    /\ UNCHANGED <<memory, services>>

\* Faulty: the core column is not used.
FindRowFirstCore(o) ==
    /\ At(o, "find")
    /\ vmLocation[Of(o)] = NoCore
    /\ row[Of(o)] # NoVM
    /\ call' = [call EXCEPT ![o].core = 1]
    /\ Goto(o, "cache")
    /\ UNCHANGED <<memory, services>>

\* or else the inst_loc row, read with no lock held,
FindRow(o) ==
    /\ At(o, "find")
    /\ vmLocation[Of(o)] = NoCore
    /\ \/ /\ row[Of(o)] # NoVM
          /\ call' = [call EXCEPT ![o].core = chosen[row[Of(o)]]]
          /\ Goto(o, "cache")
       \/ Goto(o, "failed") /\ UNCHANGED call
    /\ UNCHANGED <<memory, services>>

\* which then goes into the cache.
FindCache(o) ==
    /\ At(o, "cache")
    /\ RM!CacheLocation(Of(o), call[o].core)
    /\ Goto(o, FirstStep(call[o].kind))
    /\ UNCHANGED <<call, services>>

\* GetVMCpuInfo, GetVMMemoryInfo, GetVMDiskInfo: the Core is asked and changes nothing.
StatusOnCore(o) ==
    /\ At(o, "coreStatus")
    /\ \/ domain[call[o].core][Of(o)] # Nothing /\ Goto(o, "done")
       \/ Goto(o, "failed")
    /\ UNCHANGED <<memory, call, services>>

\* A call to the Core that has the VM.  A VM the Core does not have can be deleted
\* again; it can be neither started nor shut down.
OnCore(o, label, state, next) ==
    \E applied, answered \in BOOLEAN :
        LET c == call[o].core IN
        /\ At(o, label)
        /\ Outcome(applied, answered)
        /\ applied /\ state # Nothing => domain[c][Of(o)] # Nothing
        /\ domain' = IF applied THEN [domain EXCEPT ![c][Of(o)] = state] ELSE domain
        /\ Goto(o, IF answered THEN next ELSE "failed")
        /\ UNCHANGED <<memory, call, lease, guac, row, redis>>

StartOnCore(o) == OnCore(o, "coreStart", Running, "done")
ShutdownOnCore(o) == OnCore(o, "coreShutdown", Stopped, "unregister")

\* Faulty: the delete goes on after an error of the Core.
DeleteOnCoreUnchecked(o) ==
    \E applied \in BOOLEAN :
        /\ At(o, "coreDelete")
        /\ domain' = IF applied THEN [domain EXCEPT ![call[o].core][Of(o)] = Nothing] ELSE domain
        /\ Goto(o, "releaseLease")
        /\ UNCHANGED <<memory, call, lease, guac, row, redis>>

DeleteOnCore(o) == OnCore(o, "coreDelete", Nothing, "releaseLease")

\* GetVMIPByUUID: the VMInfo record the server keeps in memory for u, if any.
InfoOf(u) == IF vmLocation[u] = NoCore THEN NoVM ELSE vmInfoIdx[vmLocation[u]][u]

\* Faulty: the server forgets the VM before the database does.
DeleteLeaseAndInfo(o) ==
    /\ At(o, "releaseLease")
    /\ lease' = lease \ {InfoOf(Of(o))}
    /\ vmInfoIdx' = [vmInfoIdx EXCEPT ![call[o].core][Of(o)] = NoVM]
    /\ Goto(o, "deleteRow")
    /\ UNCHANGED <<free, vmLocation, aliveVM, phase, chosen, interfered, staleCores,
                   call, domain, guac, row, redis>>

\* CMS frees the IP of vm, or does not.
RequestDeleteInstance(vm) ==
    \E applied \in BOOLEAN :
        /\ Tolerated(applied)
        /\ lease' = IF applied THEN lease \ {vm} ELSE lease

\* DeleteCmsSubnet: the IP comes from the server's memory; errors are logged.
DeleteLease(o) ==
    /\ At(o, "releaseLease")
    /\ RequestDeleteInstance(InfoOf(Of(o)))
    /\ Goto(o, "deleteRow")
    /\ UNCHANGED <<memory, call, domain, guac, row, redis>>

\* Faulty: an error of the database is logged like the one of CMS.
DeleteRowUnchecked(o) ==
    \E applied \in BOOLEAN :
        /\ At(o, "deleteRow")
        /\ row' = IF applied THEN [row EXCEPT ![Of(o)] = NoVM] ELSE row
        /\ Goto(o, "unconfigure")
        /\ UNCHANGED <<memory, call, domain, lease, guac, redis>>

\* DeleteInstance: one transaction for both rows.
DeleteRow(o) ==
    \E applied, answered \in BOOLEAN :
        /\ At(o, "deleteRow")
        /\ Outcome(applied, answered)
        /\ row' = IF applied THEN [row EXCEPT ![Of(o)] = NoVM] ELSE row
        /\ Goto(o, IF answered THEN "unconfigure" ELSE "failed")
        /\ UNCHANGED <<memory, call, domain, lease, guac, redis>>

DeleteUnconfigure(o) ==
    /\ At(o, "unconfigure")
    /\ Unconfigure(Of(o))
    /\ Goto(o, "removeStatus")
    /\ UNCHANGED <<memory, call, domain, lease, row, redis>>

\* RemoveVMInfoFromRedis; its error is logged.
DeleteRemoveStatus(o) ==
    /\ At(o, "removeStatus")
    /\ \E applied \in BOOLEAN :
        /\ Tolerated(applied)
        /\ redis' = IF applied THEN [redis EXCEPT ![Of(o)] = Nothing] ELSE redis
    /\ Goto(o, "done")
    /\ UNCHANGED <<memory, call, domain, lease, guac, row>>

ShutdownUnregister(o) ==
    /\ At(o, "unregister")
    /\ RM!UnregisterAlive(Of(o))
    /\ call' = [call EXCEPT ![o].status = Stopped]
    /\ Goto(o, "getStatus")
    /\ UNCHANGED services

\* UpdateVMStatusInRedis reads the stored record and writes it back with the new
\* status: two commands, with nothing to hold the key in between.
\* The handler of a report answers with the error, ShutdownVM logs it.
WithoutStatus(o) == Goto(o, IF call[o].kind = "report" THEN "failed" ELSE "done")

\* Faulty: reads again until the key is there.
GetStatusUntilStored(o) ==
    /\ At(o, "getStatus")
    /\ redis[Of(o)] # Nothing
    /\ Goto(o, "setStatus")
    /\ UNCHANGED <<memory, call, services>>

GetStatus(o) ==
    /\ At(o, "getStatus")
    /\ \/ redis[Of(o)] # Nothing /\ Goto(o, "setStatus")
       \/ (redis[Of(o)] = Nothing \/ BestEffortFails) /\ WithoutStatus(o)
    /\ UNCHANGED <<memory, call, services>>

SetStatus(o) ==
    /\ At(o, "setStatus")
    /\ \/ /\ redis' = [redis EXCEPT ![Of(o)] = call[o].status]
          /\ Goto(o, IF call[o].kind = "report" THEN "readBack" ELSE "done")
       \/ BestEffortFails /\ UNCHANGED redis /\ WithoutStatus(o)
    /\ UNCHANGED <<memory, call, domain, lease, guac, row>>

\* The handler of a report reads the key once more before it answers.
ReadBack(o) ==
    /\ At(o, "readBack")
    /\ \/ redis[Of(o)] # Nothing /\ Goto(o, "done")
       \/ (redis[Of(o)] = Nothing \/ BestEffortFails) /\ Goto(o, "failed")
    /\ UNCHANGED <<memory, call, services>>

\* GetGuacamoleToken: the VMInfo record of the core that was found,
ConnectReadInfo(o) ==
    LET vm == vmInfoIdx[call[o].core][Of(o)] IN
    /\ At(o, "readInfo")
    /\ \/ vm # NoVM /\ call' = [call EXCEPT ![o].vm = vm] /\ Goto(o, "login")
       \/ vm = NoVM /\ Goto(o, "failed") /\ UNCHANGED call
    /\ UNCHANGED <<memory, services>>

\* and a login with its password.
ConnectLogin(o) ==
    /\ At(o, "login")
    /\ \/ guac[Of(o)] = call[o].vm /\ Goto(o, "done")
       \/ Goto(o, "failed")
    /\ UNCHANGED <<memory, call, services>>

CallStep(o) ==
    \/ FindHit(o)
    \/ FindRow(o)
    \/ FindCache(o)
    \/ StatusOnCore(o)
    \/ StartOnCore(o)
    \/ ShutdownOnCore(o)
    \/ ShutdownUnregister(o)
    \/ DeleteOnCore(o)
    \/ DeleteLease(o)
    \/ DeleteRow(o)
    \/ DeleteUnconfigure(o)
    \/ DeleteRemoveStatus(o)
    \/ GetStatus(o)
    \/ SetStatus(o)
    \/ ReadBack(o)
    \/ ConnectReadInfo(o)
    \/ ConnectLogin(o)

Next ==
    \/ \E r \in Request : CreateStep(r)
    \/ \E o \in Call : CallStep(o)
    \/ \E o \in Call, kind \in Kinds, u \in UUID : Arrive(o, kind, u)
    \/ \E o \in Call, u \in UUID : Report(o, u)

\* Every call that has arrived goes on: the server runs it in a goroutine of its
\* own, and each external call answers or times out.  Nobody has to call.
Fairness ==
    /\ \A r \in Request : WF_lifecycleVars(CreateStep(r))
    /\ \A o \in Call : WF_lifecycleVars(CallStep(o))

Spec == Init /\ [][Next]_lifecycleVars
FairSpec == Spec /\ Fairness

-----------------------------------------------------------------------------
(* Properties.                                                             *)

\* The server's memory is in the state that the next operation of each handler on it
\* counts on: a create selects, allocates, and then registers or rolls back, once each
\* (service/vm.go:43-136); a location goes into the cache only if a create of that VM
\* has booked there; ShutdownVM takes a VM off the list only while its core is known.
\* So no guard of the resource manager ever holds a handler up.
ManagerReady ==
    /\ \A r \in Request :
        /\ pc[r] = "select" => phase[r] = "idle"
        /\ pc[r] \in {"subnet", "configure", "allocate"} => phase[r] = "selected"
        /\ pc[r] \in {"register", "deallocate"} => phase[r] = "allocated"
    /\ \A o \in Call :
        /\ pc[o] = "cache" =>
            \E r \in Request : /\ UUIDOf[r] = Of(o)
                               /\ chosen[r] = call[o].core
                               /\ phase[r] \in {"allocated", "registered", "released"}
        /\ pc[o] = "unregister" => vmLocation[Of(o)] # NoCore

\* The steps of the handlers over six stores look to a client like one instant in
\* which a VM appears, is switched, or is forgotten: a create that fails was never
\* seen, no login is given to a VM after the answer to its delete, a VM that runs is
\* never forgotten.  The row decides whether a VM is there, the domain whether it
\* runs.  (No answer lost, no cleanup failed, no uuid used twice.)
VMSeen(u) ==
    CASE row[u] # NoVM ->
             (CASE domain[chosen[row[u]]][u] = Running -> "running"
                [] domain[chosen[row[u]]][u] = Stopped -> "stopped"
                [] domain[chosen[row[u]]][u] = Nothing -> "destroyed")
      [] OTHER ->
             IF \E r \in Request : UUIDOf[r] = u /\ pc[r] \in {"register", "done"}
             THEN "gone" ELSE "absent"

StatusSeen(p) ==
    CASE pc[p] \in {"idle", "done", "failed"} ->
             [idle |-> "idle", done |-> "answered", failed |-> "failed"][pc[p]]
      [] p \in Request /\ pc[p] = "register" -> "effective"
      [] p \in Call /\ call[p].kind = "delete"
             /\ pc[p] \in {"unconfigure", "removeStatus"} -> "effective"
      [] p \in Call /\ call[p].kind = "shutdown"
             /\ pc[p] \in {"unregister", "getStatus", "setStatus"} -> "effective"
      [] OTHER -> "called"

Service == INSTANCE VMService
    WITH vm <- [u \in UUID |-> VMSeen(u)],
         ask <- [o \in Call |-> [kind |-> call[o].kind, uuid |-> Of(o)]],
         status <- [p \in Request \cup Call |-> StatusSeen(p)]

ImplementsService == Service!Spec

\* A delete of u has found its core.
DeleteSeen(u) == \E o \in Call : call[o].kind = "delete" /\ Of(o) = u /\ call[o].core # NoCore

Booked(r) == phase[r] \in {"allocated", "registered"} /\ vmInfoIdx[chosen[r]][UUIDOf[r]] = r

\* CreateVM answers 201 only for a VM that is whole, and the VM stays whole until
\* somebody deletes it: the domain, the IP, the Guacamole user with the password
\* the server remembers, the row, the booking and the location, all of one create.
CreatedIsWhole ==
    \A r \in Request :
        LET u == UUIDOf[r] IN
        pc[r] = "done" /\ ~DeleteSeen(u) =>
            /\ domain[chosen[r]][u] # Nothing
            /\ r \in lease
            /\ guac[u] = r
            /\ row[u] = r
            /\ Booked(r)
            /\ vmLocation[u] = chosen[r]

\* README.md:39: when a later step fails, the Guacamole configuration and the
\* booking are undone; and no row is left that would bring the VM back at the next
\* start.  (No answer lost and no cleanup failed.)
FailedCreateIsUndone ==
    \A r \in Request :
        LET u == UUIDOf[r] IN
        pc[r] = "failed" =>
            /\ phase[r] # "allocated" /\ phase[r] # "registered"
            /\ guac[u] # r
            /\ row[u] # r
            /\ \A c \in Core : vmInfoIdx[c][u] # r

\* Every VM in the database is one the server has booked in memory, on the core
\* the row names: what a restart reads back is what is running now.  (No answer
\* lost.)
RowIsBooked == \A u \in UUID : row[u] # NoVM => Booked(row[u]) /\ UUIDOf[row[u]] = u

\* The rows of a VM are deleted only when no core has the VM any more: the server
\* never forgets a VM that runs (DeleteVM asks the Core first).
RowOutlivesDomain ==
    [][\A u \in UUID : row[u] # NoVM /\ row'[u] = NoVM
            => \A c \in Core : domain[c][u] = Nothing]_lifecycleVars

\* A call goes to the core that has the VM, whether the cache, a row or a create
\* under way told it where that is.
FoundWhereItIs ==
    \A o \in Call, c \in Core :
        call[o].core # NoCore /\ domain[c][Of(o)] # Nothing => call[o].core = c

\* GetGuacamoleToken logs in with the password Guacamole has, unless the VM is
\* being deleted or its create is being undone.
LoginHasPassword ==
    \A o \in Call :
        LET vm == call[o].vm IN
        At(o, "login") /\ ~DeleteSeen(Of(o)) /\ pc[vm] \notin {"deallocate", "unconfigure", "failed"}
            => guac[Of(o)] = vm

\* service/vm.go:94: the initial status is stored before the Core is called, so
\* that it never replaces a status the Core reported, a reported "unknown" included.
InitialStatusComesFirst ==
    [][\A u \in UUID : redis[u] \in Reported => redis'[u] # Initial]_lifecycleVars

\* A booking does not stay half way: the create registers its VM or gives the
\* resources back.
BookingSettles ==
    \A r \in Request : phase[r] = "allocated" ~> phase[r] \in {"registered", "released"}

\* Every call that has arrived is answered.
CallsAreAnswered ==
    \A o \in Call : pc[o] # "idle" ~> pc[o] \in {"done", "failed"}

-----------------------------------------------------------------------------
(* What comments, documents and tests say of the program.                  *)

\* service/cleanup.go:3-5: if a step of a create fails, all previous steps are
\* undone; so no core is left with the VM of a create that failed.
FailedCreateLeavesNoDomain ==
    \A r \in Request :
        pc[r] = "failed" /\ chosen[r] # NoCore => domain[chosen[r]][UUIDOf[r]] = Nothing

=============================================================================
