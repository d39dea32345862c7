-------------------------- MODULE ResourceManager --------------------------
(***************************************************************************)
(* The in-memory tables of the control server (structure/                  *)
(* resource_manager.go): free capacity per core, the VM index of each      *)
(* core, the location cache and the list of alive VMs.  Every operation    *)
(* holds the RWMutex for its whole body and is one action here; what a     *)
(* caller does between two operations is not under the mutex, so calls of  *)
(* different requests interleave freely between them.                      *)
(*                                                                         *)
(* A request is one call of CreateVM (service/vm.go).  It stands for the   *)
(* VMInfo record it builds as well: VMInfoIdx and AliveVM hold pointers to *)
(* that record.                                                            *)
(***************************************************************************)
EXTENDS Integers, Sequences, FiniteSets, SequencesExt

CONSTANTS
    Request,    \* the calls of CreateVM
    UUID,       \* the names clients give to VMs
    NumCores,   \* len(rm.Cores); a core is its position in that slice
    AliveCores, \* the cores with IsAlive: set at startup, never changed after
    UUIDOf,     \* the uuid each request asks for
    Demand,     \* the HardwareRequirement of each request
    StartFree,  \* Free* of each core as read at startup
    W,          \* 2^32: Free* are uint32 and wrap
    NoCore,     \* a missing key of VMLocation
    NoVM        \* a missing key of a VMInfoIdx map

Core == 1..NumCores
Resource == {"Memory", "CPU", "Disk"}

\* The API refuses a demand of zero (api/create_vm.go:88); everything is a uint32.
ASSUME ResourceAssumption ==
    /\ IsFiniteSet(Request)
    /\ NumCores \in Nat
    /\ W \in Nat \ {0}
    /\ AliveCores \subseteq Core
    /\ UUIDOf \in [Request -> UUID]
    /\ Demand \in [Request -> [Resource -> 1..(W - 1)]]
    /\ StartFree \in [Core -> [Resource -> 0..(W - 1)]]
    /\ NoCore \notin Core
    /\ NoVM \notin Request

VARIABLES
    free,       \* Core.FreeMemory, FreeCPU, FreeDisk
    vmInfoIdx,  \* Core.VMInfoIdx
    vmLocation, \* ResourceManager.VMLocation
    aliveVM,    \* ResourceManager.AliveVM
    phase,      \* how far each request has got with the manager
    chosen,     \* the core SelectCore returned to each request
    interfered, \* history: requests whose selected core got another allocation
    staleCores  \* history: cores on which an interfered request allocated

vars == <<free, vmInfoIdx, vmLocation, aliveVM, phase, chosen, interfered, staleCores>>

Phase == {"idle", "refused", "selected", "abandoned", "allocated", "registered", "released"}

\* Go's unsigned subtraction and addition.
SubWord(a, b) == IF a >= b THEN a - b ELSE a - b + W
AddUnbounded(a, b) == a + b \* faulty: no wrap
AddWord(a, b) == IF a + b < W THEN a + b ELSE a + b - W

FitsInMemory(c, r) == free[c]["Memory"] >= Demand[r]["Memory"] \* faulty: one resource
Fits(c, r) == \A k \in Resource : free[c][k] >= Demand[r][k]

AnyAlive(r) == AliveCores \* faulty: no look at Free*
Suitable(r) == {c \in AliveCores : Fits(c, r)}

Init ==
    /\ free = StartFree
    /\ vmInfoIdx = [c \in Core |-> [u \in UUID |-> NoVM]]
    /\ vmLocation = [u \in UUID |-> NoCore]
    /\ aliveVM = <<>>
    /\ phase = [r \in Request |-> "idle"]
    /\ chosen = [r \in Request |-> NoCore]
    /\ interfered = {}
    /\ staleCores = {}

-----------------------------------------------------------------------------
(* The operations.                                                         *)

\* The first alive core with room for all three resources.
SelectCore(r) ==
    /\ phase[r] = "idle"
    /\ \E c \in Suitable(r) :
        /\ \A d \in Suitable(r) : c <= d
        /\ chosen' = [chosen EXCEPT ![r] = c]
    /\ phase' = [phase EXCEPT ![r] = "selected"]
    /\ UNCHANGED <<free, vmInfoIdx, vmLocation, aliveVM, interfered, staleCores>>

NoCoreFits(r) ==
    /\ phase[r] = "idle"
    /\ Suitable(r) = {}
    /\ phase' = [phase EXCEPT ![r] = "refused"]
    /\ UNCHANGED <<free, vmInfoIdx, vmLocation, aliveVM, chosen, interfered, staleCores>>

\* The caller gives up between selection and allocation: it has booked nothing.
Abandon(r) ==
    /\ phase[r] = "selected"
    /\ phase' = [phase EXCEPT ![r] = "abandoned"]
    /\ UNCHANGED <<free, vmInfoIdx, vmLocation, aliveVM, chosen, interfered, staleCores>>

\* The other requests that have selected c and not allocated yet.
Waiting(c, r) == {q \in Request \ {r} : phase[q] = "selected" /\ chosen[q] = c}

\* Books the demand without looking at Free* again.
AllocateResources(r) ==
    LET c == chosen[r] IN
    /\ phase[r] = "selected"
    /\ vmInfoIdx' = [vmInfoIdx EXCEPT ![c][UUIDOf[r]] = r]
    /\ free' = [free EXCEPT ![c] = [k \in Resource |-> SubWord(@[k], Demand[r][k])]]
    /\ phase' = [phase EXCEPT ![r] = "allocated"]
    /\ interfered' = interfered \cup Waiting(c, r)
    /\ staleCores' = IF r \in interfered THEN staleCores \cup {c} ELSE staleCores
    /\ UNCHANGED <<vmLocation, aliveVM, chosen>>

\* Faulty: the rollback leaves the index entry.
DeallocateKeepingEntry(r) ==
    LET c == chosen[r] IN
    /\ phase[r] = "allocated"
    /\ free' = [free EXCEPT ![c] = [k \in Resource |-> AddWord(@[k], Demand[r][k])]]
    /\ phase' = [phase EXCEPT ![r] = "released"]
    /\ UNCHANGED <<vmInfoIdx, vmLocation, aliveVM, chosen, interfered, staleCores>>

\* Faulty: the rollback gives back the memory only.
DeallocateMemoryOnly(r) ==
    LET c == chosen[r] IN
    /\ phase[r] = "allocated"
    /\ vmInfoIdx' = [vmInfoIdx EXCEPT ![c][UUIDOf[r]] = NoVM]
    /\ free' = [free EXCEPT ![c]["Memory"] = AddWord(@, Demand[r]["Memory"])]
    /\ phase' = [phase EXCEPT ![r] = "released"]
    /\ UNCHANGED <<vmLocation, aliveVM, chosen, interfered, staleCores>>

\* The rollback of AllocateResources.
DeallocateResources(r) ==
    LET c == chosen[r] IN
    /\ phase[r] = "allocated"
    /\ vmInfoIdx' = [vmInfoIdx EXCEPT ![c][UUIDOf[r]] = NoVM]
    /\ free' = [free EXCEPT ![c] = [k \in Resource |-> AddWord(@[k], Demand[r][k])]]
    /\ phase' = [phase EXCEPT ![r] = "released"]
    /\ UNCHANGED <<vmLocation, aliveVM, chosen, interfered, staleCores>>

\* Faulty: the location is left to FindCoreByVmUUID.
RegisterAliveOnly(r) ==
    /\ phase[r] = "allocated"
    /\ aliveVM' = Append(aliveVM, r)
    /\ phase' = [phase EXCEPT ![r] = "registered"]
    /\ UNCHANGED <<free, vmInfoIdx, vmLocation, chosen, interfered, staleCores>>

\* Faulty: the index of the core is lost on the way.
RegisterOnFirstCore(r) ==
    /\ phase[r] = "allocated"
    /\ vmLocation' = [vmLocation EXCEPT ![UUIDOf[r]] = 1]
    /\ aliveVM' = Append(aliveVM, r)
    /\ phase' = [phase EXCEPT ![r] = "registered"]
    /\ UNCHANGED <<free, vmInfoIdx, chosen, interfered, staleCores>>

RegisterVM(r) ==
    /\ phase[r] = "allocated"
    /\ vmLocation' = [vmLocation EXCEPT ![UUIDOf[r]] = chosen[r]]
    /\ aliveVM' = Append(aliveVM, r)
    /\ phase' = [phase EXCEPT ![r] = "registered"]
    /\ UNCHANGED <<free, vmInfoIdx, chosen, interfered, staleCores>>

\* FindCoreByVmUUID after a miss: the index comes from the inst_loc row of a
\* request that got as far as AddInstance.  The row may outlive the request's
\* rollback (a commit whose answer is lost), and the cache may have been filled
\* since the miss.
CacheLocation(u, c) ==
    /\ \E r \in Request : /\ UUIDOf[r] = u
                          /\ chosen[r] = c
                          /\ phase[r] \in {"allocated", "registered", "released"}
    /\ vmLocation' = [vmLocation EXCEPT ![u] = c]
    /\ UNCHANGED <<free, vmInfoIdx, aliveVM, phase, chosen, interfered, staleCores>>

\* The positions of the entries for u in AliveVM.
AliveAt(u) == {i \in DOMAIN aliveVM : UUIDOf[aliveVM[i]] = u}

\* Removes the first entry for u, if there is one.  ShutdownVM has looked the
\* core up before, so u has a location.
UnregisterAlive(u) ==
    /\ vmLocation[u] # NoCore
    /\ \/ /\ AliveAt(u) = {}
          /\ UNCHANGED aliveVM
       \/ \E i \in AliveAt(u) :
            /\ \A j \in AliveAt(u) : i <= j
            /\ aliveVM' = RemoveAt(aliveVM, i)
    /\ UNCHANGED <<free, vmInfoIdx, vmLocation, phase, chosen, interfered, staleCores>>

RequestNext(r) ==
    \/ SelectCore(r)
    \/ NoCoreFits(r)
    \/ Abandon(r)
    \/ AllocateResources(r)
    \/ DeallocateResources(r)
    \/ RegisterVM(r)

Next ==
    \/ \E r \in Request : RequestNext(r)
    \/ \E u \in UUID, c \in Core : CacheLocation(u, c)
    \/ \E u \in UUID : UnregisterAlive(u)

Spec == Init /\ [][Next]_vars

-----------------------------------------------------------------------------
(* Properties.                                                             *)

\* The values the tables and the requests range over.
TypeOK ==
    /\ free \in [Core -> [Resource -> 0..(W - 1)]]
    /\ vmInfoIdx \in [Core -> [UUID -> Request \cup {NoVM}]]
    /\ vmLocation \in [UUID -> Core \cup {NoCore}]
    /\ aliveVM \in Seq(Request)
    /\ phase \in [Request -> Phase]
    /\ chosen \in [Request -> Core \cup {NoCore}]
    /\ \A r \in Request : phase[r] \notin {"idle", "refused"} => chosen[r] \in Core
    /\ interfered \subseteq Request
    /\ staleCores \subseteq Core

\* The requests whose demand is booked on c, and the amount that adds up to: the
\* number of pairs <<request, unit>>, so that no recursion is needed.
Held(c) == {r \in Request : phase[r] \in {"allocated", "registered"} /\ chosen[r] = c}
Units(r, k) == {r} \X (1..Demand[r][k])
DemandOf(S, k) == Cardinality(UNION {Units(r, k) : r \in S})
Reserved(c, k) == DemandOf(Held(c), k)

\* Whatever calls interleave, and however often Free* wraps, each Free* is the
\* startup amount less the demands booked and not rolled back, modulo 2^32: no
\* demand is booked twice or given back twice (AllocateResources,
\* DeallocateResources).
AccountingModWord ==
    \A c \in Core, k \in Resource :
        (free[c][k] + Reserved(c, k) - StartFree[c][k]) % W = 0

\* A core is booked beyond its capacity only after a create allocated on it with
\* a selection that another create's allocation had made stale (SelectCore and
\* AllocateResources lock the mutex separately).  On every other core Free* is
\* exactly what is left.
OvercommitNeedsStaleSelection ==
    \A c \in Core \ staleCores, k \in Resource :
        /\ Reserved(c, k) <= StartFree[c][k]
        /\ free[c][k] = StartFree[c][k] - Reserved(c, k)

\* A selection stays good while nobody else allocates on its core: rollbacks of
\* others never take room away from it.
SelectionStaysGood ==
    \A r \in Request :
        phase[r] = "selected" /\ r \notin interfered /\ chosen[r] \notin staleCores
            => Fits(chosen[r], r)

\* structure/vm.go:37-39 calls Free* the part of the core that is not allocated.
FreeIsUnallocated ==
    \A c \in Core, k \in Resource : free[c][k] = StartFree[c][k] - Reserved(c, k)

\* Clients that never ask for the same uuid twice.
FreshUUIDs == \A r, q \in Request : UUIDOf[r] = UUIDOf[q] => r = q

\* The VM index of a core holds exactly the VMs whose demand is booked on it, so
\* a rollback on one core never touches the entry of another VM.  Needs fresh
\* uuids: the map is keyed by the client's uuid.
IndexMatchesBookings ==
    \A c \in Core, u \in UUID, r \in Request :
        vmInfoIdx[c][u] = r <=> r \in Held(c) /\ UUIDOf[r] = u

\* Every alive VM can be found by its uuid and is listed once: its location is
\* the core whose index holds its record (RegisterVM, UnregisterAlive,
\* FindCoreByVmUUID).  Needs fresh uuids.
AliveIsLocated ==
    /\ \A i, j \in DOMAIN aliveVM : aliveVM[i] = aliveVM[j] => i = j
    /\ \A i \in DOMAIN aliveVM :
        LET r == aliveVM[i]
            c == vmLocation[UUIDOf[r]]
        IN  c # NoCore /\ vmInfoIdx[c][UUIDOf[r]] = r

\* A cached location is never changed to another core: FindCoreByVmUUID reads the
\* database outside the mutex and writes what it read later, RegisterVM writes
\* the core the create selected, and the two agree.  Needs fresh uuids.
LocationIsStable ==
    [][\A u \in UUID : vmLocation[u] # NoCore => vmLocation'[u] = vmLocation[u]]_vars

=============================================================================
