# KWS_Control in TLA+

KWS_Control is the control server of a small cloud: it takes HTTP requests, picks
a Core (a host that runs VMs), and keeps Core, CMS (network), Guacamole (remote
access), MySQL and Redis in step with its own memory.  Requests run concurrently,
each in a goroutine of its own.  The only lock is the mutex of the resource
manager, held for one table operation at a time and never across an external
call.  What can go wrong lies between these steps, and that is what the modules
here are about.

Paths and line numbers below are those of the repository (without the leading
`src/`).

## 1. Inventory

| Part | Sources | State | Operations |
| --- | --- | --- | --- |
| Resource manager | `structure/resource_manager.go`, `structure/vm.go` | `Cores` (each with `Free*` and `VMInfoIdx`), `VMLocation`, `AliveVM` | `SelectCore`, `AllocateResources`, `DeallocateResources`, `RegisterVM`, `UnregisterAlive` |
| VM lookup | `structure/control_infra.go` | the cache `VMLocation` | `FindCoreByVmUUID`: cache, row, fill |
| VM lifecycle | `service/vm.go`, `cleanup.go`, `guacamole.go` | none of its own; the local `cleanupChain` of a create | `CreateVM`, `DeleteVM`, `StartVM`, `ShutdownVM`, `GetGuacamoleToken`, the status readers |
| Subnet allocation | `service/network.go`, `pkg/network` | `Last_subnet` in memory, `subnet.last_subnet` in MySQL | `NewCmsSubnet`, `AddCmsSubnet`, `DeleteCmsSubnet`, `FindSubnet` |
| Status cache | `service/redis.go`, `api/update_redis.go` | one Redis key for each VM | store, update (GET, SET), remove, read |
| VM repository | `structure/mysql_vm_repository.go` | `inst_info`, `inst_loc` | one transaction for each operation, 3 or 5 s timeout |
| Guacamole configuration | `pkg/guacamole` | five tables of the Guacamole database | `Configure`, `Cleanup` |
| HTTP API | `api/` | none | decode, call the service, answer |
| Clients | `client/` | none | one HTTP call each, with a timeout |
| Startup | `startup/`, `main.go` | builds all of the above | read the configuration, poll the Cores, load the rows |
| Snapshots | `service/external_snap.go`, `client/rustfs.go` | objects in an object store | list, delete, presign |
| Keys, passwords, logging | `pkg/crypto`, `pkg/ssh`, `util/` | none | pure, or output only |

How they interact in a create (`service/vm.go:18-136`): `SelectCore`, key pair,
CMS, `guacamole.Configure`, `AllocateResources`, Redis, Core, `AddInstance`, the
subnet row, `RegisterVM`.  From `Configure` on a failure runs the cleanup chain
(`DeallocateResources`, then `guacamole.Cleanup`).  A delete goes to the Core, CMS,
MySQL, Guacamole and Redis and does not touch the tables in memory.  Cores call
back: they post the status of a VM to `POST /vm/redis` whenever it changes.

What is hard, part by part, and what makes the part correct:

- **Resource manager.** Selection and allocation are two critical sections; `Free*`
  are `uint32` and wrap.  Right: the books balance in every interleaving, capacity
  is exceeded only where two selections raced, index, location and alive list agree.
- **Lookup.** The row is read with no lock held and cached later.  Right: a cached
  location never moves, a call goes to the core that has the VM.
- **Lifecycle.** Ten steps over six stores with a partial rollback; calls that take
  effect and are reported as errors; reuse of uuids; deletes, shutdowns and reports
  in the middle of a create.  Right: an answered create is whole, a failed one is
  undone, a VM is never forgotten while it runs, every call ends.
- **Subnets.** A counter in two places, reserved, advanced and taken back with no
  lock, and a restart that believes the row.  Right: no subnet twice, no subnet in
  use behind the counter, exhaustion is not final.
- **Status cache.** GET and SET with nothing between, and times that nobody compares.
  Right: the first status comes before the Core's, a deleted VM comes back and an
  older report wins only where calls overlap.
- **Guacamole configuration.** The entity of a uuid is read without a lock and written
  later, in transactions that overlap, fail, or commit without an answer.  Right: a
  login reaches the VM whose password it uses, nothing is left without a user, and
  the tables act as one password for each uuid.
- **Startup.** Goroutines write through pointers into a slice that is being appended
  to; rows name a core by its index; CPU bookings and the alive list are not
  restored.  Right: the server serves only when every Core has answered, no core gets
  another's report, the rows lead to the Cores that have the VMs as long as those
  keep their place in the configuration.

`PROJECT.json` lists each hazard at its line with the properties that cover it.

## 2. The modules

| Module | Models | Role |
| --- | --- | --- |
| `ResourceManager` | the tables and the lookups that write them | component, and the memory of `VMLifecycle` |
| `ResourceManagerProofs` | | theorems about `ResourceManager` |
| `VMLifecycle` | every operation of `service/vm.go`, over the manager and the five services | composition with `ResourceManager`, refines `VMService` |
| `VMLifecycleProofs` | | theorems about `VMLifecycle` |
| `VMService` | what a client sees of a VM | abstract specification |
| `VMServiceProofs` | | the refinement of `VMService` by `VMLifecycle` |
| `SubnetAllocator` | `NewCmsSubnet`, `FindSubnet`, the row, restarts | component |
| `SubnetAllocatorProofs` | | theorems about `SubnetAllocator` |
| `ServerRestart` | `VMLifecycle` with a server that stops at any step and starts again | fault model, extends `VMLifecycle` |
| `ServerRestartProofs` | | theorems about `ServerRestart` |
| `Startup` | the start itself, step by step | component |
| `StartupProofs` | | theorems about `Startup` |
| `StatusCache` | one Redis record under creates, updates and deletes, with times | component |
| `StatusCacheProofs` | | theorems about `StatusCache` |
| `GuacAccount` | one password for each uuid | abstract specification |
| `GuacamoleDB` | `Configure` and `Cleanup` on the tables | component, implements `GuacAccount` |
| `GuacamoleDBProofs` | | theorems about `GuacamoleDB`, with the refinement |
| `MC...` | | small instances for TLC |

`VMLifecycle` is the middle: it uses `ResourceManager` as its memory, and sees Redis,
Guacamole and CMS through one step for each call.  `StatusCache`, `GuacamoleDB` and
`SubnetAllocator` open one of these each, `ServerRestart` and `Startup` the process.

Definitions that a comment calls *faulty* are used by no specification.  They are
variants of the definition that follows them, with an error one could make in that
code, and serve to show that the properties notice it.

### ResourceManager

`free`, `vmInfoIdx`, `vmLocation` and `aliveVM` are the tables; a missing map key is
`NoVM` or `NoCore`.  A *request* is one call of `CreateVM` and stands for the
`VMInfo` record it builds; `phase` and `chosen` say how far it has got and which
core it holds in its local variables.  Each operation holds the mutex for its whole
body and is one action; `Abandon` is an early return of `CreateVM` between selection
and allocation.  `CacheLocation` is the second half of `FindCoreByVmUUID`: it writes
what was read earlier from the row of some create, whatever happened since.
`SubWord` and `AddWord` are Go's arithmetic modulo `W`.

`interfered` and `staleCores` are history variables.  A request is interfered with
when another one allocates on the core it has selected; a core is stale when a
request allocated on it after that.  They let the properties say exactly when the
check in `SelectCore` may be trusted.

### VMLifecycle

`pc` is the next step of each create and each call.  One action is one external call
or one locked section, in the order of the code; every early return is an
alternative of its action.  The tables are changed by the actions of
`ResourceManager` only (`RM!...`), through the variables it declares.  These have
guards (a booking is returned by a create that has one) which the Go functions have
not: a handler that used them in a wrong order would be held up by the model and not
shown to be wrong.  `ManagerReady` says that this never happens: whenever a handler
comes to an operation of the manager, its guard holds.

| Variable | Stands for |
| --- | --- |
| `domain` | what each Core has under each uuid: nothing, running, stopped |
| `lease` | CMS: the creates that have an IP |
| `guac` | Guacamole: whose password the user of the uuid has |
| `row` | MySQL: whose `inst_info` and `inst_loc` rows the uuid has (one transaction writes both) |
| `redis` | the status under the uuid |
| `call` | of a call: operation, uuid, and what it has found out |

The services are not part of the repository; they are modelled from how the clients
use them.  A call is *applied* or not and *answered* or not: an answer means that it
was applied; an error means that it was not, or, with `LostAnswers`, that it was and
the answer got lost.  A Core refuses to create a VM it has and to start or stop one
it does not have; MySQL refuses a second row for a uuid (primary key,
`startup/init.sh`).  A deletion on the Core may be repeated.  `Tolerated` are the
calls whose error is logged only (`service/vm.go:105`, `:245`, `:257`, `:262`,
`:299`, and the cleanup of Guacamole); they fail with `BestEffortFails`.

Operations: `CreateStep` is `CreateVM`.  `Arrive` and `Find...` are the common start
of the others, `DeleteOnCore` to `DeleteRemoveStatus` is `DeleteVM`, `StartOnCore` is
`StartVM`, `ShutdownOnCore`, `ShutdownUnregister`, `GetStatus`, `SetStatus` is
`ShutdownVM`, `ConnectReadInfo` and `ConnectLogin` are `GetGuacamoleToken`.  A call of
kind `status` stands for `GetVM*Info`: it looks the VM up, asks the Core
(`StatusOnCore`), and changes nothing but the cache.  `Report` is a Core that posts
the status of one of its VMs and goes through the same two Redis commands, and the
handler's last read (`ReadBack`).  A Core posts what it pleases:
`ValidateAndNormalizeStatus` keeps a status of its list (of which the model has three:
running, stopped and "unknown") and makes "unknown" of all else (`Unrecognised`, also
for the empty string and "null").  The initial status that `CreateVM` stores is the
same string; the model writes it as `Initial`, so that `InitialStatusComesFirst` can
tell the create's "unknown" from a reported one.

### VMService

To a client the VM of a uuid is absent, running, stopped, destroyed but still listed,
or gone, and a request has its effect in one instant between call and answer.  A
create that fails has never made the VM appear; only a VM that is there is started or
shut down; a VM is forgotten only when it is destroyed; nobody logs in after the
answer to its delete.  A delete has two instants, since it may fail after the Core has
destroyed the VM.  `VMLifecycle` implements this (`ImplementsService`) with the
mapping `VMSeen` and `StatusSeen`: the row decides whether there is a VM, the domain of
the core the row names whether it runs, and the other stores and the tables of the
server may lag behind.  So a create has its effect when `AddInstance` commits, a delete
when the Core destroys the domain and when `DeleteInstance` commits.  The mapping needs
that no answer is lost, no cleanup fails and no uuid is used twice: with lost answers
a create that failed may have a row.

### SubnetAllocator

`lastSubnet` is the string in memory, `subnetRow` the one in MySQL; a subnet is the
three octets that `FindSubnet` parses (also of the full IP that `service/vm.go:126`
writes), or `Err` for the string `err`.  `Read` to `Restore` is `NewCmsSubnet`, one
action for each statement; `Finish` is the rest of `CreateVM` up to the write of the
IP, `Settle`.  `Restart` ends all creates and reads the row, at any moment.  A
statement on the row may report an error before or after it took effect.
`ReadPanics` are the two ways in which `FindSubnet` runs past the end of its string:
on `err`, and on a torn read of the two-word Go string during another create's
assignment (an unsynchronised read; the old and the new value are the other
outcomes).  CMS gives an IP in the subnet it is asked for.

`mishaps` is a history variable and says which excuses a property may make: creates
ran side by side (`overlap`: one read the counter while another was between its own
read and its end), a statement on the row failed (`row`), CMS allocated an IP and the
answer got lost (`answer`).

### ServerRestart

`Restart` may come between any two steps of `VMLifecycle`.  `StopAll` loses whatever
was under way; Cores, CMS, Guacamole, MySQL and Redis keep what they have.  `ReadCores`
gives each core the memory and disk that it finds free (`FreeReports`, any of a few
amounts up to all) and all its CPUs, or none of the three when the report is lost (see
`Startup`); `LoadInstances` fills index and location from the rows and leaves
`AliveVM` empty.  The phase of a create whose
row is loaded is set to *registered*: from then on it is the same as one that ended.

### Startup

`arrays` are the arrays behind the slice `Cores`, oldest first.  `append` adds to the
last one while it has room (0, 1, 2, 4, ... elements, as the Go runtime grows a slice
of elements of this size) and otherwise copies into a new one.  A goroutine (`polls`)
has a place in one of the arrays (`at`) and keeps it: `currentCore`.  The copy runs
beside the goroutines with no synchronisation, so that an element that is being
written may be copied with any of its three amounts (`Copies`).  A request to a Core
is answered or fails; an answer may lack its `information` object, and to read it
ends the process (`PanicOnEmpty`).  `db` is what `inst_loc` holds: indices into the
Cores of the server that wrote it, whose configuration need not be the one of this
start.

### StatusCache

`key` is the record of one uuid: the create its specification comes from, the call
its status comes from, and its time.  Each call is stamped when it comes in
(`Arrive`), by the clock of the server, in its coarse unit (`Tick`), and then does its
one or two commands.  `during`, `rivals`, `lastVM`, `overtaken` and `stale` are
history variables: they record which calls overlapped and which updates had read a
record that has been replaced since, and let the properties say exactly when the
missing compare-and-set matters.

### GuacamoleDB and GuacAccount

`entity`, `user`, `connection` and `permission` are the tables; the parameters of a
connection are inserted with it and are part of it.  A call is two steps: the SELECT
without a lock, and its writes up to the commit, which are one step because from the
first of them on the transaction holds the rows of its uuid.  What it found may be
gone by then: a second entity of one name breaks the unique key, a user of a deleted
entity the foreign key, and the transaction is rolled back.  A commit may lose its
answer.

`GuacAccount` is what the rest of the server takes these calls for, and what
`VMLifecycle` models (`guac`): a password that is set or erased in one instant between
call and return.  In the refinement a Cleanup that has found an entity which another
Cleanup then deletes is satisfied at that moment; one step of `Clean` may satisfy
several calls.

## 3. What is checked

A type invariant for each component, then the properties listed here.  TLC explores
every interleaving of the instance.

| Run | Instance | Properties | States |
| --- | --- | --- | --- |
| `ResourceManager` | 3 creates, 2 cores, 3 uuids | `TypeOK`, `AccountingModWord`, `OvercommitNeedsStaleSelection`, `SelectionStaysGood`, `IndexMatchesBookings`, `AliveIsLocated`, `LocationIsStable` | 6 066 |
| `LifecycleFaults` | 2 creates, 1 call, 1 restart, all faults | `CreatedIsWhole`, `FoundWhereItIs`, `RowHasDomain`, `InitialStatusComesFirst` | 2 007 909 |
| `LifecycleClean` | 2 creates, 2 calls, refusals only | `FailedCreateIsUndone`, `RowIsBooked`, `ManagerReady`, `ImplementsService` | 619 430 |
| `LifecycleLive` | 1 create, 2 calls, all faults, fairness | `LoginHasPassword`, `RowOutlivesDomain`, `BookingSettles`, `CallsAreAnswered` | 47 350 |
| `SubnetAllocator` | 3 creates, 2 subnets left, 2 restarts, all faults | `TypeOK`, `NoOverlapNoDuplicate`, `CounterCoversHolders`, `CountersAgree`, `ExhaustionIsUndone` | 52 695 |
| `GuacamoleDB` | 3 Configures, 2 Cleanups, 2 uuids | `LoginReachesItsVM`, `NothingLeftBehind`, `ImplementsAccount` | 21 834 |
| `StatusCache` | 2 creates, 3 updates, 1 delete, 3 seconds | `TypeOK`, `RecordIsOfLastVM`, `OnlyOverlapTurnsTimeBack` | 1 397 957 |
| `Startup` | up to 4 Cores, 2 VMs, fairness | `ServesOnlyReachable`, `NoPhantomCapacity`, `OnlyGrowthLosesReports`, `VMsFoundAgain`, `StartEnds` | 52 656 |

**Why these bounds are enough to meet the hazards.**  A stale selection needs two
creates that fit one at a time, and a third shows that it may not spread to other
cores; the first core has room for the large VM or for two small ones, the second
for one small one, so that selection depends on what the others have done and also
fails.  With W = 8 the three demands together still differ modulo the word from each
smaller sum, and an overcommitted core wraps.  The lifecycle
has two creates, so that one can run into the other's bookings, and up to two calls,
so that a delete, a shutdown, a report, a lookup or a login can race each other and
the create; the second create is smaller, so that both cores are used.  One restart
is enough to stop every step once and to go on with what it leaves; the second create
may start, or fail to, after it.  Uuids are fresh in the passing lifecycle runs, as
`CreatedIsWhole` and the others need; `GuacamoleDB` and `StatusCache` use a uuid
twice.  Octets are 0 and 1: of three creates the first carries, the second gets the
last subnet and the third runs out, and one can come between two others.  Two
Configures and two Cleanups of a uuid let each find what another writes or deletes,
and the Configure of a second uuid shows that it is left alone.  Three updates of a
record let one report be overtaken by another that is itself overtaken, and three
values of the clock tell an older report from an old one.  Four Cores make the slice
grow three times and once not.  The rows of a start are written under the Cores of
its configuration, fewer, more, or the same two in the other order, and a Core may be
named twice before or after another one.  Symmetry is used where calls or creates differ in
nothing but their name, in runs that check safety only.  `CHECK_DEADLOCK FALSE`
everywhere: when all requests of the instance are answered, or the server has
started, the system rightly rests.

**Fairness** (`LifecycleLive`).  Weak fairness of every step of a call that has
arrived: the server runs it in a goroutine, each external call returns or times out
(10 s for Cores, 3 or 5 s for the rows), and no step waits for another request.  The
statements on the Guacamole database have no timeout of their own (`db.Begin`
without a context); that they return is assumed.  No client has to send anything:
`Arrive` and `Report` are not fair.  `CallsAreAnswered` is about the operations
other than create, `BookingSettles` about the create.

`Startup` assumes that the main goroutine runs and that each polling goroutine does:
its requests to the Core end with an answer or after the 10 s timeout of the client,
and a panic ends everything.

### Where the code and its own words differ

Each run checks one statement of a comment, a document or a test and finds a
behaviour of the code that breaks it (`findings` in `PROJECT.json` quotes them).

| Run | The statement | What happens |
| --- | --- | --- |
| `FreeIsUnallocated` | `Free*` is what is not allocated (`structure/vm.go:37-39`) | two creates with the same selection wrap it |
| `OrphanDomain` | a failed step undoes all previous ones (`cleanup.go:3-5`) | the VM on the Core is not removed |
| `ConcurrentSubnets` | the reservation prevents duplicates (`network.go:42`) | two calls reserve the same subnet |
| `LostReports` | the configured Cores are updated (`startup/init.go:166`) | the report of a Core goes into an array that the slice has left |

More came up that no run is spent on:

- `DeleteVM` never gives resources back (`service/vm.go:225-267`), so that `Free*` is
  not what is unallocated after a delete either; and a restart sets `FreeCPU` to the
  full number whatever runs (`startup/init.go:237`).
- A create that reuses the uuid of a VM and fails deletes that VM's Guacamole user and
  index entry, although `cleanup.go:3-5` says that the cleanup keeps the system
  consistent.  `DeallocateResources` is then not the inverse of `AllocateResources`
  that `structure/resource_manager.go:85` calls it.
- An update that read before a delete writes the record back after it, without
  expiry; `tests/blackbox_io_test.sh:286-289` expects a deleted VM to be gone.
  `RecordIsOfLastVM` says that this is the only way.
- `loadRedisVMInfo` is said to be needed "to preserve the Time field in
  UpdateVMStatusInRedis" (`service/redis.go:99-100`), but the update overwrites that
  field (`service/redis.go:135`): the time of a record is that of its last report.
  `StatusCache` has what the code does.
- Of two reports that overlap the one that came in first may stay, although
  `README.md:7` speaks of the latest status.  `OnlyOverlapTurnsTimeBack` says that this
  is the only way.
- `Add` looks up the subnet under the uuid of the VM that is being created
  (`service/network.go:16`), which has none: it always fails, although
  `README.md:176` says that it reuses the subnet of an existing VM.  In `VMLifecycle`
  it is one of the refusals of CMS.
- `StartVM` does not put a VM back on `AliveVM`, the list of the running VMs according
  to `structure/resource_manager.go:13`.
- The undo of a refused `NewCmsSubnet` sets the row back behind a subnet that a
  concurrent call got, although `README.md:192` says that the row tracks the last one.
- `ListObjects` returns the first page of at most 1000 keys (`client/rustfs.go:135`),
  although its comment says all object keys.

## 4. What is proved

All theorems are checked by TLAPS.  Between them they state every invariant and every
action property of the passing runs, and the two refinements.  Some assume that
uuids are fresh (`FreshUUIDs`), that no answer is lost (`~LostAnswers`) or that no
tolerated call fails (`~BestEffortFails`): the conditions of the runs that check the
same properties, for the reasons given below.  `VMServiceProofs` and
`ServerRestartProofs` build on `VMLifecycleProofs`, and that on
`ResourceManagerProofs`.

### ResourceManagerProofs

For every finite set of creates, any number of cores, any demands, start values and
word size (`ResourceAssumption`):

| Theorem | Statement |
| --- | --- |
| `TypeCorrect` | `Spec => []TypeOK` |
| `Accounting` | `Spec => []AccountingModWord` |
| `Overcommit` | `Spec => []OvercommitNeedsStaleSelection` |
| `GoodSelections` | `Spec => []SelectionStaysGood` |
| `IndexExact` | `FreshUUIDs` implies `Spec => []IndexMatchesBookings` |
| `LocationStable` | `FreshUUIDs` implies `Spec => LocationIsStable` |
| `AliveLocated` | `FreshUUIDs` implies `Spec => []AliveIsLocated` |

`Reserved(c, k)` is a sum over the creates booked on a core.  To need no induction it
is the number of pairs of a create and a unit of its demand, and two lemmas (the
demand of a set with a create added, or removed) follow from the library's facts
about finite cardinalities.  The accounting is then inductive with the typing.

`OvercommitNeedsStaleSelection` is not inductive: that an allocation fits follows
only if the selection it relies on still fits.  The invariant adds
`SelectionStaysGood`, which is preserved because the only step that takes room away,
`AllocateResources`, marks every other create waiting on that core as interfered
with; and the two need each other, since room on a core says something only while
`Free*` has not wrapped.  `IndexMatchesBookings` and `LocationIsStable` need fresh
uuids: with them an entry has one possible writer, and both writers of a location
(`RegisterVM` and the fill of a lookup) write the core the one create with that uuid
has chosen.  `AliveInv` says that every VM on the alive list is of a registered
create, that none is there twice, and that the location of a registered one is the
chosen core; lemmas say what `append` and the removal at an index leave in the list.

### SubnetAllocatorProofs

For any number of creates and restarts, and octets up to any `Top`
(`SubnetAssumption`):

| Theorem | Statement |
| --- | --- |
| `FindSubnetIsNext` | `FindSubnet(s)` comes after `s` and skips no subnet, and is `Err` exactly if `s` is `<<Top, Top, Top>>` |
| `TypeCorrect` | `Spec => []TypeOK` |
| `NoSubnetTwice` | `Spec => []NoOverlapNoDuplicate` |
| `CountersCover` | `Spec => []CounterCoversHolders` |
| `CountersInStep` | `Spec => []CountersAgree` |
| `ErrIsTakenBack` | `Spec => []ExhaustionIsUndone` |

The history variable notices an overlap when it begins, so that without one a single
create is under way (`Alone`).  `CounterInv` then says for each of its statements where
the two counters are between the subnet it has read and the one it asks for
(`Underway`), that every holder has a subnet no counter is behind (`Covered`), and that
holders have different ones (`Distinct`): the next subnet is beyond all of them by
`FindSubnetIsNext`.  `CountersInStep` needs in addition that no statement on the row
failed, and follows the two counters forth and back (`InStep`).  `ErrIsTakenBack`
holds among overlapping creates too: `ErrIsOwned` says that a counter is `Err` only
while a create that is on its way to undo it has put it there; a second one cannot
begin with it, since `FindSubnet` panics on `err`.

### StatusCacheProofs

For any number of creates, updates and deletes of a uuid and any
bound of the clock (`CacheAssumption`):

| Theorem | Statement |
| --- | --- |
| `TypeCorrect` | `Spec => []TypeOK` |
| `OnlyOvertakenResurrect` | `Spec => []RecordIsOfLastVM` |
| `OnlyOverlapsReorder` | `Spec => OnlyOverlapTurnsTimeBack` |

The typing needs that an update which is about to write has read a record
(`HasRead`).  The time of a record is that of the call its status comes from
(`TimeOfWriter`), which has ended and is stamped no more (`WriterEnded`).  `RecordIsOfLastVM` is inductive with the same about
what updates hold in their hands (`HoldsLastVM`): unless it has been overtaken, an
update holds a record of the last VM.  The order of reports rests on `StampsInOrder`:
of two calls under way, one that was not there when the other came in has the later
stamp; so a writer that was not among the rivals of the record's writer has no older
time.

### GuacamoleDBProofs

For any number of Configures, Cleanups and uuids
(`GuacamoleAssumption`):

| Theorem | Statement |
| --- | --- |
| `LoginsReachTheirVM` | `Spec => []LoginReachesItsVM` |
| `NothingStays` | `Spec => []NothingLeftBehind` |
| `TablesImplementAccount` | `Spec => ImplementsAccount` |

Neither invariant is inductive: a Cleanup could delete too much if a
permission led from the entity of one uuid to a connection of another, or if it had
found the entity of another uuid.  `TablesInv` says that ids are in use only under the
uuid of the call that inserted them and only after it has (`IdsAreOwn`), that a
permission connects the present entity of a uuid with a connection of it
(`GrantsAreOwn`), that entities have their user and connections their permission, and
that a Cleanup goes on only with an entity.  The refinement goes action by action:
`ConfigureWrite` is `Configure`; the commit of a Cleanup is `Clean` of all calls that
have found the same entity, or a stutter when one of them came first; a Cleanup that
finds nothing is `Clean` of itself on an account that is empty.

### VMLifecycleProofs

For any number of creates, calls, cores and uuids, any demands and word size, with
whatever calls fail, lose their answer and interleave (`MemoryAssumption`,
`LifecycleAssumption`), unless the statement says otherwise:

| Theorem | Statement |
| --- | --- |
| `ManagerAlwaysReady` | `Spec => []ManagerReady` |
| `BookingsAddUp` | `Spec => [](RM!AccountingModWord /\ RM!OvercommitNeedsStaleSelection)` |
| `CreatedStaysWhole` | `FreshUUIDs` implies `Spec => []CreatedIsWhole` |
| `FoundAlwaysWhereItIs` | `FreshUUIDs` implies `Spec => []FoundWhereItIs` |
| `StatusInOrder` | `FreshUUIDs` implies `Spec => InitialStatusComesFirst` |
| `RowsOutliveDomains` | `FreshUUIDs` implies `Spec => RowOutlivesDomain` |
| `LoginsHavePassword` | `FreshUUIDs` implies `Spec => []LoginHasPassword` |
| `RowsAreBooked` | `FreshUUIDs`, `~LostAnswers` imply `Spec => []RowIsBooked` |
| `FailedIsUndone` | `~LostAnswers`, `~BestEffortFails` imply `Spec => []FailedCreateIsUndone` |

The invariants are layers; each is inductive together with those before it.

- `LifecycleInv` holds with no assumption on uuids or failures.  It is the typing, what
  each program counter says of the create's phase in the manager (`Phases`) and of the
  call (`Shapes`), and that rows, locations and findings name the core of a create that
  has come that far (`Rows`, `Locations`, `Finds`).  `ManagerAlwaysReady` follows: the
  guards of `RM!...` never hold a handler up, so composing the two modules by
  conjunction leaves out no behaviour of the handlers.  That every step is one of the
  manager's or leaves the memory alone is a lemma (`MemoryIsManaged`), by which
  `BookingsAddUp` carries the manager's theorems over through an INSTANCE of
  `ResourceManagerProofs`.
- `OwnedInv`, for fresh uuids: an index entry, a domain and a status belong to the one
  create of their uuid, at the core it chose and after it came there; what a create
  has made so far is there until a delete has found the VM (`Wholes`); and a delete
  goes past the Core only when no core has the VM (`DeletesFindNone`).  Without fresh
  uuids each part is false: a second create of a uuid that fails takes down what the
  first one built.
- `UpInv`, for a server that does not stop: nothing is *lost*, and a login is for a VM
  that has been booked.
- `RowsEarned`, when no answer is lost: only a create that goes on to `RegisterVM`
  leaves a row.  With lost answers it is false: `AddInstance` may commit and be
  reported as failed, and the create then returns the booking.
- `FailedHasNothing`, when no answer is lost and no cleanup fails: a password in
  Guacamole belongs to a create that is under way or done, and a failed create has
  nothing booked.  It needs no fresh uuids, since both the undo and `Configure` write
  the whole entry of the uuid.

### VMServiceProofs

| Theorem | Statement |
| --- | --- |
| `HandlersImplementService` | `FreshUUIDs`, `~LostAnswers`, `~BestEffortFails` imply `Spec => ImplementsService` |

Each step of a handler is mapped to one step of `VMService` or to a stutter: `Create`
at the commit of `AddInstance`, `Destroy` and `Forget` at the Core and at the commit of
`DeleteInstance`, `Switch` at the Core, `Tell` at the answer of Guacamole, `Return` at the
answers.  To show that the abstract guards hold at those moments needs, beside the
invariants above, `SeenInv`: a location that was found is that of a VM that had appeared,
the Core runs a VM whose row is about to be written, a VM that was there keeps its row
while a core has it, and an answered delete has found the VM and taken its password away.
The three assumptions are those of the mapping (section 2).

### ServerRestartProofs

As `VMLifecycleProofs`, with any number of restarts at any step:

| Theorem | Statement |
| --- | --- |
| `WholeAcrossRestarts` | `FreshUUIDs` implies `RestartSpec => []CreatedIsWhole` |
| `FoundAcrossRestarts` | `FreshUUIDs` implies `RestartSpec => []FoundWhereItIs` |
| `RowsHaveDomains` | `FreshUUIDs` implies `RestartSpec => []RowHasDomain` |
| `StatusAcrossRestarts` | `FreshUUIDs` implies `RestartSpec => InitialStatusComesFirst` |
| `RowsOutliveAcrossRestarts` | `FreshUUIDs` implies `RestartSpec => RowOutlivesDomain` |
| `BookedAcrossRestarts` | `FreshUUIDs`, `~LostAnswers` imply `RestartSpec => []RowIsBooked` |
| `ManagerReadyAcrossRestarts` | `RestartSpec => []ManagerReady` |

`LifecycleInv` and `OwnedInv` are stated such that `Restart` preserves them: a create cut
off between steps is *lost* and owes nothing, one whose row is loaded is registered, and
`Wholes` says what a row vouches for, so that the tables rebuilt from the rows are
those of whole VMs.  `RowsEarned` is not kept: a create cut off before `RegisterVM` has
a row and will not register.  `RowsKept` takes its place: the create of a row is
about to register, or is registered, by itself or by a start.  The run has one restart, the theorems any number.

### StartupProofs

For any configurations, reports and rows, any number of Cores and VMs
(`StartupAssumption`):

| Theorem | Statement |
| --- | --- |
| `OnlyReachableServe` | `Spec => []ServesOnlyReachable` |
| `NeverPhantom` | `Spec => []NoPhantomCapacity` |
| `LostByGrowthOnly` | `Spec => []OnlyGrowthLosesReports` |
| `RowsFindTheirCore` | `Spec => []VMsFoundAgain` |

They are theorems of `Spec`; the run checks the same under `FairSpec`, for `StartEnds`.
`StartInv` speaks of every element of every array that was ever behind the slice, since
goroutines go on to write into the ones it has left: what is free in it is nothing or
its own Core's report (`NoPhantom`, also of a copy made half-way), and an element marked
dead has a goroutine that failed (`DeadHaveFailed`).  A goroutine that is done has filled
its element if that is in the last array (`DoneHaveFilled`): a copy leaves no goroutine
pointing into the new array, and one launched there writes there.  After the wait all
are done (`AllBack`), and what is loaded are the rows (`Loaded`).

`RowsFindTheirCore` needs to know where the loop has put the Cores.  `FollowsConfig`
says that each element of the slice is a Core at its first place in the configuration
so far, and that its index is the number of different Cores up to there; that no Core
is left out; and that neither `append` nor a goroutine changes an address.

### What only TLC checks

Liveness (`BookingSettles`, `CallsAreAnswered`, `StartEnds`), which TLAPS cannot prove.
The findings of section 3 are counterexamples that TLC finds.

## 5. What is left out, and why

- Messages, JSON, HTTP status codes, logging: no property is about them.  A refused
  demand of zero (`api/create_vm.go:88`) is an assumption on `Demand`.
- A call that takes effect long after its error was returned: `Outcome` lets it take
  effect at the latest with the error.
- The statuses of the list that say what a VM is about to do (`prepare begin`, `migrate
  begin` and so on): they are stored as they are, as running and stopped are, which
  stand for them.
- The reading of the configuration file and the environment, and the connections to
  MySQL and Redis: they fail before there is any state, and then the start ends.
- `UpdateInstance` and `GetInstance` of the repository have no caller.
- Snapshots: each operation is one call of the object store; the server keeps nothing,
  and what would send the upload to the Core is a TODO in the code.
- Logging: `util.GetLogger` opens three files at each call and leaves it to the garbage
  collector to close them.  A server that runs out of file descriptors is not
  modelled; its calls would fail in the ways that are.
- Key generation and passwords: pure functions; a failure is an early return of a
  create that has booked nothing.

## 6. Plan

Done: all modules of section 2, their runs and their theorems.

To come:

1. Across restarts: `LoginHasPassword` of the VMs whose row was loaded, and what
   `FailedCreateIsUndone` becomes when a create is cut off.
2. The hazards that have no property yet: the resources a delete keeps, and the IP of
   a create that fails after CMS has answered.
3. With answers lost, what a client may still rely on: a weaker `VMService` in which a
   failed create may have made its VM appear.
