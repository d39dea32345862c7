------------------------------ MODULE Startup ------------------------------
(***************************************************************************)
(* The start of the server (startup/init.go:158-269): a loop adds the      *)
(* configured Cores to a slice and launches a goroutine for each that asks *)
(* the Core for its memory and disk; when all have come back, the VM rows  *)
(* are loaded by the index of their core.                                  *)
(*                                                                         *)
(* A goroutine holds a pointer to its element of the slice.  append moves  *)
(* the elements to a new array whenever the old one is full: the pointers  *)
(* given out before still point into the old array.                        *)
(***************************************************************************)
EXTENDS Integers, Sequences, FiniteSets

CONSTANTS
    Address,   \* ip:port of the Cores
    Malformed, \* an entry of the configuration that is no ip:port
    Configs,   \* the configurations the server may be started with
    VM,
    Databases, \* what inst_loc may hold: [cores |-> the cores of the server that
               \* wrote it, row |-> the index of each VM among them, or 0]
    ReportOf,  \* what each Core reports: its free memory and disk
    FullCPU    \* what is put for the CPUs, which no Core reports (9999)

Resource == {"Memory", "CPU", "Disk"}

ASSUME StartupAssumption ==
    /\ Malformed \notin Address
    /\ Configs \subseteq Seq(Address \cup {Malformed})
    /\ ReportOf \in [Address -> [{"Memory", "Disk"} -> Nat \ {0}]]
    /\ FullCPU \in Nat \ {0}
    /\ \A d \in Databases :
        /\ d.cores \in Seq(Address)
        /\ d.row \in [VM -> 0..Len(d.cores)]

VARIABLES
    config, \* the configuration of this start
    arrays, \* the arrays behind the slice, the current one last
    polls,  \* the goroutines: how far each is and where it points to
    phase,  \* of the main goroutine
    db,     \* the table the rows are read from
    index   \* VMInfoIdx of each core: the VMs loaded

startupVars == <<config, arrays, polls, phase, db, index>>

NoDatabase == [cores |-> <<>>, row |-> [v \in VM |-> 0]]

Init ==
    /\ config \in Configs
    /\ arrays = << <<>> >>
    /\ polls = <<>>
    /\ phase = "launch"
    /\ db = NoDatabase
    /\ index = <<>>

Cores == arrays[Len(arrays)]

\* append: 0, 1, 2, 4, ... elements fit before the next array is needed.
Capacity(n) == IF n = 1 THEN 0 ELSE 2 ^ (n - 2)

Report(a) == [k \in Resource |-> IF k = "CPU" THEN FullCPU ELSE ReportOf[a][k]]

NewCore(a) == [address |-> a, alive |-> TRUE, free |-> [k \in Resource |-> 0]]

FindCore(a) == {i \in 1..Len(Cores) : Cores[i].address = a}

-----------------------------------------------------------------------------
(* The loop over the configuration.                                        *)

Launch(position) == polls' = Append(polls, [pc |-> "memory", at |-> position])

\* A goroutine that is writing to element i of the current array.
Writing(i) ==
    \E g \in 1..Len(polls) : polls[g].pc = "write" /\ polls[g].at = <<Len(arrays), i>>

\* What a copy of element i may be: a goroutine that writes to it without any
\* synchronisation may have got through with any of its fields.
Copies(i) ==
    IF Writing(i)
    THEN {[Cores[i] EXCEPT !.free = [k \in Resource |->
               IF k \in written THEN Report(Cores[i].address)[k] ELSE @[k]]] :
               written \in SUBSET Resource}
    ELSE {Cores[i]}

AppendCore(a) ==
    IF Len(Cores) < Capacity(Len(arrays))
    THEN arrays' = [arrays EXCEPT ![Len(arrays)] = Append(@, NewCore(a))]
    ELSE \E moved \in [1..Len(Cores) -> UNION {Copies(i) : i \in 1..Len(Cores)}] :
        /\ \A i \in 1..Len(Cores) : moved[i] \in Copies(i)
        /\ arrays' = Append(arrays, Append(moved, NewCore(a)))

\* Faulty: a Core that is configured twice is added twice.
AddCoreAgain ==
    LET a == config[Len(polls) + 1] IN
    /\ phase = "launch"
    /\ Len(polls) < Len(config)
    /\ a # Malformed
    /\ AppendCore(a)
    /\ Launch(<<Len(arrays'), Len(Cores')>>)
    /\ UNCHANGED <<config, phase, db, index>>

AddCore ==
    LET a == config[Len(polls) + 1] IN
    /\ phase = "launch"
    /\ Len(polls) < Len(config)
    /\ a # Malformed
    /\ \/ /\ FindCore(a) = {}
          /\ AppendCore(a)
          /\ Launch(<<Len(arrays'), Len(Cores')>>)
       \/ \E i \in FindCore(a) :
          /\ arrays' = [arrays EXCEPT ![Len(arrays)][i].alive = TRUE]
          /\ Launch(<<Len(arrays), i>>)
    /\ UNCHANGED <<config, phase, db, index>>

RejectAddress ==
    /\ phase = "launch"
    /\ Len(polls) < Len(config)
    /\ config[Len(polls) + 1] = Malformed
    /\ phase' = "failed"
    /\ UNCHANGED <<config, arrays, polls, db, index>>

AllLaunched ==
    /\ phase = "launch"
    /\ Len(polls) = Len(config)
    /\ phase' = "wait"
    /\ UNCHANGED <<config, arrays, polls, db, index>>

-----------------------------------------------------------------------------
(* A goroutine, unless main has given up and the process is gone.          *)

PollGoto(g, l) == polls' = [polls EXCEPT ![g].pc = l]

PollRuns(g, l) == phase \in {"launch", "wait"} /\ polls[g].pc = l

Element(g) == arrays[polls[g].at[1]][polls[g].at[2]]

\* Faulty: a Core that does not answer is asked again, from the beginning.
AskAgain(g, label, next) ==
    /\ PollRuns(g, label)
    /\ \/ PollGoto(g, next)
       \/ PollGoto(g, "memory")
    /\ UNCHANGED <<config, arrays, phase, db, index>>

\* Faulty: a Core that does not answer is marked as dead and start goes on.
AskLeniently(g, label, next) ==
    /\ PollRuns(g, label)
    /\ \/ PollGoto(g, next) /\ UNCHANGED arrays
       \/ /\ PollGoto(g, "done")
          /\ arrays' = [arrays EXCEPT ![polls[g].at[1]][polls[g].at[2]].alive = FALSE]
    /\ UNCHANGED <<config, phase, db, index>>

\* A request to the Core: it is answered, or it fails, times out, or is cancelled
\* because another goroutine has failed.
Ask(g, label, next) ==
    /\ PollRuns(g, label)
    /\ \/ PollGoto(g, next) /\ UNCHANGED arrays
       \/ /\ PollGoto(g, "failed")
          /\ arrays' = [arrays EXCEPT ![polls[g].at[1]][polls[g].at[2]].alive = FALSE]
    /\ UNCHANGED <<config, phase, db, index>>

AskMemory(g) == Ask(g, "memory", "disk")
AskDisk(g) == Ask(g, "disk", "write")

\* Faulty: the goroutine works on a copy of the element.
StoreInCopy(g) ==
    /\ PollRuns(g, "write")
    /\ PollGoto(g, "done")
    /\ UNCHANGED <<config, arrays, phase, db, index>>

\* Faulty: the goroutine uses the variable of the loop, which has gone on.
StoreInLast(g) ==
    /\ PollRuns(g, "write")
    /\ arrays' = [arrays EXCEPT ![Len(arrays)][Len(Cores)].free = Report(Element(g).address)]
    /\ PollGoto(g, "done")
    /\ UNCHANGED <<config, phase, db, index>>

StoreReport(g) ==
    /\ PollRuns(g, "write")
    /\ arrays' = [arrays EXCEPT ![polls[g].at[1]][polls[g].at[2]].free = Report(Element(g).address)]
    /\ PollGoto(g, "done")
    /\ UNCHANGED <<config, phase, db, index>>

\* A Core may answer without an "information" object: the pointer is nil, and to read
\* through it ends the process.
PanicOnEmpty(g) ==
    /\ PollRuns(g, "write")
    /\ phase' = "failed"
    /\ UNCHANGED <<config, arrays, polls, db, index>>

-----------------------------------------------------------------------------
(* errgroup.Wait and the rows.                                             *)

Wait ==
    /\ phase = "wait"
    /\ \A g \in 1..Len(polls) : polls[g].pc \in {"done", "failed"}
    /\ phase' = IF \E g \in 1..Len(polls) : polls[g].pc = "failed" THEN "failed" ELSE "load"
    /\ UNCHANGED <<config, arrays, polls, db, index>>

\* GetAllInstanceInfo, which may fail, and the loop over its rows, which gives up at
\* the first index that is no core of this start.
LoadRows ==
    /\ phase = "load"
    /\ db' \in Databases
    /\ \/ /\ \A v \in VM : db'.row[v] <= Len(Cores)
          /\ index' = [i \in 1..Len(Cores) |-> {v \in VM : db'.row[v] = i}]
          /\ phase' = "serving"
       \/ phase' = "failed" /\ UNCHANGED index
    /\ UNCHANGED <<config, arrays, polls>>

Main == AddCore \/ RejectAddress \/ AllLaunched \/ Wait \/ LoadRows

Poll(g) == AskMemory(g) \/ AskDisk(g) \/ StoreReport(g) \/ PanicOnEmpty(g)

Next == Main \/ \E g \in 1..Len(polls) : Poll(g)

Spec == Init /\ [][Next]_startupVars

\* Main and the goroutines run, and each request ends with an answer or its timeout.
MaxPolls == CHOOSE n \in {Len(c) : c \in Configs} : \A c \in Configs : Len(c) <= n

FairSpec ==
    /\ Spec
    /\ WF_startupVars(Main)
    /\ \A g \in 1..MaxPolls : WF_startupVars(g <= Len(polls) /\ Poll(g))

-----------------------------------------------------------------------------
(* Properties.                                                             *)

\* The server serves only with Cores that answered: one that does not answer stops
\* the start (errgroup), and no core is left marked dead.
ServesOnlyReachable ==
    phase = "serving" =>
        /\ \A g \in 1..Len(polls) : polls[g].pc = "done"
        /\ \A i \in 1..Len(Cores) : Cores[i].alive

\* No core ever has more free than it reported: a report that is stored late, while
\* the slice moves, or twice for a Core that is configured twice, does not end up
\* with another core.
NoPhantomCapacity ==
    \A n \in 1..Len(arrays) : \A i \in 1..Len(arrays[n]) : \A k \in Resource :
        arrays[n][i].free[k] \in {0, Report(arrays[n][i].address)[k]}

\* A report is lost by nothing but the growth of the slice: every goroutine that was
\* launched with the last array has filled its element.
OnlyGrowthLosesReports ==
    phase = "serving" =>
        \A g \in 1..Len(polls) : polls[g].at[1] = Len(arrays) =>
            Element(g).free = Report(Element(g).address)

\* Core a is the i-th of the configuration, one that is named again not counted.
Named(k) == {config[j] : j \in 1..k}

NamedFirst(k) == config[k] \notin Named(k - 1)

ConfiguredAt(a, i) ==
    \E k \in 1..Len(config) :
        config[k] = a /\ NamedFirst(k) /\ Cardinality(Named(k)) = i

\* No row is dropped by the start, and its VM is loaded at the Core that has it
\* exactly when that Core still has its place in the configuration (the indexes of
\* startup/init.go:253 are those of the loop over the configuration at 178-200):
\* Cores may be added at the end or named twice, but not reordered.
VMsFoundAgain ==
    phase = "serving" =>
        \A v \in VM : db.row[v] # 0 =>
            LET home == db.cores[db.row[v]] IN
            \E i \in 1..Len(Cores) :
                /\ v \in index[i]
                /\ Cores[i].address = home <=> ConfiguredAt(home, db.row[v])

\* The start ends, whatever the Cores answer: it serves or gives up.
StartEnds == <>(phase \in {"serving", "failed"})

-----------------------------------------------------------------------------
(* What comments say of the program.                                       *)

\* startup/init.go:166: the information of the configured cores is updated; so a
\* server that serves knows what every one of them has.
EveryCoreIsUpdated ==
    phase = "serving" =>
        \A i \in 1..Len(Cores) : Cores[i].free = Report(Cores[i].address)

=============================================================================
