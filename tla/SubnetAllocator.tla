-------------------------- MODULE SubnetAllocator --------------------------
(***************************************************************************)
(* How a create with a new subnet gets one: NewCmsSubnet                   *)
(* (service/network.go) steps the counter last_subnet, which is in the     *)
(* memory of the server and in the one row of the subnet table, asks CMS   *)
(* for an IP in that subnet and steps back when CMS refuses; later,        *)
(* CreateVM (service/vm.go:126) writes the IP it got to the row.  Nothing   *)
(* is locked.  The server may stop at any point and starts again with the  *)
(* counter of the row.                                                     *)
(*                                                                         *)
(* A subnet is the three octets before the last dot: of the IP that        *)
(* CreateVM writes, FindSubnet reads these three only.                     *)
(***************************************************************************)
EXTENDS Integers

CONSTANTS
    Request,     \* the creates that ask for a new subnet
    Top,         \* 255, the largest octet
    StartSubnet, \* the counter before the first create
    Err,         \* the string "err"
    MaxRestarts  \* bound on the restarts of the server

Octet == 0..Top
Subnet == Octet \X Octet \X Octet

ASSUME SubnetAssumption ==
    /\ Top \in Nat
    /\ StartSubnet \in Subnet
    /\ Err \notin Subnet
    /\ MaxRestarts \in Nat

VARIABLES
    lastSubnet, \* ControlContext.Last_subnet
    subnetRow,  \* MySQL: subnet.last_subnet
    pc,         \* the next step of each create
    seen,       \* the counter each create has read
    next,       \* the subnet each create asks CMS for
    holds,      \* CMS: the creates that have an IP in their subnet
    restarts,   \* how often the server has been started again
    mishaps     \* history: what has gone wrong so far (Mishap)

vars == <<lastSubnet, subnetRow, pc, seen, next, holds, restarts, mishaps>>

Step == {"read", "reserve", "advance", "request", "restoreRow", "restore",
         "finish", "settle", "done", "failed"}

\* Creates ran side by side between their reading of the counter and their end; a
\* statement on the row failed, before or after it took effect; CMS allocated an IP
\* and the answer got lost.
Mishap == {"overlap", "row", "answer"}

\* Faulty: carries one too late.
FindSubnetLateCarry(s) ==
    CASE s[3] <= Top -> <<s[1], s[2], s[3] + 1>>
      [] s[3] > Top /\ s[2] <= Top -> <<s[1], s[2] + 1, 0>>
      [] s[3] > Top /\ s[2] > Top /\ s[1] <= Top -> <<s[1] + 1, 0, 0>>
      [] OTHER -> Err

\* pkg/network: one up, with carry; past the last subnet, "err".
FindSubnet(s) ==
    CASE s[3] < Top -> <<s[1], s[2], s[3] + 1>>
      [] s[3] >= Top /\ s[2] < Top -> <<s[1], s[2] + 1, 0>>
      [] s[3] >= Top /\ s[2] >= Top /\ s[1] < Top -> <<s[1] + 1, 0, 0>>
      [] OTHER -> Err

\* The creates between their reading of the counter and the end of CreateVM.
Busy == {r \in Request : pc[r] \notin {"read", "done", "failed"}}

Goto(r, l) == pc' = [pc EXCEPT ![r] = l]

Init ==
    /\ lastSubnet = StartSubnet
    /\ subnetRow = StartSubnet
    /\ pc = [r \in Request |-> "read"]
    /\ seen = [r \in Request |-> Err]
    /\ next = [r \in Request |-> Err]
    /\ holds = {}
    /\ restarts = 0
    /\ mishaps = {}

-----------------------------------------------------------------------------
(* NewCmsSubnet.                                                           *)

Read(r) ==
    /\ pc[r] = "read"
    /\ lastSubnet # Err
    /\ seen' = [seen EXCEPT ![r] = lastSubnet]
    /\ next' = [next EXCEPT ![r] = FindSubnet(lastSubnet)]
    /\ mishaps' = mishaps \cup {m \in {"overlap"} : Busy # {}}
    /\ Goto(r, "reserve")
    /\ UNCHANGED <<lastSubnet, subnetRow, holds, restarts>>

\* FindSubnet indexes past the end of the string: of "err", or of a string whose
\* two words were read on both sides of another create's assignment.  The panic
\* ends the request.
ReadPanics(r) ==
    /\ pc[r] = "read"
    /\ lastSubnet = Err \/ \E q \in Request : pc[q] \in {"advance", "restore"}
    /\ Goto(r, "failed")
    /\ UNCHANGED <<lastSubnet, subnetRow, seen, next, holds, restarts, mishaps>>

\* A statement that sets the row to s.
UpdateRow(s, answered) ==
    \E applied \in BOOLEAN :
        /\ answered => applied
        /\ subnetRow' = IF applied THEN s ELSE subnetRow
        /\ mishaps' = mishaps \cup {m \in {"row"} : ~answered}

Reserve(r) ==
    \E answered \in BOOLEAN :
        /\ pc[r] = "reserve"
        /\ UpdateRow(next[r], answered)
        /\ Goto(r, IF answered THEN "advance" ELSE "failed")
        /\ UNCHANGED <<lastSubnet, seen, next, holds, restarts>>

\* Faulty: the counter in memory stays where it was.
AdvanceRowOnly(r) ==
    /\ pc[r] = "advance"
    /\ Goto(r, "request")
    /\ UNCHANGED <<lastSubnet, subnetRow, seen, next, holds, restarts, mishaps>>

Advance(r) ==
    /\ pc[r] = "advance"
    /\ lastSubnet' = next[r]
    /\ Goto(r, "request")
    /\ UNCHANGED <<subnetRow, seen, next, holds, restarts, mishaps>>

\* CMS has no subnet "err".
RequestInstance(r) ==
    \E applied, answered \in BOOLEAN :
        /\ pc[r] = "request"
        /\ answered => applied
        /\ applied => next[r] # Err
        /\ holds' = IF applied THEN holds \cup {r} ELSE holds
        /\ mishaps' = mishaps \cup {m \in {"answer"} : applied /\ ~answered}
        /\ Goto(r, IF answered THEN "finish" ELSE "restoreRow")
        /\ UNCHANGED <<lastSubnet, subnetRow, seen, next, restarts>>

\* Faulty: the row is not taken back.
RestoreMemoryOnly(r) ==
    /\ pc[r] = "restoreRow"
    /\ Goto(r, "restore")
    /\ UNCHANGED <<lastSubnet, subnetRow, seen, next, holds, restarts, mishaps>>

\* When the statement fails, memory keeps the counter it was advanced to.
RestoreRow(r) ==
    \E answered \in BOOLEAN :
        /\ pc[r] = "restoreRow"
        /\ UpdateRow(seen[r], answered)
        /\ Goto(r, IF answered THEN "restore" ELSE "failed")
        /\ UNCHANGED <<lastSubnet, seen, next, holds, restarts>>

\* Faulty: only the row goes back.
RestoreNothing(r) ==
    /\ pc[r] = "restore"
    /\ Goto(r, "failed")
    /\ UNCHANGED <<lastSubnet, subnetRow, seen, next, holds, restarts, mishaps>>

Restore(r) ==
    /\ pc[r] = "restore"
    /\ lastSubnet' = seen[r]
    /\ Goto(r, "failed")
    /\ UNCHANGED <<subnetRow, seen, next, holds, restarts, mishaps>>

-----------------------------------------------------------------------------
(* The rest of CreateVM, and the server.                                   *)

\* The steps between NewCmsSubnet and the write of the IP; one that fails leaves the IP.
Finish(r) ==
    /\ pc[r] = "finish"
    /\ Goto(r, "settle") \/ Goto(r, "failed")
    /\ UNCHANGED <<lastSubnet, subnetRow, seen, next, holds, restarts, mishaps>>

\* Faulty: writes the counter that the create had read.
SettleOnSeen(r) ==
    \E answered \in BOOLEAN :
        /\ pc[r] = "settle"
        /\ UpdateRow(seen[r], answered)
        /\ Goto(r, "done")
        /\ UNCHANGED <<lastSubnet, seen, next, holds, restarts>>

\* Writes the IP to the row, not to memory; an error is logged.
Settle(r) ==
    \E answered \in BOOLEAN :
        /\ pc[r] = "settle"
        /\ UpdateRow(next[r], answered)
        /\ Goto(r, "done")
        /\ UNCHANGED <<lastSubnet, seen, next, holds, restarts>>

\* The server stops and starts: its creates end where they are.
Restart ==
    /\ restarts < MaxRestarts
    /\ restarts' = restarts + 1
    /\ lastSubnet' = subnetRow
    /\ pc' = [r \in Request |-> IF r \in Busy THEN "failed" ELSE pc[r]]
    /\ UNCHANGED <<subnetRow, seen, next, holds, mishaps>>

RequestNext(r) ==
    \/ Read(r)
    \/ ReadPanics(r)
    \/ Reserve(r)
    \/ Advance(r)
    \/ RequestInstance(r)
    \/ RestoreRow(r)
    \/ Restore(r)
    \/ Finish(r)
    \/ Settle(r)

Next == Restart \/ \E r \in Request : RequestNext(r)

Spec == Init /\ [][Next]_vars

-----------------------------------------------------------------------------
(* Properties.                                                             *)

TypeOK ==
    /\ lastSubnet \in Subnet \cup {Err}
    /\ subnetRow \in Subnet \cup {Err}
    /\ pc \in [Request -> Step]
    /\ seen \in [Request -> Subnet \cup {Err}]
    /\ next \in [Request -> Subnet \cup {Err}]
    /\ holds \subseteq Request
    /\ restarts \in 0..MaxRestarts
    /\ mishaps \subseteq Mishap

\* The order in which FindSubnet goes through the subnets; "err" comes last.
Before(s, t) ==
    /\ s # Err
    /\ t # Err => \/ s[1] < t[1]
                  \/ s[1] = t[1] /\ s[2] < t[2]
                  \/ s[1] = t[1] /\ s[2] = t[2] /\ s[3] < t[3]
AtMost(s, t) == s = t \/ Before(s, t)

\* Creates have run one after another and CMS has told every IP.
OneByOne == mishaps \cap {"overlap", "answer"} = {}

\* As long as creates with a new subnet do not run side by side, no two IPs that
\* CMS has given away are in the same subnet, whatever CMS refuses, whatever
\* statement on the row fails or loses its answer and whenever the server restarts
\* (NewCmsSubnet, service/vm.go:126, startup/init.go:153).
NoOverlapNoDuplicate ==
    OneByOne => \A r, q \in holds : next[r] = next[q] => r = q

\* Without overlap the row never falls behind a subnet that is in use, so a
\* restart does not hand one out again; nor does the counter in memory.
CounterCoversHolders ==
    OneByOne => \A r \in holds : AtMost(next[r], lastSubnet) /\ AtMost(next[r], subnetRow)

\* Without overlap and with every statement carried out, the counters in memory and
\* in the row agree whenever no create is under way, also after a refusal of CMS
\* was undone in both.
CountersAgree ==
    mishaps \subseteq {"answer"} /\ Busy = {} => lastSubnet = subnetRow

\* Running out of subnets is not the end of the counter: the "err" that FindSubnet
\* returns is taken back once CMS has refused it, even among overlapping creates.
\* (Every statement carried out, no restart.)
ExhaustionIsUndone ==
    "row" \notin mishaps /\ restarts = 0 /\ Busy = {} => lastSubnet # Err /\ subnetRow # Err

\* service/network.go:42: the next subnet is reserved before the call of CMS so
\* that concurrent calls do not allocate the same one.
ConcurrentCallsDiffer ==
    mishaps \subseteq {"overlap"} => \A r, q \in holds : next[r] = next[q] => r = q

=============================================================================
