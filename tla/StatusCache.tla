---------------------------- MODULE StatusCache ----------------------------
(***************************************************************************)
(* The Redis record of one uuid (service/redis.go): creates store it,      *)
(* reports of the Core and shutdowns read it and write it back with their  *)
(* status and time, deletes remove it.  Every call is stamped by the       *)
(* server's clock when it comes in (time.Now().Unix(), in seconds), and    *)
(* nothing holds the key between its commands.  The uuid may be used again *)
(* after a delete.                                                         *)
(*                                                                         *)
(* A status is named after the call that brought it, the specification of  *)
(* a VM (CPU, memory, disk, IP) after its create.  How a call is answered  *)
(* is in VMLifecycle; here it ends, with an effect or without.             *)
(***************************************************************************)
EXTENDS Naturals

CONSTANTS
    Create, \* calls of StoreVMInfoToRedis
    Update, \* calls of UpdateVMStatusInRedis
    Remove, \* calls of RemoveVMInfoFromRedis
    MaxTime \* bound of the clock

ASSUME CacheAssumption ==
    /\ Create \cap Update = {}
    /\ (Create \cup Update) \cap Remove = {}
    /\ MaxTime \in Nat

VARIABLES
    key,       \* the record under the uuid
    clock,
    pc,        \* the next step of each call
    stamp,     \* the time each call came in at
    seen,      \* the record an update has read
    during,    \* history: of each call under way, the others that were when it came in
    rivals,    \* history: the same of the call that wrote the record
    lastVM,    \* history: the create that stored last, if nothing was removed since
    overtaken, \* history: the updates that read before the last store or remove
    stale      \* history: one of those has written since

local == <<clock, pc, stamp, seen>>
history == <<during, rivals, lastVM, overtaken, stale>>
cacheVars == <<key, local, history>>

Proc == Create \cup Update \cup Remove
Writer == Create \cup Update

NoRecord == [vm |-> "none", status |-> "none", time |-> 0]
Record == [vm : Create, status : Writer, time : 0..MaxTime]
NoWriter == "none"

TypeOK ==
    /\ key \in Record \cup {NoRecord}
    /\ clock \in 0..MaxTime
    /\ pc \in [Proc -> {"idle", "store", "get", "set", "del", "ended"}]
    /\ stamp \in [Proc -> 0..MaxTime]
    /\ seen \in [Update -> Record \cup {NoRecord}]
    /\ during \in [Proc -> SUBSET Proc]
    /\ rivals \subseteq Proc
    /\ lastVM \in Create \cup {NoWriter}
    /\ overtaken \subseteq Update
    /\ stale \in BOOLEAN

Init ==
    /\ key = NoRecord
    /\ clock = 0
    /\ pc = [p \in Proc |-> "idle"]
    /\ stamp = [p \in Proc |-> 0]
    /\ seen = [p \in Update |-> NoRecord]
    /\ during = [p \in Proc |-> {}]
    /\ rivals = {}
    /\ lastVM = NoWriter
    /\ overtaken = {}
    /\ stale = FALSE

Goto(p, l) == pc' = [pc EXCEPT ![p] = l]

UnderWay == {p \in Proc : pc[p] \notin {"idle", "ended"}}

\* A call that has ended overlaps with nothing any more and remembers nothing.
End(p) ==
    /\ Goto(p, "ended")
    /\ during' = [q \in Proc |-> IF q = p THEN {} ELSE during[q] \ {p}]
    /\ seen' = [q \in Update |-> IF q = p THEN NoRecord ELSE seen[q]]

Tick ==
    /\ clock < MaxTime
    /\ clock' = clock + 1
    /\ UNCHANGED <<key, pc, stamp, seen, history>>

\* Faulty: the time comes with the request, from a clock that is behind.
ArriveWithSenderTime(p) ==
    /\ pc[p] = "idle"
    /\ \E t \in 0..clock : stamp' = [stamp EXCEPT ![p] = t]
    /\ during' = [during EXCEPT ![p] = UnderWay]
    /\ Goto(p, IF p \in Create THEN "store" ELSE IF p \in Update THEN "get" ELSE "del")
    /\ UNCHANGED <<key, clock, seen, rivals, lastVM, overtaken, stale>>

\* The time is that of the server, read before the first command.
Arrive(p) ==
    /\ pc[p] = "idle"
    /\ stamp' = [stamp EXCEPT ![p] = clock]
    /\ during' = [during EXCEPT ![p] = UnderWay]
    /\ Goto(p, IF p \in Create THEN "store" ELSE IF p \in Update THEN "get" ELSE "del")
    /\ UNCHANGED <<key, clock, seen, rivals, lastVM, overtaken, stale>>

\* A command that fails before it has an effect.
Fail(p) ==
    /\ p \in UnderWay
    /\ End(p)
    /\ UNCHANGED <<key, clock, stamp, rivals, lastVM, overtaken, stale>>

\* The key has become that of vm, and what any update holds is out of date.
Replaced(vm) ==
    /\ lastVM' = vm
    /\ overtaken' = {p \in Update : pc[p] = "set"}
    /\ stale' = FALSE

\* Faulty: a record that is there already is kept (SETNX).
StoreIfAbsent(c) ==
    /\ pc[c] = "store"
    /\ key' = IF key = NoRecord THEN [vm |-> c, status |-> c, time |-> stamp[c]] ELSE key
    /\ rivals' = IF key = NoRecord THEN during[c] ELSE rivals
    /\ Replaced(c)
    /\ End(c)
    /\ UNCHANGED <<clock, stamp>>

Store(c) ==
    /\ pc[c] = "store"
    /\ key' = [vm |-> c, status |-> c, time |-> stamp[c]]
    /\ rivals' = during[c]
    /\ Replaced(c)
    /\ End(c)
    /\ UNCHANGED <<clock, stamp>>

\* Faulty: a missing record is written like any other.
GetUnchecked(p) ==
    /\ pc[p] = "get"
    /\ seen' = [seen EXCEPT ![p] = key]
    /\ Goto(p, "set")
    /\ UNCHANGED <<key, clock, stamp, history>>

\* loadRedisVMInfo: an update of a missing record is an error.
Get(p) ==
    /\ pc[p] = "get"
    /\ IF key = NoRecord
       THEN End(p)
       ELSE /\ seen' = [seen EXCEPT ![p] = key]
            /\ Goto(p, "set")
            /\ UNCHANGED during
    /\ UNCHANGED <<key, clock, stamp, rivals, lastVM, overtaken, stale>>

\* The whole record goes back, the specification as it was read.  (The comment at
\* service/redis.go:99-100 says that the stored time is preserved; it is replaced.)
Set(p) ==
    /\ pc[p] = "set"
    /\ key' = [seen[p] EXCEPT !.status = p, !.time = stamp[p]]
    /\ rivals' = during[p]
    /\ stale' = (stale \/ p \in overtaken)
    /\ End(p)
    /\ UNCHANGED <<clock, stamp, lastVM, overtaken>>

Del(p) ==
    /\ pc[p] = "del"
    /\ key' = NoRecord
    /\ rivals' = {}
    /\ Replaced(NoWriter)
    /\ End(p)
    /\ UNCHANGED <<clock, stamp>>

Next ==
    \/ Tick
    \/ \E p \in Proc : Arrive(p) \/ Fail(p)
    \/ \E c \in Create : Store(c)
    \/ \E p \in Update : Get(p) \/ Set(p)
    \/ \E p \in Remove : Del(p)

Spec == Init /\ [][Next]_cacheVars

-----------------------------------------------------------------------------
(* Properties.                                                             *)

\* The record is that of the VM created last, and there is none once it is deleted,
\* unless an update that had read before the store or the delete wrote after it (the
\* gap between GET and SET in UpdateVMStatusInRedis).
RecordIsOfLastVM == ~stale => key.vm = lastVM

\* A record is replaced by an older one only by a call that was under way when the
\* call of the newer one came in: a call that comes in after another has ended never
\* loses to it (UpdateVMStatusInRedis does not compare the times).
OnlyOverlapTurnsTimeBack ==
    [][key # NoRecord /\ key' # NoRecord /\ key'.time < key.time
           => key'.status \in rivals]_cacheVars

=============================================================================
