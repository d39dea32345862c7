----------------------------- MODULE VMService -----------------------------
(***************************************************************************)
(* What the HTTP API promises its clients about the VM of a uuid           *)
(* (README.md:148-155): it appears, is switched on and off, is destroyed   *)
(* and forgotten, each in one instant between a request and its answer.    *)
(* Only the delete has two such instants: the VM is destroyed first, and a *)
(* delete that fails may have come that far.                               *)
(***************************************************************************)
CONSTANTS
    Request, \* the creates
    Call,    \* the other requests
    UUID,
    UUIDOf   \* the uuid of each create

VARIABLES
    vm,     \* "absent", "running", "stopped", "destroyed" but still listed, "gone"
    ask,    \* what each call is and whom it is about
    status  \* how far each request has got

serviceVars == <<vm, ask, status>>

Kind == {"delete", "shutdown", "start", "connect", "status", "report"}
NoAsk == [kind |-> "none", uuid |-> "none"]

Init ==
    /\ vm = [u \in UUID |-> "absent"]
    /\ ask = [o \in Call |-> NoAsk]
    /\ status = [p \in Request \cup Call |-> IF p \in Request THEN "called" ELSE "idle"]

Becomes(p, s) == status' = [status EXCEPT ![p] = s]

Invoke(o) ==
    /\ status[o] = "idle"
    /\ \E k \in Kind, u \in UUID : ask' = [ask EXCEPT ![o] = [kind |-> k, uuid |-> u]]
    /\ Becomes(o, "called")
    /\ UNCHANGED vm

\* A create that has made its VM appear does not fail any more.
Create(r) ==
    /\ status[r] = "called"
    /\ vm[UUIDOf[r]] = "absent"
    /\ vm' = [vm EXCEPT ![UUIDOf[r]] = "running"]
    /\ Becomes(r, "effective")
    /\ UNCHANGED ask

Asks(o, kind) == status[o] = "called" /\ ask[o].kind = kind

\* Only a VM that is there can be started or shut down.
Switch(o, kind, state) ==
    LET u == ask[o].uuid IN
    /\ Asks(o, kind)
    /\ vm[u] \in {"running", "stopped"}
    /\ vm' = [vm EXCEPT ![u] = state]
    /\ Becomes(o, "effective") \/ Becomes(o, "answered")
    /\ UNCHANGED ask

Destroy(o) ==
    LET u == ask[o].uuid IN
    /\ Asks(o, "delete")
    /\ vm[u] \in {"running", "stopped"}
    /\ vm' = [vm EXCEPT ![u] = "destroyed"]
    /\ UNCHANGED <<ask, status>>

\* A VM is forgotten only when it is destroyed; a delete may be repeated.
Forget(o) ==
    LET u == ask[o].uuid IN
    /\ Asks(o, "delete")
    /\ vm[u] \in {"destroyed", "gone"}
    /\ vm' = [vm EXCEPT ![u] = "gone"]
    /\ Becomes(o, "effective")
    /\ UNCHANGED ask

Deleted(u) == \E d \in Call : status[d] = "answered" /\ ask[d] = [kind |-> "delete", uuid |-> u]

\* Nothing is told of a VM that has not appeared, though a Core may report before,
\* and nobody gets into a VM whose delete has been answered.
Tell(o) ==
    LET u == ask[o].uuid IN
    /\ \/ Asks(o, "report")
       \/ Asks(o, "status") /\ vm[u] # "absent"
       \/ Asks(o, "connect") /\ vm[u] # "absent" /\ ~Deleted(u)
    /\ Becomes(o, "answered")
    /\ UNCHANGED <<vm, ask>>

\* What has had its effect is answered, and what fails has had none.
Return(p) ==
    /\ \/ status[p] = "effective" /\ Becomes(p, "answered")
       \/ status[p] = "called" /\ Becomes(p, "failed")
    /\ UNCHANGED <<vm, ask>>

Next ==
    \/ \E r \in Request : Create(r)
    \/ \E o \in Call :
        \/ Invoke(o)
        \/ Switch(o, "start", "running")
        \/ Switch(o, "shutdown", "stopped")
        \/ Destroy(o)
        \/ Forget(o)
        \/ Tell(o)
    \/ \E p \in Request \cup Call : Return(p)

Spec == Init /\ [][Next]_serviceVars

=============================================================================
