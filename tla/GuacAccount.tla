---------------------------- MODULE GuacAccount ----------------------------
(***************************************************************************)
(* What the rest of the server takes Configure and Cleanup for             *)
(* (pkg/guacamole/config.go): one password for each uuid, that of the      *)
(* create which configured the uuid last, written and erased in one        *)
(* instant.  VMLifecycle uses them in this way; GuacamoleDB implements it  *)
(* with five tables.                                                       *)
(***************************************************************************)
EXTENDS FiniteSets

CONSTANTS
    Request, \* the calls of Configure, each of one create
    Remover, \* the calls of Cleanup
    UUID,
    UUIDOf,  \* the uuid of each call
    NoVM

VARIABLES
    account, \* whose password the user named by the uuid has
    status   \* how far each call has got

accountVars == <<account, status>>

Init ==
    /\ account = [u \in UUID |-> NoVM]
    /\ status = [p \in Request \cup Remover |-> "called"]

\* The new password is in force; the call is not answered yet.
Configure(r) ==
    /\ status[r] = "called"
    /\ account' = [account EXCEPT ![UUIDOf[r]] = r]
    /\ status' = [status EXCEPT ![r] = "effective"]

\* Several calls may be satisfied by the same removal, and one that finds no user
\* is answered at once.
Clean(u, S) ==
    /\ S # {}
    /\ \A p \in S : status[p] = "called" /\ UUIDOf[p] = u
    /\ account' = [account EXCEPT ![u] = NoVM]
    /\ \E outcome \in [S -> {"effective", "answered"}] :
        status' = [p \in DOMAIN status |-> IF p \in S THEN outcome[p] ELSE status[p]]

\* An error may be returned with or without effect, an answer with effect only.
Return(p) ==
    /\ \/ status[p] = "called" /\ status' = [status EXCEPT ![p] = "failed"]
       \/ status[p] = "effective"
          /\ status' \in {[status EXCEPT ![p] = s] : s \in {"answered", "failed"}}
    /\ UNCHANGED account

Next ==
    \/ \E r \in Request : Configure(r)
    \/ \E u \in UUID, S \in SUBSET Remover : Clean(u, S)
    \/ \E p \in Request \cup Remover : Return(p)

Spec == Init /\ [][Next]_accountVars

=============================================================================
