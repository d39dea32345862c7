---------------------------- MODULE GuacamoleDB ----------------------------
(***************************************************************************)
(* Configure and Cleanup of pkg/guacamole/config.go as transactions on the *)
(* tables of the Guacamole database (database.md).  Each call reads the    *)
(* entity of its uuid without a lock (Find) and then writes.  From its     *)
(* first write on a transaction holds the rows of the uuid until it        *)
(* commits, so that its writes are one step; what it found before may be   *)
(* gone by then.                                                           *)
(*                                                                         *)
(* A call inserts at most one entity and one connection; the request is    *)
(* used as the id of both.                                                 *)
(***************************************************************************)
EXTENDS FiniteSets

CONSTANTS
    Request,  \* the calls of Configure, each of one create
    Remover,  \* the calls of Cleanup
    UUID,
    UUIDOf,   \* the uuid of each call
    NoEntity, NoVM

ASSUME GuacamoleAssumption ==
    /\ UUIDOf \in [Request \cup Remover -> UUID]
    /\ Request \cap Remover = {}
    /\ NoEntity \notin Request
    /\ NoVM \notin Request

VARIABLES
    entity,     \* guacamole_entity: the id under each name (UNIQUE)
    user,       \* guacamole_user: whose password the user of each entity has
    connection, \* guacamole_connection with its parameters: those of which creates
    permission, \* guacamole_connection_permission: <<entity, connection>>
    pc,         \* the next step of each call
    found       \* the entity a call has read

tables == <<entity, user, connection, permission>>
guacVars == <<tables, pc, found>>

Proc == Request \cup Remover

Init ==
    /\ entity = [u \in UUID |-> NoEntity]
    /\ user = [e \in Request |-> NoVM]
    /\ connection = {}
    /\ permission = {}
    /\ pc = [p \in Proc |-> "find"]
    /\ found = [p \in Proc |-> NoEntity]

Goto(p, l) == pc' = [pc EXCEPT ![p] = l]

\* SELECT entity_id: Cleanup has nothing to do without an entity.
Find(p) ==
    /\ pc[p] = "find"
    /\ found' = [found EXCEPT ![p] = entity[UUIDOf[p]]]
    /\ Goto(p, IF p \in Remover /\ found'[p] = NoEntity THEN "done" ELSE "write")
    /\ UNCHANGED tables

-----------------------------------------------------------------------------
(* Configure.                                                              *)

\* Faulty: a user that exists already is taken to have its connection.
ConfigureNewUsersOnly(r) ==
    LET u == UUIDOf[r]
        e == IF found[r] = NoEntity THEN r ELSE found[r] IN
    /\ pc[r] = "write"
    /\ entity[u] = found[r]
    /\ entity' = [entity EXCEPT ![u] = e]
    /\ user' = [user EXCEPT ![e] = r]
    /\ IF found[r] = NoEntity
       THEN connection' = connection \cup {r} /\ permission' = permission \cup {<<e, r>>}
       ELSE UNCHANGED <<connection, permission>>
    /\ Goto(r, "committed")
    /\ UNCHANGED found

\* The writes succeed only if the entity is still what was found: a new one under a
\* name that has appeared breaks the unique key, a user of one that is gone breaks
\* the foreign key.  The user of an entity is inserted or gets the new password; the
\* name of a connection is not unique, so that a new one is inserted every time.
ConfigureWrite(r) ==
    LET u == UUIDOf[r]
        e == IF found[r] = NoEntity THEN r ELSE found[r] IN
    /\ pc[r] = "write"
    /\ entity[u] = found[r]
    /\ entity' = [entity EXCEPT ![u] = e]
    /\ user' = [user EXCEPT ![e] = r]
    /\ connection' = connection \cup {r}
    /\ permission' = permission \cup {<<e, r>>}
    /\ Goto(r, "committed")
    /\ UNCHANGED found

-----------------------------------------------------------------------------
(* Cleanup.                                                                *)

\* ON DELETE CASCADE from guacamole_entity.
Cascade(e) ==
    /\ entity' = [u \in UUID |-> IF entity[u] = e THEN NoEntity ELSE entity[u]]
    /\ user' = [user EXCEPT ![e] = NoVM]
    /\ permission' = {g \in permission : g[1] # e}

\* The connections of u that nobody may read.
Orphans(u, granted) == {c \in connection : UUIDOf[c] = u /\ \A g \in granted : g[2] # c}

\* Faulty: the connections are looked through before the entity is deleted.
CleanupConnectionsFirst(p) ==
    /\ pc[p] = "write"
    /\ connection' = connection \ Orphans(UUIDOf[p], permission)
    /\ Cascade(found[p])
    /\ Goto(p, "committed")
    /\ UNCHANGED found

\* The entity that was found, with its user and permissions, and then the
\* connections that are left without a reader.
CleanupWrite(p) ==
    /\ pc[p] = "write"
    /\ Cascade(found[p])
    /\ connection' = connection \ Orphans(UUIDOf[p], permission')
    /\ Goto(p, "committed")
    /\ UNCHANGED found

-----------------------------------------------------------------------------

\* Any statement may fail, and what was written is rolled back.
Rollback(p) ==
    /\ pc[p] \in {"find", "write"}
    /\ Goto(p, "failed")
    /\ UNCHANGED <<tables, found>>

\* Faulty: an error of a statement is logged and the password returned.
ReturnAnyway(p) ==
    /\ pc[p] \in {"write", "committed"}
    /\ Goto(p, "done")
    /\ UNCHANGED <<tables, found>>

\* The commit is answered, or its answer is lost and counts as an error.
Return(p) ==
    /\ pc[p] = "committed"
    /\ Goto(p, "done") \/ Goto(p, "failed")
    /\ UNCHANGED <<tables, found>>

Next ==
    \/ \E p \in Proc : Find(p) \/ Rollback(p) \/ Return(p)
    \/ \E r \in Request : ConfigureWrite(r)
    \/ \E p \in Remover : CleanupWrite(p)

Spec == Init /\ [][Next]_guacVars

-----------------------------------------------------------------------------
(* Properties.                                                             *)

\* A login with the password of a create gives access to the connection to its VM,
\* and to connections of that uuid only: a user and a permission are never left from
\* another call than the connection (Configure on a user that exists, Cleanup that
\* runs beside it).
LoginReachesItsVM ==
    \A u \in UUID : entity[u] # NoEntity =>
        LET mine == {g[2] : g \in {h \in permission : h[1] = entity[u]}} IN
        /\ user[entity[u]] \in mine \cap connection
        /\ \A c \in mine : UUIDOf[c] = u

\* No connection, and with it no private key, stays in the database without a user
\* who may read it: Cleanup deletes all that repeated Configures have inserted.
NothingLeftBehind ==
    \A c \in connection : \E g \in permission : g[2] = c /\ entity[UUIDOf[c]] = g[1]

\* The five tables behave as one password for each uuid that is set and erased in an
\* instant: an answered Configure has set it, an answered Cleanup has erased what was
\* there at some moment of the call.  A Cleanup whose entity has been deleted by
\* another one is satisfied from then on.
StatusOf(p) ==
    CASE pc[p] = "find"      -> "called"
      [] pc[p] = "write"     -> IF p \in Remover /\ entity[UUIDOf[p]] # found[p]
                                THEN "effective" ELSE "called"
      [] pc[p] = "committed" -> "effective"
      [] pc[p] = "done"      -> "answered"
      [] pc[p] = "failed"    -> "failed"

PasswordOf(u) == IF entity[u] = NoEntity THEN NoVM ELSE user[entity[u]]

Account == INSTANCE GuacAccount
    WITH account <- [u \in UUID |-> PasswordOf(u)],
         status <- [p \in Proc |-> StatusOf(p)]

ImplementsAccount == Account!Spec

=============================================================================
