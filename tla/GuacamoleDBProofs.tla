------------------------- MODULE GuacamoleDBProofs -------------------------
(* Theorems about GuacamoleDB, for every number of creates, cleanups and    *)
(* uuids.                                                                   *)
EXTENDS GuacamoleDB, TLAPS

-----------------------------------------------------------------------------
(* The invariant of the tables.                                            *)

Typed ==
    /\ entity \in [UUID -> Request \cup {NoEntity}]
    /\ user \in [Request -> Request \cup {NoVM}]
    /\ connection \subseteq Request
    /\ permission \subseteq Request \X Request
    /\ pc \in [Proc -> {"find", "write", "committed", "done", "failed"}]
    /\ found \in [Proc -> Request \cup {NoEntity}]

\* The calls of Configure that have inserted their rows.
Written == {r \in Request : pc[r] \notin {"find", "write"}}

\* An id is in use only under the uuid of the call that inserted it, and no call has
\* found an entity of another uuid.
IdsAreOwn ==
    /\ \A u \in UUID : entity[u] # NoEntity => entity[u] \in Written /\ UUIDOf[entity[u]] = u
    /\ \A p \in Proc : found[p] # NoEntity =>
           found[p] \in Written /\ UUIDOf[found[p]] = UUIDOf[p]
    /\ connection \subseteq Written

\* A permission connects the entity of a uuid with a connection of it.
GrantsAreOwn ==
    \A e, c \in Request : <<e, c>> \in permission =>
        c \in connection /\ entity[UUIDOf[c]] = e

\* An entity has the user of a create and the permission for its connection.
UsersAreWhole ==
    \A u \in UUID : entity[u] # NoEntity =>
        user[entity[u]] \in Request /\ <<entity[u], user[entity[u]]>> \in permission

\* A connection has the permission that its own transaction granted.
ConnectionsAreGranted ==
    \A c \in connection : entity[UUIDOf[c]] \in Request
                          /\ <<entity[UUIDOf[c]], c>> \in permission

\* A Cleanup goes on only with an entity.
HoldsEntity == \A p \in Remover : pc[p] = "write" => found[p] # NoEntity

TablesInv ==
    /\ Typed
    /\ IdsAreOwn
    /\ GrantsAreOwn
    /\ UsersAreWhole
    /\ ConnectionsAreGranted
    /\ HoldsEntity

LEMMA TablesInit == Init => TablesInv
BY GuacamoleAssumption
   DEF Init, TablesInv, Typed, IdsAreOwn, GrantsAreOwn, UsersAreWhole,
       ConnectionsAreGranted, HoldsEntity, Proc, Written

\* A step that leaves the tables alone keeps what they hold.
LEMMA TablesUnchanged ==
    ASSUME TablesInv, UNCHANGED <<tables, found>>, NEW p \in Proc,
           NEW l \in {"done", "failed"}, Goto(p, l)
    PROVE  TablesInv'
<1>1. pc' = [pc EXCEPT ![p] = l]
  BY DEF Goto
<1>2. Typed'
  BY <1>1 DEF TablesInv, Typed, tables
<1>3. Written \subseteq Written'
  BY <1>1 DEF TablesInv, Typed, Written, Proc
<1>4. IdsAreOwn'
  BY <1>3 DEF TablesInv, IdsAreOwn, tables
<1>5. HoldsEntity'
  BY <1>1, GuacamoleAssumption DEF TablesInv, Typed, HoldsEntity, Proc
<1> QED
  BY <1>2, <1>4, <1>5 DEF TablesInv, GrantsAreOwn, UsersAreWhole, ConnectionsAreGranted, tables

LEMMA FindKeepsTables ==
    ASSUME TablesInv, NEW p \in Proc, Find(p)
    PROVE  TablesInv'
<1>1. UUIDOf[p] \in UUID
  BY GuacamoleAssumption DEF Proc
<1>2. found' = [found EXCEPT ![p] = entity[UUIDOf[p]]] /\ UNCHANGED tables
  BY DEF Find
<1>3. PICK l \in {"done", "write"} : pc' = [pc EXCEPT ![p] = l]
  BY DEF Find, Goto
<1>4. Typed'
  BY <1>1, <1>2, <1>3 DEF TablesInv, Typed, tables
<1>5. Written \subseteq Written'
  BY <1>3 DEF Find, TablesInv, Typed, Written, Proc
<1>6. IdsAreOwn'
  <2>1. ASSUME NEW q \in Proc, found'[q] # NoEntity
        PROVE  found'[q] \in Written' /\ UUIDOf[found'[q]] = UUIDOf[q]
    BY <1>1, <1>2, <1>5, <2>1 DEF TablesInv, Typed, IdsAreOwn
  <2> QED
    BY <1>2, <1>5, <2>1 DEF TablesInv, IdsAreOwn, tables
<1>7. HoldsEntity'
  <2>1. ASSUME NEW q \in Remover, pc'[q] = "write" PROVE found'[q] # NoEntity
    <3>1. q \in Proc
      BY DEF Proc
    <3>2. CASE q = p
      BY <1>2, <2>1, <3>1, <3>2 DEF Find, Goto, TablesInv, Typed
    <3>3. CASE q # p
      BY <1>2, <1>3, <2>1, <3>1, <3>3 DEF TablesInv, Typed, HoldsEntity
    <3> QED
      BY <3>2, <3>3
  <2> QED
    BY <2>1 DEF HoldsEntity
<1> QED
  BY <1>2, <1>4, <1>6, <1>7
     DEF TablesInv, GrantsAreOwn, UsersAreWhole, ConnectionsAreGranted, tables

\* Configure: the id is that of the entity found or a fresh one.
LEMMA ConfigureKeepsTables ==
    ASSUME TablesInv, NEW r \in Request, ConfigureWrite(r)
    PROVE  TablesInv'
<1> DEFINE u == UUIDOf[r]
           e == IF found[r] = NoEntity THEN r ELSE found[r]
<1>1. u \in UUID /\ r \in Proc
  BY GuacamoleAssumption DEF Proc
<1>2. /\ entity[u] = found[r]
      /\ entity' = [entity EXCEPT ![u] = e]
      /\ user' = [user EXCEPT ![e] = r]
      /\ connection' = connection \cup {r}
      /\ permission' = permission \cup {<<e, r>>}
      /\ pc' = [pc EXCEPT ![r] = "committed"]
      /\ found' = found
  BY DEF ConfigureWrite, Goto
<1>3. e \in Request /\ UUIDOf[e] = u /\ r \notin Written
  BY <1>1 DEF ConfigureWrite, TablesInv, Typed, IdsAreOwn, Written
<1>4. Written' = Written \cup {r}
  BY <1>1, <1>2 DEF TablesInv, Typed, Written
<1>5. e \in Written' /\ e # NoEntity
  BY <1>1, <1>3, <1>4, GuacamoleAssumption DEF TablesInv, IdsAreOwn
<1>6. \A v \in UUID \ {u} : entity'[v] = entity[v] /\ entity[v] # e
  <2>1. ASSUME NEW v \in UUID \ {u}, entity[v] = e PROVE FALSE
    BY <1>3, <1>5, <2>1 DEF TablesInv, IdsAreOwn
  <2> QED
    BY <1>1, <1>2, <2>1 DEF TablesInv, Typed
<1>7. entity'[u] = e
  BY <1>1, <1>2 DEF TablesInv, Typed
<1> HIDE DEF u, e
<1>8. Typed'
  BY <1>1, <1>2, <1>3 DEF TablesInv, Typed
<1>9. IdsAreOwn'
  BY <1>2, <1>3, <1>4, <1>5, <1>6, <1>7 DEF TablesInv, IdsAreOwn
<1>10. \A c \in connection : entity'[UUIDOf[c]] = entity[UUIDOf[c]]
  <2>1. ASSUME NEW c \in connection PROVE entity'[UUIDOf[c]] = entity[UUIDOf[c]]
    <3>1. UUIDOf[c] \in UUID /\ entity[UUIDOf[c]] \in Request
      BY GuacamoleAssumption DEF TablesInv, Typed, ConnectionsAreGranted
    <3>2. CASE UUIDOf[c] = u
      <4>1. found[r] # NoEntity
        BY <1>2, <3>1, <3>2, GuacamoleAssumption
      <4> QED
        BY <1>2, <1>7, <3>2, <4>1 DEF e
    <3> QED
      BY <1>6, <3>1, <3>2
  <2> QED
    BY <2>1
<1>11. GrantsAreOwn'
  BY <1>2, <1>3, <1>7, <1>10 DEF TablesInv, GrantsAreOwn, u
<1>12. UsersAreWhole'
  <2>1. ASSUME NEW v \in UUID, entity'[v] # NoEntity
        PROVE  user'[entity'[v]] \in Request
               /\ <<entity'[v], user'[entity'[v]]>> \in permission'
    <3>1. CASE v = u
      BY <1>2, <1>3, <1>7, <3>1 DEF TablesInv, Typed
    <3>2. CASE v # u
      <4>1. entity'[v] = entity[v] /\ user'[entity[v]] = user[entity[v]]
        BY <1>2, <1>6, <3>2, <2>1 DEF TablesInv, Typed
      <4> QED
        BY <1>2, <2>1, <4>1 DEF TablesInv, UsersAreWhole
    <3> QED
      BY <3>1, <3>2
  <2> QED
    BY <2>1 DEF UsersAreWhole
<1>13. ConnectionsAreGranted'
  BY <1>2, <1>3, <1>7, <1>10 DEF TablesInv, ConnectionsAreGranted, u
<1>14. HoldsEntity'
  BY <1>1, <1>2 DEF TablesInv, Typed, HoldsEntity
<1> QED
  BY <1>8, <1>9, <1>11, <1>12, <1>13, <1>14 DEF TablesInv

\* Cleanup: what the cascade takes is of the uuid of the call, and so are the
\* connections that lose their reader.
LEMMA CleanupKeepsTables ==
    ASSUME TablesInv, NEW p \in Remover, CleanupWrite(p)
    PROVE  TablesInv'
<1> DEFINE u == UUIDOf[p]
           e == found[p]
<1>1. u \in UUID /\ p \in Proc /\ p \notin Request
  BY GuacamoleAssumption DEF Proc
<1>2. /\ entity' = [v \in UUID |-> IF entity[v] = e THEN NoEntity ELSE entity[v]]
      /\ user' = [user EXCEPT ![e] = NoVM]
      /\ permission' = {g \in permission : g[1] # e}
      /\ connection' = connection \ Orphans(u, permission')
      /\ pc' = [pc EXCEPT ![p] = "committed"]
      /\ found' = found
  BY DEF CleanupWrite, Cascade, Goto
<1> HIDE DEF e
<1>3. Typed'
  BY <1>1, <1>2 DEF TablesInv, Typed, e
<1>4. Written' = Written
  BY <1>1, <1>2 DEF TablesInv, Typed, Written, Proc
<1>5. IdsAreOwn'
  BY <1>2, <1>4 DEF TablesInv, IdsAreOwn
<1>6. \A d, c \in Request : <<d, c>> \in permission' =>
          <<d, c>> \in permission /\ d # e /\ c \in connection' /\ entity'[UUIDOf[c]] = d
  <2> SUFFICES ASSUME NEW d \in Request, NEW c \in Request, <<d, c>> \in permission'
               PROVE  <<d, c>> \in permission /\ d # e /\ c \in connection'
                      /\ entity'[UUIDOf[c]] = d
    OBVIOUS
  <2>1. <<d, c>> \in permission /\ d # e
    BY <1>2
  <2>2. c \in connection /\ entity[UUIDOf[c]] = d
    BY <2>1 DEF TablesInv, GrantsAreOwn
  <2>3. c \notin Orphans(u, permission')
    BY DEF Orphans
  <2>4. UUIDOf[c] \in UUID
    BY GuacamoleAssumption
  <2> QED
    BY <1>2, <2>1, <2>2, <2>3, <2>4
<1>7. GrantsAreOwn'
  BY <1>6 DEF GrantsAreOwn
<1>8. UsersAreWhole'
  <2>1. ASSUME NEW v \in UUID, entity'[v] # NoEntity
        PROVE  user'[entity'[v]] \in Request
               /\ <<entity'[v], user'[entity'[v]]>> \in permission'
    <3>1. entity'[v] = entity[v] /\ entity[v] # e
      BY <1>2, <2>1
    <3>2. user'[entity[v]] = user[entity[v]]
      BY <1>2, <2>1, <3>1 DEF TablesInv, Typed
    <3>3. <<entity[v], user[entity[v]]>> \in permission /\ user[entity[v]] \in Request
      BY <2>1, <3>1 DEF TablesInv, UsersAreWhole
    <3> QED
      BY <1>2, <3>1, <3>2, <3>3
  <2> QED
    BY <2>1 DEF UsersAreWhole
<1>9. ConnectionsAreGranted'
  <2>1. ASSUME NEW c \in connection'
        PROVE  entity'[UUIDOf[c]] \in Request /\ <<entity'[UUIDOf[c]], c>> \in permission'
    <3> DEFINE d == entity[UUIDOf[c]]
    <3>1. c \in connection /\ c \in Request /\ c \notin Orphans(u, permission')
      BY <1>2, <2>1 DEF TablesInv, Typed
    <3>2. d \in Request /\ <<d, c>> \in permission /\ UUIDOf[c] \in UUID
      BY <3>1, GuacamoleAssumption DEF TablesInv, ConnectionsAreGranted
    <3>3. d # e
      <4>1. SUFFICES ASSUME d = e PROVE FALSE
        OBVIOUS
      <4>2. UUIDOf[d] = UUIDOf[c] /\ UUIDOf[e] = u
        BY <1>1, <3>2, <4>1, GuacamoleAssumption DEF TablesInv, IdsAreOwn, e
      <4>3. PICK g \in permission' : g[2] = c
        BY <3>1, <4>1, <4>2 DEF Orphans
      <4>4. g \in permission /\ g[1] # e /\ g = <<g[1], g[2]>> /\ g[1] \in Request
        BY <1>2, <4>3 DEF TablesInv, Typed
      <4>5. <<g[1], c>> \in permission
        BY <4>3, <4>4
      <4>6. entity[UUIDOf[c]] = g[1]
        BY <3>1, <4>4, <4>5 DEF TablesInv, GrantsAreOwn
      <4> QED
        BY <4>1, <4>4, <4>6
    <3> QED
      BY <1>2, <3>2, <3>3
  <2> QED
    BY <2>1 DEF ConnectionsAreGranted
<1>10. HoldsEntity'
  BY <1>1, <1>2 DEF TablesInv, Typed, HoldsEntity
<1> QED
  BY <1>3, <1>5, <1>7, <1>8, <1>9, <1>10 DEF TablesInv

LEMMA TablesStep == TablesInv /\ [Next]_guacVars => TablesInv'
<1> SUFFICES ASSUME TablesInv, [Next]_guacVars PROVE TablesInv'
  OBVIOUS
<1>1. CASE UNCHANGED guacVars
  BY <1>1 DEF guacVars, tables, TablesInv, Typed, IdsAreOwn, GrantsAreOwn,
              UsersAreWhole, ConnectionsAreGranted, HoldsEntity, Written
<1>2. ASSUME NEW p \in Proc, Rollback(p) \/ Return(p) PROVE TablesInv'
  BY <1>2, TablesUnchanged DEF Rollback, Return
<1> QED
  BY <1>1, <1>2, FindKeepsTables, ConfigureKeepsTables, CleanupKeepsTables DEF Next

LEMMA TablesAlways == Spec => []TablesInv
BY TablesInit, TablesStep, PTL DEF Spec

-----------------------------------------------------------------------------
(* The promises of the tables.                                             *)

\* A login reaches the connection of the create whose password it uses, and no
\* connection of another uuid.
THEOREM LoginsReachTheirVM == Spec => []LoginReachesItsVM
<1>1. ASSUME TablesInv PROVE LoginReachesItsVM
  <2> SUFFICES ASSUME NEW u \in UUID, entity[u] # NoEntity
               PROVE  LET mine == {g[2] : g \in {h \in permission : h[1] = entity[u]}} IN
                      /\ user[entity[u]] \in mine \cap connection
                      /\ \A c \in mine : UUIDOf[c] = u
    BY DEF LoginReachesItsVM
  <2> DEFINE mine == {g[2] : g \in {h \in permission : h[1] = entity[u]}}
  <2>1. entity[u] \in Request /\ user[entity[u]] \in Request
        /\ <<entity[u], user[entity[u]]>> \in permission
    BY <1>1 DEF TablesInv, Typed, UsersAreWhole
  <2>2. user[entity[u]] \in mine
    BY <2>1
  <2>3. user[entity[u]] \in connection
    BY <1>1, <2>1 DEF TablesInv, GrantsAreOwn
  <2>4. ASSUME NEW c \in mine PROVE UUIDOf[c] = u
    <3>1. PICK g \in permission : g[1] = entity[u] /\ g[2] = c
      BY <2>4
    <3>2. g = <<entity[u], c>> /\ c \in Request
      BY <1>1, <3>1 DEF TablesInv, Typed
    <3>3. entity[UUIDOf[c]] = entity[u] /\ UUIDOf[c] \in UUID
      BY <1>1, <2>1, <3>2, GuacamoleAssumption DEF TablesInv, GrantsAreOwn
    <3> QED
      BY <1>1, <3>3 DEF TablesInv, IdsAreOwn
  <2> QED
    BY <2>2, <2>3, <2>4
<1> QED
  BY <1>1, TablesAlways, PTL

\* No connection outlives the user who may read it: Cleanup leaves no private key.
THEOREM NothingStays == Spec => []NothingLeftBehind
<1>1. ASSUME TablesInv PROVE NothingLeftBehind
  <2>1. ASSUME NEW c \in connection
        PROVE  \E g \in permission : g[2] = c /\ entity[UUIDOf[c]] = g[1]
    <3> DEFINE g == <<entity[UUIDOf[c]], c>>
    <3>1. g \in permission /\ g[2] = c /\ g[1] = entity[UUIDOf[c]]
      BY <1>1 DEF TablesInv, ConnectionsAreGranted
    <3> QED
      BY <3>1
  <2> QED
    BY <2>1 DEF NothingLeftBehind
<1> QED
  BY <1>1, TablesAlways, PTL

-----------------------------------------------------------------------------
(* The tables implement GuacAccount.                                       *)

accountOf == [u \in UUID |-> PasswordOf(u)]
statusOf == [p \in Proc |-> StatusOf(p)]

LEMMA AccountInit == Init => Account!Init
BY GuacamoleAssumption DEF Init, Account!Init, PasswordOf, StatusOf, Proc

\* A step that leaves entities and users alone moves the call itself only.
LEMMA OwnStatus ==
    ASSUME TablesInv, NEW p \in Proc, UNCHANGED <<entity, user>>, NEW l,
           pc' = [pc EXCEPT ![p] = l],
           found' = found \/ found' = [found EXCEPT ![p] = entity[UUIDOf[p]]]
    PROVE  /\ accountOf' = accountOf
           /\ statusOf' = [statusOf EXCEPT ![p] = StatusOf(p)']
<1>1. accountOf' = accountOf
  BY DEF accountOf, PasswordOf
<1>2. \A q \in Proc \ {p} : pc'[q] = pc[q] /\ found'[q] = found[q]
  BY DEF TablesInv, Typed
<1>3. \A q \in Proc \ {p} : StatusOf(q)' = StatusOf(q)
  BY <1>2 DEF StatusOf
<1> QED
  BY <1>1, <1>3 DEF statusOf

\* A call that ends is answered if it has had its effect, and fails with or without.
LEMMA ReturnImplements ==
    ASSUME TablesInv, NEW p \in Proc, Rollback(p) \/ Return(p)
    PROVE  Account!Return(p)
<1>1. PICK l \in {"done", "failed"} :
         /\ pc' = [pc EXCEPT ![p] = l]
         /\ l = "done" => pc[p] = "committed"
         /\ pc[p] \in {"find", "write", "committed"}
  BY DEF Rollback, Return, Goto
<1>2. UNCHANGED <<tables, found>>
  BY DEF Rollback, Return
<1>3. accountOf' = accountOf /\ statusOf' = [statusOf EXCEPT ![p] = StatusOf(p)']
  BY <1>1, <1>2, OwnStatus DEF tables
<1>4. pc'[p] = l
  BY <1>1 DEF TablesInv, Typed
<1>5. StatusOf(p)' = IF l = "done" THEN "answered" ELSE "failed"
  BY <1>4 DEF StatusOf
<1>6. statusOf[p] \in {"called", "effective"}
      /\ (pc[p] = "committed" => statusOf[p] = "effective")
  BY <1>1 DEF statusOf, StatusOf
<1> QED
  BY <1>1, <1>3, <1>5, <1>6 DEF Account!Return, accountOf, statusOf, Proc

\* A Cleanup that finds no entity is answered: there is no password to erase.
LEMMA FindImplements ==
    ASSUME TablesInv, NEW p \in Proc, Find(p)
    PROVE  Account!Next \/ UNCHANGED Account!accountVars
<1> DEFINE u == UUIDOf[p]
<1>1. u \in UUID
  BY GuacamoleAssumption DEF Proc
<1>2. /\ found' = [found EXCEPT ![p] = entity[u]] /\ UNCHANGED tables
      /\ pc[p] = "find"
  BY DEF Find
<1>3. found'[p] = entity[u]
  BY <1>2 DEF TablesInv, Typed
<1>4. pc' = [pc EXCEPT ![p] = IF p \in Remover /\ entity[u] = NoEntity THEN "done" ELSE "write"]
  BY <1>3 DEF Find, Goto
<1>5. accountOf' = accountOf /\ statusOf' = [statusOf EXCEPT ![p] = StatusOf(p)']
  BY <1>2, <1>4, OwnStatus DEF tables
<1>6. statusOf[p] = "called"
  BY <1>2 DEF statusOf, StatusOf
<1>7. CASE p \in Remover /\ entity[u] = NoEntity
  <2>1. StatusOf(p)' = "answered"
    BY <1>4, <1>7 DEF StatusOf, TablesInv, Typed
  <2>2. accountOf' = [accountOf EXCEPT ![u] = NoVM]
    BY <1>1, <1>5, <1>7 DEF accountOf, PasswordOf
  <2>3. Account!Clean(u, {p})
    <3> DEFINE o == [q \in {p} |-> "answered"]
    <3>1. o \in [{p} -> {"effective", "answered"}]
      OBVIOUS
    <3>2. statusOf' = [q \in DOMAIN statusOf |-> IF q \in {p} THEN o[q] ELSE statusOf[q]]
      BY <1>5, <2>1 DEF statusOf
    <3> QED
      BY <1>6, <2>2, <3>1, <3>2 DEF Account!Clean, accountOf, statusOf
  <2> QED
    BY <1>1, <1>7, <2>3 DEF Account!Next
<1>8. CASE ~(p \in Remover /\ entity[u] = NoEntity)
  <2>1. pc'[p] = "write" /\ entity'[u] = found'[p]
    BY <1>2, <1>3, <1>4, <1>8 DEF TablesInv, Typed, tables
  <2>2. StatusOf(p)' = "called"
    BY <2>1 DEF StatusOf
  <2>3. statusOf' = statusOf
    BY <1>5, <1>6, <2>2 DEF statusOf
  <2> QED
    BY <1>5, <2>3 DEF Account!accountVars, accountOf, statusOf
<1> QED
  BY <1>7, <1>8

\* The commit of Configure puts its password in force.
LEMMA ConfigureImplements ==
    ASSUME TablesInv, NEW r \in Request, ConfigureWrite(r)
    PROVE  Account!Configure(r)
<1> DEFINE u == UUIDOf[r]
           e == IF found[r] = NoEntity THEN r ELSE found[r]
<1>1. u \in UUID /\ r \in Proc /\ r \notin Remover
  BY GuacamoleAssumption DEF Proc
<1>2. /\ entity[u] = found[r] /\ pc[r] = "write"
      /\ entity' = [entity EXCEPT ![u] = e]
      /\ user' = [user EXCEPT ![e] = r]
      /\ pc' = [pc EXCEPT ![r] = "committed"]
      /\ found' = found
  BY DEF ConfigureWrite, Goto
<1>3. e \in Request /\ e # NoEntity /\ UUIDOf[e] = u /\ r \notin Written
  BY <1>1, <1>2, GuacamoleAssumption DEF TablesInv, Typed, IdsAreOwn, Written
<1>4. \A v \in UUID \ {u} : entity'[v] = entity[v] /\ entity[v] # e
  <2>1. ASSUME NEW v \in UUID \ {u}, entity[v] = e PROVE FALSE
    BY <1>3, <2>1 DEF TablesInv, IdsAreOwn
  <2> QED
    BY <1>1, <1>2, <2>1 DEF TablesInv, Typed
<1>5. entity'[u] = e /\ user'[e] = r
  BY <1>1, <1>2, <1>3 DEF TablesInv, Typed
<1>6. accountOf' = [accountOf EXCEPT ![u] = r]
  <2>1. PasswordOf(u)' = r
    BY <1>3, <1>5 DEF PasswordOf
  <2>2. ASSUME NEW v \in UUID \ {u} PROVE PasswordOf(v)' = PasswordOf(v)
    BY <1>2, <1>4 DEF PasswordOf, TablesInv, Typed
  <2> QED
    BY <1>1, <2>1, <2>2 DEF accountOf
<1>7. statusOf[r] = "called" /\ StatusOf(r)' = "effective"
  <2>1. pc'[r] = "committed"
    BY <1>1, <1>2 DEF TablesInv, Typed
  <2> QED
    BY <1>1, <1>2, <2>1 DEF statusOf, StatusOf
<1>8. ASSUME NEW q \in Proc \ {r} PROVE StatusOf(q)' = StatusOf(q)
  <2>1. pc'[q] = pc[q] /\ found'[q] = found[q]
    BY <1>2 DEF TablesInv, Typed
  <2>2. CASE UUIDOf[q] = u /\ found[r] = NoEntity /\ pc[q] = "write"
    <3>1. e = r /\ found[q] # r
      BY <1>3, <2>2, GuacamoleAssumption DEF TablesInv, IdsAreOwn
    <3>2. entity'[u] # found[q] /\ (entity[u] = found[q] => found[q] = NoEntity)
      BY <1>2, <1>5, <2>2, <3>1
    <3>3. q \in Remover => found[q] # NoEntity
      BY <2>2 DEF TablesInv, HoldsEntity
    <3> QED
      BY <2>1, <2>2, <3>2, <3>3 DEF StatusOf
  <2>3. CASE UUIDOf[q] = u /\ found[r] # NoEntity
    <3>1. entity'[u] = entity[u]
      BY <1>2, <1>5, <2>3
    <3> QED
      BY <2>1, <2>3, <3>1 DEF StatusOf
  <2>4. CASE UUIDOf[q] # u
    <3>1. UUIDOf[q] \in UUID
      BY GuacamoleAssumption DEF Proc
    <3>2. entity'[UUIDOf[q]] = entity[UUIDOf[q]]
      BY <1>4, <2>4, <3>1
    <3> QED
      BY <2>1, <3>2 DEF StatusOf
  <2>5. CASE pc[q] # "write"
    BY <2>1, <2>5 DEF StatusOf
  <2> QED
    BY <2>2, <2>3, <2>4, <2>5
<1>9. statusOf' = [statusOf EXCEPT ![r] = "effective"]
  BY <1>1, <1>7, <1>8 DEF statusOf
<1> QED
  BY <1>6, <1>7, <1>9 DEF Account!Configure, accountOf, statusOf

\* The commit of Cleanup erases the password, for itself and for the other cleanups
\* that have found the same entity; if one of these came first it changes nothing.
LEMMA CleanupImplements ==
    ASSUME TablesInv, NEW p \in Remover, CleanupWrite(p)
    PROVE  Account!Next \/ UNCHANGED Account!accountVars
<1> DEFINE u == UUIDOf[p]
           e == found[p]
           S == {q \in Remover : pc[q] = "write" /\ UUIDOf[q] = u /\ found[q] = e}
<1>1. u \in UUID /\ p \in Proc /\ Remover \subseteq Proc
  BY GuacamoleAssumption DEF Proc
<1>2. /\ entity' = [v \in UUID |-> IF entity[v] = e THEN NoEntity ELSE entity[v]]
      /\ user' = [user EXCEPT ![e] = NoVM]
      /\ pc' = [pc EXCEPT ![p] = "committed"]
      /\ found' = found
      /\ pc[p] = "write"
  BY DEF CleanupWrite, Cascade, Goto
<1>3. e \in Request /\ e # NoEntity /\ UUIDOf[e] = u
  BY <1>1, <1>2, GuacamoleAssumption DEF TablesInv, Typed, IdsAreOwn, HoldsEntity
<1>4. \A v \in UUID \ {u} : entity'[v] = entity[v] /\ entity[v] # e
  <2>1. ASSUME NEW v \in UUID \ {u}, entity[v] = e PROVE FALSE
    BY <1>3, <2>1 DEF TablesInv, IdsAreOwn
  <2> QED
    BY <1>2, <2>1
<1>5. \A q \in Proc : found'[q] = found[q] /\ (q # p => pc'[q] = pc[q])
  BY <1>2 DEF TablesInv, Typed
<1>6. pc'[p] = "committed"
  BY <1>1, <1>2 DEF TablesInv, Typed
<1>7. StatusOf(p)' = "effective"
  BY <1>6 DEF StatusOf
<1>8. \A v \in UUID \ {u} : PasswordOf(v)' = PasswordOf(v)
  BY <1>2, <1>4 DEF PasswordOf, TablesInv, Typed
<1>9. CASE entity[u] = e
  <2>1. entity'[u] = NoEntity
    BY <1>1, <1>2, <1>9
  <2>2. accountOf' = [accountOf EXCEPT ![u] = NoVM]
    BY <1>1, <1>8, <2>1 DEF accountOf, PasswordOf
  <2>3. \A q \in S : StatusOf(q) = "called" /\ StatusOf(q)' = "effective"
    <3> SUFFICES ASSUME NEW q \in S PROVE StatusOf(q) = "called" /\ StatusOf(q)' = "effective"
      OBVIOUS
    <3>1. StatusOf(q) = "called"
      BY <1>9 DEF StatusOf
    <3>2. CASE q = p
      BY <1>7, <3>1, <3>2
    <3>3. CASE q # p
      BY <1>1, <1>3, <1>5, <2>1, <3>1, <3>3 DEF StatusOf
    <3> QED
      BY <3>2, <3>3
  <2>4. ASSUME NEW q \in Proc \ S PROVE StatusOf(q)' = StatusOf(q)
    <3>0. q # p /\ pc'[q] = pc[q] /\ found'[q] = found[q]
      BY <1>2, <1>5, <2>4
    <3>1. CASE q \in Remover /\ pc[q] = "write" /\ UUIDOf[q] = u
      <4>1. found[q] # e /\ found[q] # NoEntity
        BY <2>4, <3>1 DEF TablesInv, HoldsEntity
      <4> QED
        BY <1>9, <2>1, <3>0, <3>1, <4>1 DEF StatusOf
    <3>2. CASE q \in Remover /\ UUIDOf[q] # u
      <4>1. UUIDOf[q] \in UUID
        BY GuacamoleAssumption DEF Proc
      <4> QED
        BY <1>4, <3>0, <3>2, <4>1 DEF StatusOf
    <3>3. CASE q \notin Remover \/ pc[q] # "write"
      BY <3>0, <3>3 DEF StatusOf
    <3> QED
      BY <3>1, <3>2, <3>3
  <2>5. Account!Clean(u, S)
    <3> DEFINE o == [q \in S |-> "effective"]
    <3>1. p \in S /\ \A q \in S : statusOf[q] = "called" /\ UUIDOf[q] = u
      BY <1>1, <1>2, <2>3 DEF statusOf
    <3>2. o \in [S -> {"effective", "answered"}]
      OBVIOUS
    <3>3. statusOf' = [q \in DOMAIN statusOf |-> IF q \in S THEN o[q] ELSE statusOf[q]]
      BY <1>1, <2>3, <2>4 DEF statusOf
    <3> HIDE DEF S, o
    <3> QED
      BY <2>2, <3>1, <3>2, <3>3 DEF Account!Clean, accountOf, statusOf
  <2> QED
    BY <1>1, <2>5 DEF Account!Next
<1>10. CASE entity[u] # e
  <2>1. \A v \in UUID : entity'[v] = entity[v] /\ entity[v] # e
    BY <1>2, <1>4, <1>10
  <2>2. PasswordOf(u)' = PasswordOf(u)
    BY <1>1, <1>2, <2>1 DEF PasswordOf, TablesInv, Typed
  <2>3. accountOf' = accountOf
    BY <1>8, <2>2 DEF accountOf
  <2>4. StatusOf(p) = "effective"
    BY <1>2, <1>10 DEF StatusOf
  <2>5. ASSUME NEW q \in Proc, q # p PROVE StatusOf(q)' = StatusOf(q)
    <3>1. UUIDOf[q] \in UUID
      BY GuacamoleAssumption DEF Proc
    <3> QED
      BY <1>5, <2>1, <2>5, <3>1 DEF StatusOf
  <2>6. statusOf' = statusOf
    BY <1>7, <2>4, <2>5 DEF statusOf
  <2> QED
    BY <2>3, <2>6 DEF Account!accountVars, accountOf, statusOf
<1> QED
  BY <1>9, <1>10

LEMMA AccountStep ==
    TablesInv /\ [Next]_guacVars => [Account!Next]_Account!accountVars
<1> SUFFICES ASSUME TablesInv, [Next]_guacVars
             PROVE  Account!Next \/ UNCHANGED Account!accountVars
  OBVIOUS
<1>1. CASE UNCHANGED guacVars
  BY <1>1 DEF guacVars, tables, Account!accountVars, PasswordOf, StatusOf
<1>2. ASSUME NEW p \in Proc, Rollback(p) \/ Return(p) PROVE Account!Next
  BY <1>2, ReturnImplements DEF Account!Next, Proc
<1>3. ASSUME NEW r \in Request, ConfigureWrite(r) PROVE Account!Next
  BY <1>3, ConfigureImplements DEF Account!Next
<1> QED
  BY <1>1, <1>2, <1>3, FindImplements, CleanupImplements DEF Next

\* The transactions of Configure and Cleanup, with the read before them that holds no
\* lock, behave as one password for each uuid that is set and erased in an instant.
THEOREM TablesImplementAccount == Spec => ImplementsAccount
<1>1. Init => Account!Init
  BY AccountInit
<1> QED
  BY <1>1, TablesAlways, AccountStep, PTL DEF Spec, ImplementsAccount, Account!Spec

=============================================================================
