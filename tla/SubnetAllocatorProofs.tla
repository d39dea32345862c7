----------------------- MODULE SubnetAllocatorProofs -----------------------
(* Theorems about SubnetAllocator, for any number of creates and restarts  *)
(* and any largest octet.                                                  *)
EXTENDS SubnetAllocator, TLAPS

-----------------------------------------------------------------------------
(* The order of the subnets and FindSubnet.                                *)

\* A subnet is three octets, and octets are numbers.
LEMMA Octets ==
    ASSUME NEW s \in Subnet
    PROVE  /\ s = <<s[1], s[2], s[3]>>
           /\ s[1] \in Octet /\ s[2] \in Octet /\ s[3] \in Octet
           /\ s[1] \in Int /\ s[2] \in Int /\ s[3] \in Int
           /\ s # Err
BY SubnetAssumption DEF Subnet, Octet

\* FindSubnet returns a subnet or "err".
LEMMA FindSubnetType ==
    ASSUME NEW s \in Subnet
    PROVE  FindSubnet(s) \in Subnet \cup {Err}
BY Octets, SubnetAssumption DEF FindSubnet, Subnet, Octet

\* FindSubnet (pkg/network/network.go) returns the subnet that comes right after s:
\* the carries skip none, and "err" comes exactly after Top.Top.Top (255.255.255).
THEOREM FindSubnetIsNext ==
    ASSUME NEW s \in Subnet
    PROVE  /\ Before(s, FindSubnet(s))
           /\ \A t \in Subnet : Before(s, t) => AtMost(FindSubnet(s), t)
           /\ FindSubnet(s) = Err <=> s = <<Top, Top, Top>>
<1> DEFINE n == FindSubnet(s)
<1>1. /\ s[1] \in 0..Top /\ s[2] \in 0..Top /\ s[3] \in 0..Top
      /\ Top \in Nat /\ s # Err
  BY Octets, SubnetAssumption DEF Octet
<1>2. Before(s, n)
  BY <1>1, SubnetAssumption DEF Before, FindSubnet, Subnet, Octet
<1>3. ASSUME NEW t \in Subnet, Before(s, t) PROVE AtMost(n, t)
  <2>1. /\ t[1] \in 0..Top /\ t[2] \in 0..Top /\ t[3] \in 0..Top
        /\ t # Err /\ t = <<t[1], t[2], t[3]>>
    BY Octets DEF Octet
  <2>2. \/ s[1] < t[1]
        \/ s[1] = t[1] /\ s[2] < t[2]
        \/ s[1] = t[1] /\ s[2] = t[2] /\ s[3] < t[3]
    BY <1>3, <2>1 DEF Before
  <2>3. CASE s[3] < Top
    <3>1. n = <<s[1], s[2], s[3] + 1>> /\ n # Err
      BY <2>3, <1>2, <1>1, SubnetAssumption DEF FindSubnet, Subnet, Octet
    <3>2. CASE s[1] = t[1] /\ s[2] = t[2] /\ t[3] = s[3] + 1
      BY <2>1, <3>1, <3>2 DEF AtMost
    <3>3. CASE ~(s[1] = t[1] /\ s[2] = t[2] /\ t[3] = s[3] + 1)
      <4>1. \/ s[1] < t[1]
            \/ s[1] = t[1] /\ s[2] < t[2]
            \/ s[1] = t[1] /\ s[2] = t[2] /\ s[3] + 1 < t[3]
        BY <1>1, <2>1, <2>2, <3>3
      <4> QED
        BY <3>1, <4>1 DEF AtMost, Before
    <3> QED
      BY <3>2, <3>3
  <2>4. CASE s[3] = Top /\ s[2] < Top
    <3>1. n = <<s[1], s[2] + 1, 0>> /\ n # Err
      BY <2>4, <1>1, SubnetAssumption DEF FindSubnet, Subnet, Octet
    <3>2. CASE s[1] = t[1] /\ t[2] = s[2] + 1 /\ t[3] = 0
      BY <2>1, <3>1, <3>2 DEF AtMost
    <3>3. CASE ~(s[1] = t[1] /\ t[2] = s[2] + 1 /\ t[3] = 0)
      <4>1. \/ s[1] < t[1]
            \/ s[1] = t[1] /\ s[2] + 1 < t[2]
            \/ s[1] = t[1] /\ s[2] + 1 = t[2] /\ 0 < t[3]
        BY <1>1, <2>1, <2>2, <2>4, <3>3
      <4> QED
        BY <3>1, <4>1 DEF AtMost, Before
    <3> QED
      BY <3>2, <3>3
  <2>5. CASE s[3] = Top /\ s[2] = Top /\ s[1] < Top
    <3>1. n = <<s[1] + 1, 0, 0>> /\ n # Err
      BY <2>5, <1>1, SubnetAssumption DEF FindSubnet, Subnet, Octet
    <3>2. CASE t[1] = s[1] + 1 /\ t[2] = 0 /\ t[3] = 0
      BY <2>1, <3>1, <3>2 DEF AtMost
    <3>3. CASE ~(t[1] = s[1] + 1 /\ t[2] = 0 /\ t[3] = 0)
      <4>1. \/ s[1] + 1 < t[1]
            \/ s[1] + 1 = t[1] /\ 0 < t[2]
            \/ s[1] + 1 = t[1] /\ t[2] = 0 /\ 0 < t[3]
        BY <1>1, <2>1, <2>2, <2>5, <3>3
      <4> QED
        BY <3>1, <4>1 DEF AtMost, Before
    <3> QED
      BY <3>2, <3>3
  <2>6. CASE s[3] = Top /\ s[2] = Top /\ s[1] = Top
    BY <1>1, <2>1, <2>2, <2>6
  <2> QED
    BY <1>1, <2>3, <2>4, <2>5, <2>6
<1>4. n = Err <=> s = <<Top, Top, Top>>
  <2>1. s = <<s[1], s[2], s[3]>>
    BY Octets
  <2>2. CASE s[1] = Top /\ s[2] = Top /\ s[3] = Top
    BY <1>1, <2>1, <2>2 DEF FindSubnet
  <2>3. CASE ~(s[1] = Top /\ s[2] = Top /\ s[3] = Top)
    <3>1. n \in Subnet
      BY <1>1, <2>3 DEF FindSubnet, Subnet, Octet
    <3> QED
      BY <2>3, <3>1, Octets
  <2> QED
    BY <2>2, <2>3
<1> QED
  BY <1>2, <1>3, <1>4

\* What is at most s comes before what comes after s, and differs from it.
LEMMA BeforeChain ==
    ASSUME NEW s \in Subnet, NEW t \in Subnet, NEW n \in Subnet \cup {Err},
           AtMost(s, t), Before(t, n)
    PROVE  AtMost(s, n) /\ s # n
BY Octets DEF AtMost, Before

-----------------------------------------------------------------------------
(* Type correctness.                                                       *)

\* What one statement on the row does.
LEMMA RowStatement ==
    ASSUME TypeOK, NEW s \in Subnet \cup {Err}, NEW answered \in BOOLEAN,
           UpdateRow(s, answered)
    PROVE  /\ subnetRow' = subnetRow \/ subnetRow' = s
           /\ answered => subnetRow' = s
           /\ subnetRow' \in Subnet \cup {Err}
           /\ mishaps' = IF answered THEN mishaps ELSE mishaps \cup {"row"}
           /\ mishaps' \subseteq Mishap
BY DEF TypeOK, UpdateRow, Mishap

\* Counter, row and creates keep their types: a counter is a subnet or "err".
LEMMA TypeStep == TypeOK /\ [Next]_vars => TypeOK'
<1> SUFFICES ASSUME TypeOK, [Next]_vars PROVE TypeOK'
  OBVIOUS
<1>1. CASE Restart
  BY <1>1, SubnetAssumption DEF Restart, TypeOK, Step
<1>2. ASSUME NEW r \in Request, Read(r) PROVE TypeOK'
  <2>1. FindSubnet(lastSubnet) \in Subnet \cup {Err}
    BY <1>2, FindSubnetType DEF Read, TypeOK
  <2> QED
    BY <1>2, <2>1 DEF Read, TypeOK, Goto, Step, Mishap
<1>3. ASSUME NEW r \in Request, ReadPanics(r) PROVE TypeOK'
  BY <1>3 DEF ReadPanics, TypeOK, Goto, Step
<1>4. ASSUME NEW r \in Request, Reserve(r) PROVE TypeOK'
  BY <1>4, RowStatement DEF Reserve, TypeOK, Goto, Step
<1>5. ASSUME NEW r \in Request, Advance(r) PROVE TypeOK'
  BY <1>5 DEF Advance, TypeOK, Goto, Step
<1>6. ASSUME NEW r \in Request, RequestInstance(r) PROVE TypeOK'
  BY <1>6 DEF RequestInstance, TypeOK, Goto, Step, Mishap
<1>7. ASSUME NEW r \in Request, RestoreRow(r) PROVE TypeOK'
  BY <1>7, RowStatement DEF RestoreRow, TypeOK, Goto, Step
<1>8. ASSUME NEW r \in Request, Restore(r) PROVE TypeOK'
  BY <1>8 DEF Restore, TypeOK, Goto, Step
<1>9. ASSUME NEW r \in Request, Finish(r) PROVE TypeOK'
  BY <1>9 DEF Finish, TypeOK, Goto, Step
<1>10. ASSUME NEW r \in Request, Settle(r) PROVE TypeOK'
  BY <1>10, RowStatement DEF Settle, TypeOK, Goto, Step
<1>11. CASE UNCHANGED vars
  BY <1>11 DEF vars, TypeOK
<1> QED
  BY <1>1, <1>2, <1>3, <1>4, <1>5, <1>6, <1>7, <1>8, <1>9, <1>10, <1>11 DEF Next, RequestNext

LEMMA TypeInit == Init => TypeOK
BY SubnetAssumption DEF Init, TypeOK, Step, Mishap

\* The counters keep their types in every interleaving of creates and restarts.
THEOREM TypeCorrect == Spec => []TypeOK
BY TypeInit, TypeStep, PTL DEF Spec

-----------------------------------------------------------------------------
(* Creates that do not overlap: no subnet twice, and none in use ahead of  *)
(* the counters.                                                           *)

\* Mishaps are never forgotten.
LEMMA MishapsStay == TypeOK /\ [Next]_vars => mishaps \subseteq mishaps'
BY DEF Next, RequestNext, Restart, Read, ReadPanics, Reserve, Advance, RequestInstance,
       RestoreRow, Restore, Finish, Settle, UpdateRow, vars

\* Only one create is under way unless an overlap has been noticed.
Alone == "overlap" \notin mishaps => \A r, q \in Busy : r = q

\* What a create under way knows and has done to the counters, when it is the only
\* one: it asks for the subnet after the one it has read, and all that others hold
\* is not after that one.
Underway(r) ==
    /\ seen[r] \in Subnet
    /\ next[r] = FindSubnet(seen[r])
    /\ \A q \in holds \ {r} : AtMost(next[q], seen[r])
    /\ pc[r] \in {"reserve", "advance"} => lastSubnet = seen[r]
    /\ pc[r] \in {"request", "restoreRow", "restore", "finish", "settle"} => lastSubnet = next[r]
    /\ pc[r] \in {"advance", "request", "restoreRow", "finish", "settle"} => subnetRow = next[r]
    /\ pc[r] \notin {"finish", "settle"} => r \notin holds

\* An IP is held in a subnet, by a create that has asked for it.
HoldersAsked == \A r \in holds : pc[r] # "read" /\ next[r] \in Subnet

Covered == \A r \in holds : AtMost(next[r], lastSubnet) /\ AtMost(next[r], subnetRow)
Distinct == \A r, q \in holds : next[r] = next[q] => r = q

CounterInv ==
    /\ TypeOK
    /\ Alone
    /\ HoldersAsked
    /\ OneByOne => Covered /\ Distinct /\ \A r \in Busy : Underway(r)

LEMMA OneByOneMeans == OneByOne <=> "overlap" \notin mishaps /\ "answer" \notin mishaps
BY DEF OneByOne

\* The history of overlaps is right: a create that begins while another is under way
\* is noticed.
LEMMA AloneStep == TypeOK /\ Alone /\ [Next]_vars => Alone'
<1> SUFFICES ASSUME TypeOK, Alone, [Next]_vars PROVE Alone'
  OBVIOUS
<1>1. mishaps \subseteq mishaps'
  BY MishapsStay
<1>2. CASE \E r \in Request : Read(r)
  BY <1>2 DEF Read, Goto, Alone, Busy, TypeOK, Step
<1>3. CASE ~\E r \in Request : Read(r)
  <2>1. Busy' \subseteq Busy
    BY <1>3 DEF Next, RequestNext, Restart, ReadPanics, Reserve, Advance, RequestInstance,
                RestoreRow, Restore, Finish, Settle, Goto, Busy, TypeOK, Step, vars
  <2> QED
    BY <1>1, <2>1 DEF Alone
<1> QED
  BY <1>2, <1>3

\* CMS gives no IP in a subnet "err", and what a create asks for does not change any
\* more.
LEMMA HoldersStep == TypeOK /\ HoldersAsked /\ [Next]_vars => HoldersAsked'
<1> SUFFICES ASSUME TypeOK, HoldersAsked, [Next]_vars PROVE HoldersAsked'
  OBVIOUS
<1>1. CASE \E r \in Request : Read(r)
  BY <1>1 DEF Read, Goto, HoldersAsked, TypeOK
<1>2. CASE \E r \in Request : RequestInstance(r)
  BY <1>2 DEF RequestInstance, Goto, HoldersAsked, TypeOK
<1>3. CASE ~\E r \in Request : Read(r) \/ RequestInstance(r)
  <2>1. holds' = holds /\ next' = next
    BY <1>3 DEF Next, RequestNext, Restart, ReadPanics, Reserve, Advance,
                RestoreRow, Restore, Finish, Settle, vars
  <2>2. ASSUME NEW r \in holds PROVE pc'[r] # "read"
    BY <1>3, <2>2 DEF Next, RequestNext, Restart, ReadPanics, Reserve, Advance,
                RestoreRow, Restore, Finish, Settle, Goto, Busy, TypeOK, Step, vars, HoldersAsked
  <2> QED
    BY <2>1, <2>2 DEF HoldersAsked
<1> QED
  BY <1>1, <1>2, <1>3

\* A create that reads the counter while nobody else is under way.
LEMMA CounterRead ==
    ASSUME CounterInv, OneByOne, NEW r \in Request, Read(r), OneByOne'
    PROVE  Covered' /\ Distinct' /\ \A q \in Busy' : Underway(q)'
<1>1. Busy = {}
  BY OneByOneMeans DEF Read, OneByOne
<1>2. /\ lastSubnet \in Subnet /\ r \notin holds /\ holds' = holds
      /\ lastSubnet' = lastSubnet /\ subnetRow' = subnetRow
      /\ seen'[r] = lastSubnet /\ next'[r] = FindSubnet(lastSubnet) /\ pc'[r] = "reserve"
      /\ \A q \in Request \ {r} : next'[q] = next[q] /\ pc'[q] = pc[q]
      /\ holds \subseteq Request
  BY DEF CounterInv, TypeOK, HoldersAsked, Read, Goto
<1>3. Busy' = {r}
  BY <1>1, <1>2 DEF Busy
<1>4. Covered' /\ Distinct'
  BY <1>2 DEF CounterInv, Covered, Distinct
<1>5. Underway(r)'
  BY <1>2 DEF CounterInv, Covered, Underway
<1> QED
  BY <1>3, <1>4, <1>5

\* A create under way takes any other step: it is the only one, and leaves or goes on.
LEMMA CounterGoesOn ==
    ASSUME CounterInv, TypeOK', OneByOne, NEW r \in Request, r \in Busy,
           RequestNext(r), OneByOne'
    PROVE  Covered' /\ Distinct' /\ \A q \in Busy' : Underway(q)'
<1> DEFINE Rest == /\ pc' \in [Request -> Step]
                   /\ \A q \in Request \ {r} : pc'[q] = pc[q]
                   /\ seen' = seen /\ next' = next
<1>1. Busy = {r} /\ Underway(r) /\ Covered /\ Distinct /\ TypeOK
  BY OneByOneMeans DEF CounterInv, Alone
<1>2. seen[r] \in Subnet /\ next[r] \in Subnet \cup {Err} /\ Before(seen[r], next[r])
  BY <1>1, FindSubnetIsNext, FindSubnetType DEF Underway
<1>3. \A q \in holds : next[q] \in Subnet /\ q \in Request
  BY <1>1 DEF CounterInv, HoldersAsked, TypeOK
<1>4. \A q \in holds \ {r} : /\ AtMost(next[q], seen[r])
                             /\ AtMost(next[q], next[r]) /\ next[q] # next[r]
  BY <1>1, <1>2, <1>3, BeforeChain DEF Underway
<1>5. AtMost(next[r], next[r])
  BY DEF AtMost
<1>6. ASSUME Rest PROVE Busy' \subseteq {r}
  BY <1>1, <1>6 DEF Busy
<1>7. CASE Reserve(r)
  <2>1. subnetRow' \in {subnetRow, next[r]} /\ (pc'[r] = "advance" => subnetRow' = next[r])
    BY <1>1, <1>7 DEF Reserve, UpdateRow, Goto, TypeOK
  <2>2. Rest /\ pc[r] = "reserve" /\ pc'[r] \in {"advance", "failed"}
        /\ lastSubnet' = lastSubnet /\ holds' = holds
    BY <1>1, <1>7 DEF Reserve, Goto, TypeOK, Step
  <2> QED
    BY <1>1, <1>4, <1>6, <2>1, <2>2 DEF Underway, Covered, Distinct, Busy
<1>8. CASE Advance(r)
  <2>1. Rest /\ pc[r] = "advance" /\ pc'[r] = "request"
        /\ lastSubnet' = next[r] /\ subnetRow' = subnetRow /\ holds' = holds
    BY <1>1, <1>8 DEF Advance, Goto, TypeOK, Step
  <2> QED
    BY <1>1, <1>4, <1>6, <2>1 DEF Underway, Covered, Distinct, Busy
<1>9. CASE RequestInstance(r)
  <2>1. Rest /\ pc[r] = "request" /\ pc'[r] \in {"finish", "restoreRow"}
        /\ lastSubnet' = lastSubnet /\ subnetRow' = subnetRow
    BY <1>1, <1>9 DEF RequestInstance, Goto, TypeOK, Step
  <2>2. pc'[r] = "finish" => holds' = holds \cup {r}
    BY <1>1, <1>9 DEF RequestInstance, Goto, TypeOK
  <2>3. pc'[r] = "restoreRow" => holds' = holds
    BY <1>1, <1>9, OneByOneMeans DEF RequestInstance, Goto, TypeOK, OneByOne
  <2> QED
    BY <1>1, <1>4, <1>5, <1>6, <2>1, <2>2, <2>3 DEF Underway, Covered, Distinct, Busy
<1>10. CASE RestoreRow(r)
  <2>1. subnetRow' \in {subnetRow, seen[r]}
    BY <1>1, <1>10 DEF RestoreRow, UpdateRow, Goto, TypeOK
  <2>2. Rest /\ pc[r] = "restoreRow" /\ pc'[r] \in {"restore", "failed"}
        /\ lastSubnet' = lastSubnet /\ holds' = holds
    BY <1>1, <1>10 DEF RestoreRow, Goto, TypeOK, Step
  <2> QED
    BY <1>1, <1>4, <1>6, <2>1, <2>2 DEF Underway, Covered, Distinct, Busy
<1>11. CASE Restore(r)
  <2>1. Rest /\ pc[r] = "restore" /\ pc'[r] = "failed"
        /\ lastSubnet' = seen[r] /\ subnetRow' = subnetRow /\ holds' = holds
    BY <1>1, <1>11 DEF Restore, Goto, TypeOK, Step
  <2> QED
    BY <1>1, <1>4, <1>6, <2>1 DEF Underway, Covered, Distinct, Busy
<1>12. CASE Finish(r)
  <2>1. Rest /\ pc[r] = "finish" /\ pc'[r] \in {"settle", "failed"}
        /\ lastSubnet' = lastSubnet /\ subnetRow' = subnetRow /\ holds' = holds
    BY <1>1, <1>12 DEF Finish, Goto, TypeOK, Step
  <2> QED
    BY <1>1, <1>4, <1>6, <2>1 DEF Underway, Covered, Distinct, Busy
<1>13. CASE Settle(r)
  <2>1. subnetRow' \in {subnetRow, next[r]}
    BY <1>1, <1>13 DEF Settle, UpdateRow, Goto, TypeOK
  <2>2. Rest /\ pc[r] = "settle" /\ pc'[r] = "done"
        /\ lastSubnet' = lastSubnet /\ holds' = holds
    BY <1>1, <1>13 DEF Settle, Goto, TypeOK, Step
  <2> QED
    BY <1>1, <1>4, <1>5, <1>6, <2>1, <2>2 DEF Underway, Covered, Distinct, Busy
<1> QED
  BY <1>1, <1>7, <1>8, <1>9, <1>10, <1>11, <1>12, <1>13
     DEF RequestNext, Read, ReadPanics, Busy

LEMMA CounterStep == CounterInv /\ [Next]_vars => CounterInv'
<1> SUFFICES ASSUME CounterInv, [Next]_vars PROVE CounterInv'
  OBVIOUS
<1>1. TypeOK' /\ Alone' /\ HoldersAsked' /\ mishaps \subseteq mishaps'
  BY TypeStep, AloneStep, HoldersStep, MishapsStay DEF CounterInv
<1>2. ASSUME OneByOne' PROVE Covered' /\ Distinct' /\ \A q \in Busy' : Underway(q)'
  <2>1. OneByOne
    BY <1>1, <1>2 DEF OneByOne
  <2>2. CASE Restart
    BY <2>1, <2>2 DEF CounterInv, TypeOK, Restart, Busy, Covered, Distinct
  <2>3. ASSUME NEW r \in Request, RequestNext(r), r \in Busy
        PROVE  Covered' /\ Distinct' /\ \A q \in Busy' : Underway(q)'
    BY <1>1, <1>2, <2>1, <2>3, CounterGoesOn
  <2>4. ASSUME NEW r \in Request, Read(r)
        PROVE  Covered' /\ Distinct' /\ \A q \in Busy' : Underway(q)'
    BY <1>2, <2>1, <2>4, CounterRead
  <2>5. ASSUME NEW r \in Request, ReadPanics(r)
        PROVE  Covered' /\ Distinct' /\ \A q \in Busy' : Underway(q)'
    <3>1. Busy' = Busy
      BY <2>5 DEF CounterInv, TypeOK, ReadPanics, Goto, Busy
    <3>2. \A q \in Busy : pc'[q] = pc[q]
      BY <2>5 DEF CounterInv, TypeOK, ReadPanics, Goto, Busy
    <3> QED
      BY <2>1, <2>5, <3>1, <3>2 DEF CounterInv, ReadPanics, Covered, Distinct, Underway
  <2>6. CASE UNCHANGED vars
    BY <2>1, <2>6 DEF CounterInv, vars, Busy, Covered, Distinct, Underway
  <2>7. ASSUME NEW r \in Request, RequestNext(r), r \notin Busy
        PROVE  Read(r) \/ ReadPanics(r)
    BY <2>7 DEF RequestNext, Busy, Reserve, Advance, RequestInstance, RestoreRow, Restore,
                Finish, Settle
  <2> QED
    BY <2>2, <2>3, <2>4, <2>5, <2>6, <2>7 DEF Next
<1> QED
  BY <1>1, <1>2 DEF CounterInv

LEMMA CounterInit == Init => CounterInv
BY TypeInit DEF Init, CounterInv, Alone, HoldersAsked, Covered, Distinct, Busy

LEMMA CounterAlways == Spec => []CounterInv
BY CounterInit, CounterStep, PTL DEF Spec

\* Creates that do not overlap never get IPs in the same subnet, whatever CMS refuses,
\* whatever statement on the row fails, and whenever the server restarts.
THEOREM NoSubnetTwice == Spec => []NoOverlapNoDuplicate
<1>1. CounterInv => NoOverlapNoDuplicate
  BY DEF CounterInv, Distinct, NoOverlapNoDuplicate
<1> QED
  BY <1>1, CounterAlways, PTL

\* Nor does a counter, in memory or in the row, fall behind a subnet in use.
THEOREM CountersCover == Spec => []CounterCoversHolders
<1>1. CounterInv => CounterCoversHolders
  BY DEF CounterInv, Covered, CounterCoversHolders
<1> QED
  BY <1>1, CounterAlways, PTL

-----------------------------------------------------------------------------
(* Memory and row.                                                         *)

\* Where the two counters are while a create is under way, if every statement is
\* carried out: the row goes first, forth and back.
InStep(r) ==
    /\ pc[r] = "reserve" => lastSubnet = seen[r] /\ subnetRow = seen[r]
    /\ pc[r] = "advance" => lastSubnet = seen[r] /\ subnetRow = next[r]
    /\ pc[r] = "restore" => lastSubnet = next[r] /\ subnetRow = seen[r]
    /\ pc[r] \in {"request", "restoreRow", "finish", "settle"} =>
           lastSubnet = next[r] /\ subnetRow = next[r]

AgreeInv ==
    /\ TypeOK
    /\ Alone
    /\ mishaps \subseteq {"answer"} =>
           /\ Busy = {} => lastSubnet = subnetRow
           /\ \A r \in Busy : InStep(r)

LEMMA AgreeStep == AgreeInv /\ [Next]_vars => AgreeInv'
<1> SUFFICES ASSUME AgreeInv, [Next]_vars, mishaps' \subseteq {"answer"}
             PROVE  /\ Busy' = {} => lastSubnet' = subnetRow'
                    /\ \A r \in Busy' : InStep(r)'
  BY TypeStep, AloneStep DEF AgreeInv
<1>1. /\ mishaps \subseteq {"answer"} /\ TypeOK
      /\ Busy = {} => lastSubnet = subnetRow
      /\ \A r \in Busy : InStep(r) /\ Busy = {r}
  BY MishapsStay DEF AgreeInv, Alone
<1>2. CASE Restart
  BY <1>1, <1>2 DEF Restart, Busy, TypeOK
<1>3. ASSUME NEW r \in Request, Read(r)
      PROVE  /\ Busy' = {} => lastSubnet' = subnetRow'
             /\ \A q \in Busy' : InStep(q)'
  <2>1. Busy = {}
    BY <1>3 DEF Read
  <2>2. Busy' = {r} /\ pc'[r] = "reserve" /\ seen'[r] = lastSubnet
        /\ lastSubnet' = lastSubnet /\ subnetRow' = subnetRow
    BY <1>1, <1>3, <2>1 DEF Read, Goto, Busy, TypeOK
  <2> QED
    BY <1>1, <2>1, <2>2 DEF InStep
<1>4. ASSUME NEW r \in Request, r \in Busy, RequestNext(r)
      PROVE  /\ Busy' = {} => lastSubnet' = subnetRow'
             /\ \A q \in Busy' : InStep(q)'
  <2>1. Busy = {r} /\ InStep(r) /\ TypeOK
    BY <1>1, <1>4
  <2>2. /\ Busy' \subseteq {r} /\ seen' = seen /\ next' = next
        /\ r \in Busy' <=> pc'[r] \notin {"read", "done", "failed"}
    BY <1>4, <2>1 DEF RequestNext, Read, ReadPanics, Reserve, Advance, RequestInstance,
                      RestoreRow, Restore, Finish, Settle, Goto, Busy, TypeOK
  <2>3. ASSUME NEW s, NEW answered \in BOOLEAN, UpdateRow(s, answered)
        PROVE  answered /\ subnetRow' = s
    BY <1>1, <2>3 DEF UpdateRow
  <2>4. CASE Reserve(r)
    <3>1. pc[r] = "reserve" /\ pc'[r] = "advance" /\ subnetRow' = next[r] /\ lastSubnet' = lastSubnet
      BY <2>1, <2>3, <2>4 DEF Reserve, Goto, TypeOK
    <3> QED
      BY <2>1, <2>2, <3>1 DEF InStep
  <2>5. CASE Advance(r)
    BY <2>1, <2>2, <2>5 DEF Advance, Goto, InStep, TypeOK
  <2>6. CASE RequestInstance(r)
    BY <2>1, <2>2, <2>6 DEF RequestInstance, Goto, InStep, TypeOK
  <2>7. CASE RestoreRow(r)
    <3>1. pc[r] = "restoreRow" /\ pc'[r] = "restore" /\ subnetRow' = seen[r] /\ lastSubnet' = lastSubnet
      BY <2>1, <2>3, <2>7 DEF RestoreRow, Goto, TypeOK
    <3> QED
      BY <2>1, <2>2, <3>1 DEF InStep
  <2>8. CASE Restore(r)
    BY <2>1, <2>2, <2>8 DEF Restore, Goto, InStep, TypeOK
  <2>9. CASE Finish(r)
    BY <2>1, <2>2, <2>9 DEF Finish, Goto, InStep, TypeOK
  <2>10. CASE Settle(r)
    <3>1. pc[r] = "settle" /\ pc'[r] = "done" /\ subnetRow' = next[r] /\ lastSubnet' = lastSubnet
      BY <2>1, <2>3, <2>10 DEF Settle, Goto, TypeOK
    <3> QED
      BY <2>1, <2>2, <3>1 DEF InStep
  <2> QED
    BY <1>4, <2>4, <2>5, <2>6, <2>7, <2>8, <2>9, <2>10 DEF RequestNext, Read, ReadPanics, Busy
<1>5. ASSUME NEW r \in Request, ReadPanics(r)
      PROVE  /\ Busy' = {} => lastSubnet' = subnetRow'
             /\ \A q \in Busy' : InStep(q)'
  BY <1>1, <1>5 DEF ReadPanics, Goto, Busy, InStep, TypeOK
<1>6. CASE UNCHANGED vars
  BY <1>1, <1>6 DEF vars, Busy, InStep
<1>7. ASSUME NEW r \in Request, RequestNext(r), r \notin Busy
      PROVE  Read(r) \/ ReadPanics(r)
  BY <1>7 DEF RequestNext, Busy, Reserve, Advance, RequestInstance, RestoreRow, Restore,
              Finish, Settle
<1> QED
  BY <1>2, <1>3, <1>4, <1>5, <1>6, <1>7 DEF Next

\* Without overlap, and with every statement carried out, the undo of a refused
\* request is complete: memory and row agree whenever nothing is under way.
THEOREM CountersInStep == Spec => []CountersAgree
<1>1. Init => AgreeInv
  BY TypeInit DEF Init, AgreeInv, Alone, Busy
<1>2. AgreeInv => CountersAgree
  BY DEF AgreeInv, CountersAgree
<1> QED
  BY <1>1, <1>2, AgreeStep, PTL DEF Spec

-----------------------------------------------------------------------------
(* Running out.                                                            *)

\* "err" is in a counter only while a create that has put it there is on its way to
\* take it back: nobody begins with it, and nobody gets an IP for it.
ErrIsOwned ==
    /\ \A r \in Busy : seen[r] \in Subnet
    /\ \A r \in Request : pc[r] \in {"finish", "settle"} => next[r] \in Subnet
    /\ "row" \notin mishaps /\ restarts = 0 =>
           /\ lastSubnet = Err => \E r \in Request :
                  next[r] = Err /\ pc[r] \in {"request", "restoreRow", "restore"}
           /\ subnetRow = Err => \E r \in Request :
                  next[r] = Err /\ pc[r] \in {"advance", "request", "restoreRow"}

LEMMA ErrStep == TypeOK /\ ErrIsOwned /\ [Next]_vars => ErrIsOwned'
<1> SUFFICES ASSUME TypeOK, ErrIsOwned, [Next]_vars PROVE ErrIsOwned'
  OBVIOUS
<1> USE SubnetAssumption DEF TypeOK, ErrIsOwned, Busy, Goto
<1>1. CASE Restart
  BY <1>1 DEF Restart
<1>2. ASSUME NEW r \in Request, Read(r) PROVE ErrIsOwned'
  BY <1>2 DEF Read
<1>3. ASSUME NEW r \in Request, ReadPanics(r) PROVE ErrIsOwned'
  BY <1>3 DEF ReadPanics
<1>4. ASSUME NEW r \in Request, Reserve(r) PROVE ErrIsOwned'
  BY <1>4 DEF Reserve, UpdateRow
<1>5. ASSUME NEW r \in Request, Advance(r) PROVE ErrIsOwned'
  BY <1>5 DEF Advance
<1>6. ASSUME NEW r \in Request, RequestInstance(r) PROVE ErrIsOwned'
  BY <1>6 DEF RequestInstance
<1>7. ASSUME NEW r \in Request, RestoreRow(r) PROVE ErrIsOwned'
  BY <1>7 DEF RestoreRow, UpdateRow
<1>8. ASSUME NEW r \in Request, Restore(r) PROVE ErrIsOwned'
  BY <1>8 DEF Restore
<1>9. ASSUME NEW r \in Request, Finish(r) PROVE ErrIsOwned'
  BY <1>9 DEF Finish
<1>10. ASSUME NEW r \in Request, Settle(r) PROVE ErrIsOwned'
  BY <1>10 DEF Settle, UpdateRow
<1>11. CASE UNCHANGED vars
  BY <1>11 DEF vars
<1> QED
  BY <1>1, <1>2, <1>3, <1>4, <1>5, <1>6, <1>7, <1>8, <1>9, <1>10, <1>11 DEF Next, RequestNext

\* Running out of subnets does not wedge the allocator: the "err" of FindSubnet is
\* gone from both counters when no create is under way.
THEOREM ErrIsTakenBack == Spec => []ExhaustionIsUndone
<1>1. Init => ErrIsOwned
  BY SubnetAssumption DEF Init, ErrIsOwned, Busy
<1>2. ErrIsOwned => ExhaustionIsUndone
  BY DEF ErrIsOwned, ExhaustionIsUndone, Busy
<1> QED
  BY <1>1, <1>2, TypeInit, TypeStep, ErrStep, PTL DEF Spec

=============================================================================
