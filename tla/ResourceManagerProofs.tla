----------------------- MODULE ResourceManagerProofs -----------------------
(* Theorems about ResourceManager, for every number of requests, cores and *)
(* every word size.                                                        *)
EXTENDS ResourceManager, FiniteSetTheorems, SequenceTheorems, TLAPS

-----------------------------------------------------------------------------
(* Type correctness.                                                       *)

\* The word is a positive number.
LEMMA WordSize == W \in Nat /\ W > 0
BY ResourceAssumption

\* Word arithmetic stays within the word (the uint32 fields of structure/vm.go).
LEMMA WordType ==
    ASSUME NEW a \in 0..(W - 1), NEW b \in 1..(W - 1)
    PROVE  SubWord(a, b) \in 0..(W - 1) /\ AddWord(a, b) \in 0..(W - 1)
BY WordSize DEF SubWord, AddWord

\* So does the Free* record of a core, whichever way a demand changes it.
LEMMA FreeType ==
    ASSUME NEW f \in [Core -> [Resource -> 0..(W - 1)]], NEW c \in Core, NEW r \in Request
    PROVE  /\ [f EXCEPT ![c] = [k \in Resource |-> SubWord(@[k], Demand[r][k])]]
                \in [Core -> [Resource -> 0..(W - 1)]]
           /\ [f EXCEPT ![c] = [k \in Resource |-> AddWord(@[k], Demand[r][k])]]
                \in [Core -> [Resource -> 0..(W - 1)]]
<1>1. f[c] \in [Resource -> 0..(W - 1)] /\ Demand[r] \in [Resource -> 1..(W - 1)]
  BY ResourceAssumption, Zenon
<1>2. [k \in Resource |-> SubWord(f[c][k], Demand[r][k])] \in [Resource -> 0..(W - 1)]
  BY <1>1, WordType
<1>3. [k \in Resource |-> AddWord(f[c][k], Demand[r][k])] \in [Resource -> 0..(W - 1)]
  BY <1>1, WordType
<1> QED
  BY <1>2, <1>3

\* Taking one entry out of AliveVM leaves a list of VMs.
LEMMA RemoveAtType ==
    ASSUME NEW s \in Seq(Request), NEW i \in DOMAIN s
    PROVE  RemoveAt(s, i) \in Seq(Request)
<1>1. i \in 1..Len(s) /\ Len(s) \in Nat
  BY LenProperties
<1>2. SubSeq(s, 1, i - 1) \in Seq(Request)
  BY <1>1, SubSeqProperties
<1>3. SubSeq(s, i + 1, Len(s)) \in Seq(Request)
  BY <1>1, SubSeqProperties
<1> QED
  BY <1>2, <1>3, ConcatProperties DEF RemoveAt

\* The tables keep their types under every operation.
LEMMA TypeStep == TypeOK /\ [Next]_vars => TypeOK'
<1> SUFFICES ASSUME TypeOK, [Next]_vars PROVE TypeOK'
  OBVIOUS
<1> USE DEF TypeOK, Phase
<1>1. ASSUME NEW r \in Request, SelectCore(r) PROVE TypeOK'
  BY <1>1, ResourceAssumption DEF SelectCore, Suitable
<1>2. ASSUME NEW r \in Request, NoCoreFits(r) PROVE TypeOK'
  BY <1>2 DEF NoCoreFits
<1>3. ASSUME NEW r \in Request, Abandon(r) PROVE TypeOK'
  BY <1>3 DEF Abandon
<1>4. ASSUME NEW r \in Request, AllocateResources(r) PROVE TypeOK'
  <2>1. chosen[r] \in Core /\ UUIDOf[r] \in UUID
    BY <1>4, ResourceAssumption DEF AllocateResources
  <2>2. free' \in [Core -> [Resource -> 0..(W - 1)]]
    <3>1. free' = [free EXCEPT ![chosen[r]] = [k \in Resource |-> SubWord(@[k], Demand[r][k])]]
      BY <1>4 DEF AllocateResources
    <3>2. free \in [Core -> [Resource -> 0..(W - 1)]]
      OBVIOUS
    <3> HIDE DEF TypeOK
    <3> QED
      BY <2>1, <3>1, <3>2, FreeType
  <2>3. vmInfoIdx' \in [Core -> [UUID -> Request \cup {NoVM}]]
    BY <1>4, <2>1 DEF AllocateResources
  <2>4. interfered' \subseteq Request /\ staleCores' \subseteq Core
    BY <1>4, <2>1 DEF AllocateResources, Waiting
  <2> QED
    BY <1>4, <2>2, <2>3, <2>4 DEF AllocateResources
<1>5. ASSUME NEW r \in Request, DeallocateResources(r) PROVE TypeOK'
  <2>1. chosen[r] \in Core /\ UUIDOf[r] \in UUID
    BY <1>5, ResourceAssumption DEF DeallocateResources
  <2>2. free' \in [Core -> [Resource -> 0..(W - 1)]]
    <3>1. free' = [free EXCEPT ![chosen[r]] = [k \in Resource |-> AddWord(@[k], Demand[r][k])]]
      BY <1>5 DEF DeallocateResources
    <3>2. free \in [Core -> [Resource -> 0..(W - 1)]]
      OBVIOUS
    <3> HIDE DEF TypeOK
    <3> QED
      BY <2>1, <3>1, <3>2, FreeType
  <2>3. vmInfoIdx' \in [Core -> [UUID -> Request \cup {NoVM}]]
    BY <1>5, <2>1 DEF DeallocateResources
  <2> QED
    BY <1>5, <2>2, <2>3 DEF DeallocateResources
<1>6. ASSUME NEW r \in Request, RegisterVM(r) PROVE TypeOK'
  <2>1. chosen[r] \in Core /\ UUIDOf[r] \in UUID
    BY <1>6, ResourceAssumption DEF RegisterVM
  <2>2. aliveVM' \in Seq(Request)
    BY <1>6, AppendProperties DEF RegisterVM
  <2> QED
    BY <1>6, <2>1, <2>2 DEF RegisterVM
<1>7. ASSUME NEW u \in UUID, NEW c \in Core, CacheLocation(u, c) PROVE TypeOK'
  BY <1>7 DEF CacheLocation
<1>8. ASSUME NEW u \in UUID, UnregisterAlive(u) PROVE TypeOK'
  <2>1. aliveVM' = aliveVM \/ \E i \in DOMAIN aliveVM : aliveVM' = RemoveAt(aliveVM, i)
    BY <1>8, Zenon DEF UnregisterAlive, AliveAt
  <2>2. aliveVM' \in Seq(Request)
    BY <2>1, RemoveAtType
  <2> QED
    BY <1>8, <2>2 DEF UnregisterAlive
<1>9. CASE UNCHANGED vars
  BY <1>9 DEF vars
<1> QED
  BY <1>1, <1>2, <1>3, <1>4, <1>5, <1>6, <1>7, <1>8, <1>9 DEF Next, RequestNext

LEMMA TypeInit == Init => TypeOK
BY ResourceAssumption, EmptySeq DEF Init, TypeOK, Phase

\* Every table keeps its type, whatever calls interleave.
THEOREM TypeCorrect == Spec => []TypeOK
BY TypeInit, TypeStep, PTL DEF Spec

-----------------------------------------------------------------------------
(* Accounting.  What the requests of a set demand together, then what one  *)
(* step does to Free* and to the bookings of a core.                       *)

\* A demand is a positive uint32.
LEMMA DemandType ==
    ASSUME NEW r \in Request, NEW k \in Resource
    PROVE  Demand[r][k] \in Nat /\ Demand[r][k] > 0 /\ Demand[r][k] < W
<1>1. Demand[r][k] \in 1..(W - 1)
  BY ResourceAssumption, Zenon
<1> QED
  BY <1>1, WordSize

\* The units a set of requests demands are a finite set, and their number a
\* natural number.
LEMMA DemandOfType ==
    ASSUME NEW S \in SUBSET Request, NEW k \in Resource
    PROVE  /\ IsFiniteSet(UNION {Units(r, k) : r \in S})
           /\ DemandOf(S, k) \in Nat
<1>1. IsFiniteSet(Request \X (1..(W - 1)))
  <2>1. 1 \in Int /\ W - 1 \in Int
    BY WordSize
  <2>2. IsFiniteSet(1..(W - 1))
    BY <2>1, FS_Interval, Zenon
  <2> QED
    BY <2>2, ResourceAssumption, FS_Product, Zenon
<1>2. ASSUME NEW r \in S PROVE Units(r, k) \subseteq Request \X (1..(W - 1))
  <2>1. r \in Request /\ Demand[r][k] \in Nat /\ Demand[r][k] < W
    BY DemandType
  <2> QED
    BY <2>1, WordSize DEF Units
<1>3. UNION {Units(r, k) : r \in S} \subseteq Request \X (1..(W - 1))
  BY <1>2
<1>4. IsFiniteSet(UNION {Units(r, k) : r \in S})
  BY <1>1, <1>3, FS_Subset
<1> QED
  BY <1>4, FS_CardinalityType DEF DemandOf

\* The demands of a set of requests add up: a request that joins the set adds its
\* own demand.
LEMMA DemandOfAdd ==
    ASSUME NEW S \in SUBSET Request, NEW r \in Request \ S, NEW k \in Resource
    PROVE  DemandOf(S \cup {r}, k) = DemandOf(S, k) + Demand[r][k]
<1> DEFINE All(T) == UNION {Units(q, k) : q \in T}
<1>1. IsFiniteSet(Units(r, k)) /\ Cardinality(Units(r, k)) = Demand[r][k]
  <2> DEFINE d == Demand[r][k]
  <2>1. d \in Nat /\ d > 0 /\ d \in Int /\ 1 \in Int
    BY DemandType
  <2>2. IsFiniteSet(1..d) /\ Cardinality(1..d) = IF 1 > d THEN 0 ELSE d - 1 + 1
    BY <2>1, FS_Interval, Zenon
  <2>3. Cardinality(1..d) = d
    BY <2>1, <2>2
  <2>4. IsFiniteSet({r}) /\ Cardinality({r}) = 1
    BY FS_Singleton, Zenon
  <2>5. IsFiniteSet({r} \X (1..d)) /\ Cardinality({r} \X (1..d)) = Cardinality({r}) * Cardinality(1..d)
    BY <2>2, <2>4, FS_Product, Zenon
  <2> QED
    BY <2>1, <2>3, <2>4, <2>5 DEF Units
<1>2. All(S \cup {r}) = All(S) \cup Units(r, k)
  OBVIOUS
<1>3. All(S) \cap Units(r, k) = {}
  BY DEF Units
<1>4. Cardinality(All(S) \cap Units(r, k)) = 0
  BY <1>3, FS_EmptySet
<1>5. IsFiniteSet(All(S)) /\ Cardinality(All(S)) \in Nat
  BY DemandOfType DEF DemandOf
<1>6. Demand[r][k] \in Nat
  BY DemandType
<1>7. Cardinality(All(S) \cup Units(r, k))
        = Cardinality(All(S)) + Cardinality(Units(r, k)) - Cardinality(All(S) \cap Units(r, k))
  BY <1>1, <1>5, FS_Union
<1>8. Cardinality(All(S \cup {r})) = Cardinality(All(S)) + Demand[r][k]
  <2>1. Cardinality(All(S \cup {r})) = Cardinality(All(S) \cup Units(r, k))
    BY <1>2, Zenon
  <2> HIDE DEF All
  <2> QED
    BY <2>1, <1>1, <1>4, <1>5, <1>6, <1>7
<1> QED
  BY <1>8, Zenon DEF DemandOf

\* Nothing is booked of an empty set of requests.
LEMMA DemandOfNone == ASSUME NEW k \in Resource PROVE DemandOf({}, k) = 0
<1>1. UNION {Units(q, k) : q \in {}} = {}
  OBVIOUS
<1> QED
  BY <1>1, FS_EmptySet DEF DemandOf

\* What is booked on a core is a natural number.
LEMMA ReservedType ==
    ASSUME NEW c \in Core, NEW k \in Resource
    PROVE  Reserved(c, k) \in Nat /\ Reserved(c, k)' \in Nat
<1>1. Held(c) \in SUBSET Request /\ Held(c)' \in SUBSET Request
  BY DEF Held
<1>2. DemandOf(Held(c), k) \in Nat /\ DemandOf(Held(c)', k) \in Nat
  BY <1>1, DemandOfType
<1> QED
  BY <1>2 DEF Reserved, DemandOf, Units

\* An allocation books its request on the core it selected and nowhere else.
LEMMA HeldAllocate ==
    ASSUME TypeOK, NEW r \in Request, AllocateResources(r), NEW c \in Core
    PROVE  /\ r \notin Held(c)
           /\ Held(c)' = IF c = chosen[r] THEN Held(c) \cup {r} ELSE Held(c)
BY DEF TypeOK, AllocateResources, Held

\* A rollback removes the booking its request made and no other.
LEMMA HeldDeallocate ==
    ASSUME TypeOK, NEW r \in Request, DeallocateResources(r), NEW c \in Core
    PROVE  /\ c = chosen[r] => r \in Held(c)
           /\ Held(c)' = IF c = chosen[r] THEN Held(c) \ {r} ELSE Held(c)
BY DEF TypeOK, DeallocateResources, Held

\* The other operations book and release nothing.
LEMMA HeldOther ==
    ASSUME TypeOK, [Next]_vars, NEW c \in Core,
           \A r \in Request : ~AllocateResources(r) /\ ~DeallocateResources(r)
    PROVE  Held(c)' = Held(c) /\ free' = free
<1>1. ASSUME NEW r \in Request, SelectCore(r) \/ NoCoreFits(r) \/ Abandon(r)
      PROVE  Held(c)' = Held(c) /\ free' = free
  BY <1>1 DEF TypeOK, SelectCore, NoCoreFits, Abandon, Held
<1>2. ASSUME NEW r \in Request, RegisterVM(r) PROVE Held(c)' = Held(c) /\ free' = free
  BY <1>2 DEF TypeOK, RegisterVM, Held
<1>3. ASSUME NEW u \in UUID, NEW d \in Core, CacheLocation(u, d)
      PROVE  Held(c)' = Held(c) /\ free' = free
  BY <1>3 DEF CacheLocation, Held
<1>4. ASSUME NEW u \in UUID, UnregisterAlive(u) PROVE Held(c)' = Held(c) /\ free' = free
  BY <1>4 DEF UnregisterAlive, Held
<1>5. CASE UNCHANGED vars
  BY <1>5 DEF vars, Held
<1> QED
  BY <1>1, <1>2, <1>3, <1>4, <1>5 DEF Next, RequestNext

\* What an allocation does to the bookings and to Free* of each core.
LEMMA AllocateEffect ==
    ASSUME TypeOK, NEW r \in Request, AllocateResources(r), NEW c \in Core, NEW k \in Resource
    PROVE  IF c = chosen[r]
           THEN /\ Reserved(c, k)' = Reserved(c, k) + Demand[r][k]
                /\ free'[c][k] = SubWord(free[c][k], Demand[r][k])
           ELSE /\ Reserved(c, k)' = Reserved(c, k)
                /\ free'[c][k] = free[c][k]
<1>1. Held(c) \in SUBSET Request /\ Reserved(c, k)' = DemandOf(Held(c)', k)
  BY DEF Held, Reserved, DemandOf, Units
<1>2. CASE c = chosen[r]
  <2>1. r \in Request \ Held(c) /\ Held(c)' = Held(c) \cup {r}
    BY <1>2, HeldAllocate
  <2>2. DemandOf(Held(c) \cup {r}, k) = DemandOf(Held(c), k) + Demand[r][k]
    BY <1>1, <2>1, DemandOfAdd, Zenon
  <2>3. Reserved(c, k)' = Reserved(c, k) + Demand[r][k]
    BY <1>1, <2>1, <2>2, Zenon DEF Reserved
  <2>4. free'[c][k] = SubWord(free[c][k], Demand[r][k])
    BY <1>2 DEF TypeOK, AllocateResources
  <2> QED
    BY <1>2, <2>3, <2>4
<1>3. CASE c # chosen[r]
  <2>1. Held(c)' = Held(c)
    BY <1>3, HeldAllocate
  <2>2. Reserved(c, k)' = Reserved(c, k)
    BY <1>1, <2>1, Zenon DEF Reserved
  <2>3. free'[c][k] = free[c][k]
    BY <1>3 DEF TypeOK, AllocateResources
  <2> QED
    BY <1>3, <2>2, <2>3
<1> QED
  BY <1>2, <1>3

\* What a rollback does to the bookings and to Free* of each core.
LEMMA DeallocateEffect ==
    ASSUME TypeOK, NEW r \in Request, DeallocateResources(r), NEW c \in Core, NEW k \in Resource
    PROVE  IF c = chosen[r]
           THEN /\ Reserved(c, k) = Reserved(c, k)' + Demand[r][k]
                /\ free'[c][k] = AddWord(free[c][k], Demand[r][k])
           ELSE /\ Reserved(c, k)' = Reserved(c, k)
                /\ free'[c][k] = free[c][k]
<1>1. Held(c) \in SUBSET Request /\ Reserved(c, k)' = DemandOf(Held(c)', k)
  BY DEF Held, Reserved, DemandOf, Units
<1>2. CASE c = chosen[r]
  <2>1. r \in Held(c) /\ Held(c)' = Held(c) \ {r}
    BY <1>2, HeldDeallocate
  <2>2. Held(c)' \in SUBSET Request /\ r \in Request \ Held(c)' /\ Held(c) = Held(c)' \cup {r}
    BY <1>1, <2>1
  <2>3. DemandOf(Held(c)' \cup {r}, k) = DemandOf(Held(c)', k) + Demand[r][k]
    BY <2>2, DemandOfAdd, Zenon
  <2>4. Reserved(c, k) = Reserved(c, k)' + Demand[r][k]
    BY <1>1, <2>2, <2>3, Zenon DEF Reserved
  <2>5. free'[c][k] = AddWord(free[c][k], Demand[r][k])
    BY <1>2 DEF TypeOK, DeallocateResources
  <2> QED
    BY <1>2, <2>4, <2>5
<1>3. CASE c # chosen[r]
  <2>1. Held(c)' = Held(c)
    BY <1>3, HeldDeallocate
  <2>2. Reserved(c, k)' = Reserved(c, k)
    BY <1>1, <2>1, Zenon DEF Reserved
  <2>3. free'[c][k] = free[c][k]
    BY <1>3 DEF TypeOK, DeallocateResources
  <2> QED
    BY <1>3, <2>2, <2>3
<1> QED
  BY <1>2, <1>3

\* A step that neither allocates nor rolls back changes no booking and no Free*.
LEMMA OtherEffect ==
    ASSUME TypeOK, [Next]_vars, NEW c \in Core, NEW k \in Resource,
           \A r \in Request : ~AllocateResources(r) /\ ~DeallocateResources(r)
    PROVE  Reserved(c, k)' = Reserved(c, k) /\ free' = free
<1>1. Held(c)' = Held(c) /\ free' = free
  BY HeldOther
<1>2. Reserved(c, k)' = DemandOf(Held(c)', k)
  BY DEF Held, Reserved, DemandOf, Units
<1> QED
  BY <1>1, <1>2, Zenon DEF Reserved

-----------------------------------------------------------------------------
(* Free* modulo the word.                                                  *)

\* Free*, the bookings and the startup amount differ by whole words: the form of
\* AccountingModWord a step preserves, a word being lost or gained when Free* wraps.
WholeWords(c, k) == \E n \in Int : free[c][k] + Reserved(c, k) - StartFree[c][k] = n * W
AccountingInv == TypeOK /\ \A c \in Core, k \in Resource : WholeWords(c, k)

\* A difference that is a whole number of words stays one when a word is added or
\* taken away (the wrap of uint32 arithmetic).
LEMMA OneWordMore ==
    ASSUME NEW x \in Int, NEW y \in Int, \E n \in Int : x = n * W,
           y = x \/ y = x + W \/ y = x - W
    PROVE  \E n \in Int : y = n * W
<1>1. PICK n \in Int : x = n * W
  OBVIOUS
<1>2. W \in Int /\ (n + 1) * W = n * W + W /\ (n - 1) * W = n * W - W
  BY WordSize, SMT
<1>3. CASE y = x
  BY <1>1, <1>3
<1>4. CASE y = x + W
  <2>1. y = (n + 1) * W
    BY <1>1, <1>2, <1>4
  <2> QED
    BY <2>1
<1>5. CASE y = x - W
  <2>1. y = (n - 1) * W
    BY <1>1, <1>2, <1>5
  <2> QED
    BY <2>1
<1> QED
  BY <1>3, <1>4, <1>5

\* The numbers one core and one resource involve.
LEMMA Numbers ==
    ASSUME TypeOK, NEW c \in Core, NEW k \in Resource
    PROVE  /\ free[c][k] \in Nat /\ free[c][k] < W
           /\ StartFree[c][k] \in Nat /\ StartFree[c][k] < W
           /\ Reserved(c, k) \in Nat
           /\ W \in Nat
<1>1. free[c][k] \in 0..(W - 1)
  BY Zenon DEF TypeOK
<1>2. StartFree[c][k] \in 0..(W - 1)
  BY ResourceAssumption, Zenon
<1>3. Reserved(c, k) \in Nat
  BY ReservedType
<1> QED
  BY <1>1, <1>2, <1>3, WordSize

\* Every step keeps the difference a whole number of words.
LEMMA AccountingStep == AccountingInv /\ [Next]_vars => AccountingInv'
<1> SUFFICES ASSUME AccountingInv, [Next]_vars PROVE AccountingInv'
  OBVIOUS
<1>1. TypeOK /\ TypeOK'
  BY TypeStep DEF AccountingInv
<1>2. ASSUME NEW c \in Core, NEW k \in Resource PROVE WholeWords(c, k)'
  <2> DEFINE x == free[c][k] + Reserved(c, k) - StartFree[c][k]
             y == free'[c][k] + Reserved(c, k)' - StartFree[c][k]
  <2>1. x \in Int /\ \E n \in Int : x = n * W
    BY <1>1, Numbers DEF AccountingInv, WholeWords
  <2>2. y \in Int
    <3>1. free'[c][k] \in 0..(W - 1) /\ Reserved(c, k)' \in Nat
      BY <1>1, ReservedType, Zenon DEF TypeOK
    <3> QED
      BY <1>1, <3>1, Numbers
  <2>3. y = x \/ y = x + W \/ y = x - W
    <3>1. ASSUME NEW r \in Request, AllocateResources(r) PROVE y = x \/ y = x + W
      <4>1. CASE c = chosen[r]
        <5>1. free'[c][k] = SubWord(free[c][k], Demand[r][k])
              /\ Reserved(c, k)' = Reserved(c, k) + Demand[r][k]
          BY <1>1, <3>1, <4>1, AllocateEffect
        <5> QED
          BY <1>1, <5>1, Numbers, DemandType DEF SubWord
      <4>2. CASE c # chosen[r]
        BY <1>1, <3>1, <4>2, AllocateEffect
      <4> QED
        BY <4>1, <4>2
    <3>2. ASSUME NEW r \in Request, DeallocateResources(r) PROVE y = x \/ y = x - W
      <4>1. CASE c = chosen[r]
        <5>1. free'[c][k] = AddWord(free[c][k], Demand[r][k])
              /\ Reserved(c, k) = Reserved(c, k)' + Demand[r][k]
          BY <1>1, <3>2, <4>1, DeallocateEffect
        <5>2. Reserved(c, k)' \in Int
          BY ReservedType
        <5> QED
          BY <1>1, <5>1, <5>2, Numbers, DemandType DEF AddWord
      <4>2. CASE c # chosen[r]
        BY <1>1, <3>2, <4>2, DeallocateEffect
      <4> QED
        BY <4>1, <4>2
    <3>3. CASE \A r \in Request : ~AllocateResources(r) /\ ~DeallocateResources(r)
      BY <1>1, <3>3, OtherEffect
    <3> QED
      BY <3>1, <3>2, <3>3
  <2>4. \E n \in Int : y = n * W
    <3> HIDE DEF x, y
    <3> QED
      BY <2>1, <2>2, <2>3, OneWordMore
  <2> QED
    BY <2>4 DEF WholeWords
<1> QED
  BY <1>1, <1>2 DEF AccountingInv

\* At startup nothing is booked and Free* is the amount read.
LEMMA AccountingInit == Init => AccountingInv
<1> SUFFICES ASSUME Init PROVE AccountingInv
  OBVIOUS
<1>1. TypeOK
  BY TypeInit
<1>2. ASSUME NEW c \in Core, NEW k \in Resource PROVE WholeWords(c, k)
  <2>1. Held(c) = {}
    BY DEF Init, Held
  <2>2. Reserved(c, k) = 0
    BY <2>1, DemandOfNone DEF Reserved
  <2>3. free[c][k] + Reserved(c, k) - StartFree[c][k] = 0 * W
    BY <1>1, <2>2, Numbers DEF Init
  <2> QED
    BY <2>3 DEF WholeWords
<1> QED
  BY <1>1, <1>2 DEF AccountingInv

\* A whole number of words is zero modulo the word.
LEMMA WholeWordsMod ==
    ASSUME NEW x \in Int, NEW n \in Int, x = n * W
    PROVE  x % W = 0
<1>1. W \in Nat \ {0}
  BY ResourceAssumption
<1> QED
  BY <1>1, SMT

\* For every number of requests and cores, every interleaving and every wrap, Free*
\* is the startup amount less what is booked, modulo 2^32.
THEOREM Accounting == Spec => []AccountingModWord
<1>1. AccountingInv => AccountingModWord
  <2> SUFFICES ASSUME AccountingInv, NEW c \in Core, NEW k \in Resource
               PROVE  (free[c][k] + Reserved(c, k) - StartFree[c][k]) % W = 0
    BY DEF AccountingModWord
  <2>1. PICK n \in Int : free[c][k] + Reserved(c, k) - StartFree[c][k] = n * W
    BY DEF AccountingInv, WholeWords
  <2>2. free[c][k] + Reserved(c, k) - StartFree[c][k] \in Int
    BY Numbers DEF AccountingInv
  <2> QED
    BY <2>1, <2>2, WholeWordsMod, Zenon
<1> QED
  BY <1>1, AccountingInit, AccountingStep, PTL DEF Spec

-----------------------------------------------------------------------------
(* Overcommit.  The capacity of a core nobody allocated on with a stale    *)
(* selection is exact, because every selection that is still good there    *)
(* fits; and it fits because Free* there is exact when others roll back.   *)

\* The two properties support each other, so they are one inductive invariant.
BookingInv == TypeOK /\ OvercommitNeedsStaleSelection /\ SelectionStaysGood

\* An allocation whose selection fits does not wrap.
LEMMA AllocateExact ==
    ASSUME TypeOK, NEW r \in Request, AllocateResources(r), NEW c \in Core, NEW k \in Resource,
           free[c][k] = StartFree[c][k] - Reserved(c, k),
           c = chosen[r] => free[c][k] >= Demand[r][k]
    PROVE  /\ Reserved(c, k)' <= StartFree[c][k]
           /\ free'[c][k] = StartFree[c][k] - Reserved(c, k)'
<1>1. CASE c = chosen[r]
  <2>1. /\ Reserved(c, k)' = Reserved(c, k) + Demand[r][k]
        /\ free'[c][k] = SubWord(free[c][k], Demand[r][k])
    BY <1>1, AllocateEffect
  <2> QED
    BY <1>1, <2>1, Numbers, DemandType DEF SubWord
<1>2. CASE c # chosen[r]
  <2>1. Reserved(c, k)' = Reserved(c, k) /\ free'[c][k] = free[c][k]
    BY <1>2, AllocateEffect
  <2> QED
    BY <2>1, Numbers
<1> QED
  BY <1>1, <1>2

\* A rollback on a core whose Free* is exact does not wrap and takes no room away.
LEMMA DeallocateExact ==
    ASSUME TypeOK, NEW r \in Request, DeallocateResources(r), NEW c \in Core, NEW k \in Resource,
           free[c][k] = StartFree[c][k] - Reserved(c, k)
    PROVE  /\ Reserved(c, k)' <= StartFree[c][k]
           /\ free'[c][k] = StartFree[c][k] - Reserved(c, k)'
           /\ free'[c][k] >= free[c][k]
<1>1. CASE c = chosen[r]
  <2>1. /\ Reserved(c, k) = Reserved(c, k)' + Demand[r][k]
        /\ free'[c][k] = AddWord(free[c][k], Demand[r][k])
    BY <1>1, DeallocateEffect
  <2>2. Reserved(c, k)' \in Nat
    BY ReservedType
  <2> QED
    BY <2>1, <2>2, Numbers, DemandType DEF AddWord
<1>2. CASE c # chosen[r]
  <2>1. Reserved(c, k)' = Reserved(c, k) /\ free'[c][k] = free[c][k]
    BY <1>2, DeallocateEffect
  <2> QED
    BY <2>1, Numbers
<1> QED
  BY <1>1, <1>2

\* Allocation: exact where no selection was stale, and the selections it leaves
\* untouched are those on other cores.
LEMMA BookingAllocate ==
    ASSUME BookingInv, NEW r \in Request, AllocateResources(r)
    PROVE  OvercommitNeedsStaleSelection' /\ SelectionStaysGood'
<1>1. TypeOK /\ chosen[r] \in Core /\ phase[r] = "selected" /\ chosen' = chosen
  BY DEF BookingInv, TypeOK, AllocateResources
<1>2. ASSUME NEW c \in Core, c \notin staleCores', NEW k \in Resource
      PROVE  /\ Reserved(c, k)' <= StartFree[c][k]
             /\ free'[c][k] = StartFree[c][k] - Reserved(c, k)'
  <2>1. c \notin staleCores /\ (c = chosen[r] => r \notin interfered)
    BY <1>2, Zenon DEF AllocateResources
  <2>2. free[c][k] = StartFree[c][k] - Reserved(c, k)
    BY <2>1 DEF BookingInv, OvercommitNeedsStaleSelection
  <2>3. c = chosen[r] => free[c][k] >= Demand[r][k]
    BY <1>1, <2>1 DEF BookingInv, SelectionStaysGood, Fits
  <2> QED
    BY <1>1, <2>2, <2>3, AllocateExact
<1>3. ASSUME NEW q \in Request, phase'[q] = "selected", q \notin interfered',
             chosen'[q] \notin staleCores'
      PROVE  Fits(chosen[q], q)'
  <2>1. q # r /\ phase[q] = "selected"
    BY <1>1, <1>3 DEF BookingInv, TypeOK, AllocateResources
  <2>2. q \notin interfered /\ chosen[q] # chosen[r] /\ chosen[q] \notin staleCores
    BY <1>1, <1>3, <2>1 DEF AllocateResources, Waiting
  <2>3. chosen[q] \in Core /\ free'[chosen[q]] = free[chosen[q]]
    BY <1>1, <2>1, <2>2 DEF TypeOK, AllocateResources
  <2>4. Fits(chosen[q], q)
    BY <2>1, <2>2 DEF BookingInv, SelectionStaysGood
  <2> QED
    BY <1>1, <2>3, <2>4 DEF Fits
<1> QED
  BY <1>1, <1>2, <1>3 DEF OvercommitNeedsStaleSelection, SelectionStaysGood

\* Rollback: exact wherever it was, and what fitted still fits.
LEMMA BookingDeallocate ==
    ASSUME BookingInv, NEW r \in Request, DeallocateResources(r)
    PROVE  OvercommitNeedsStaleSelection' /\ SelectionStaysGood'
<1>1. /\ TypeOK /\ TypeOK' /\ chosen[r] \in Core
      /\ chosen' = chosen /\ interfered' = interfered /\ staleCores' = staleCores
  BY TypeStep DEF BookingInv, TypeOK, DeallocateResources, Next, RequestNext
<1>2. ASSUME NEW c \in Core, c \notin staleCores, NEW k \in Resource
      PROVE  /\ Reserved(c, k)' <= StartFree[c][k]
             /\ free'[c][k] = StartFree[c][k] - Reserved(c, k)'
             /\ free'[c][k] >= free[c][k]
  <2>1. free[c][k] = StartFree[c][k] - Reserved(c, k)
    BY <1>2 DEF BookingInv, OvercommitNeedsStaleSelection
  <2> QED
    BY <1>1, <2>1, DeallocateExact
<1>3. ASSUME NEW q \in Request, phase'[q] = "selected", q \notin interfered,
             chosen[q] \notin staleCores
      PROVE  Fits(chosen[q], q)'
  <2>1. phase[q] = "selected" /\ chosen[q] \in Core
    BY <1>1, <1>3 DEF TypeOK, DeallocateResources
  <2>2. Fits(chosen[q], q)
    BY <1>3, <2>1 DEF BookingInv, SelectionStaysGood
  <2>3. ASSUME NEW k \in Resource PROVE free'[chosen[q]][k] >= Demand[q][k]
    <3>1. free[chosen[q]][k] >= Demand[q][k]
      BY <2>2 DEF Fits
    <3>2. free'[chosen[q]][k] >= free[chosen[q]][k]
      BY <1>2, <1>3, <2>1
    <3>3. free' \in [Core -> [Resource -> 0..(W - 1)]]
      BY <1>1 DEF TypeOK
    <3>4. free'[chosen[q]][k] \in Nat
      BY <2>1, <3>3, WordSize
    <3> QED
      BY <1>1, <2>1, <3>1, <3>2, <3>4, Numbers, DemandType
  <2> QED
    BY <1>1, <2>3 DEF Fits
<1> QED
  BY <1>1, <1>2, <1>3 DEF OvercommitNeedsStaleSelection, SelectionStaysGood

\* The other steps: only SelectCore makes a selection, and the one it makes fits.
LEMMA BookingOther ==
    ASSUME BookingInv, [Next]_vars,
           \A r \in Request : ~AllocateResources(r) /\ ~DeallocateResources(r)
    PROVE  OvercommitNeedsStaleSelection' /\ SelectionStaysGood'
<1>1. TypeOK
  BY DEF BookingInv
<1>2. /\ free' = free
      /\ \A c \in Core, k \in Resource : Reserved(c, k)' = Reserved(c, k)
  <2>1. ASSUME NEW c \in Core, NEW k \in Resource
        PROVE  Reserved(c, k)' = Reserved(c, k) /\ free' = free
    BY <1>1, OtherEffect
  <2>2. free' = free
    BY DEF Next, RequestNext, SelectCore, NoCoreFits, Abandon, RegisterVM, CacheLocation,
           UnregisterAlive, vars
  <2> QED
    BY <2>1, <2>2
<1>3. interfered' = interfered /\ staleCores' = staleCores
  BY DEF Next, RequestNext, SelectCore, NoCoreFits, Abandon, RegisterVM, CacheLocation,
         UnregisterAlive, vars
<1>4. ASSUME NEW q \in Request, phase'[q] = "selected"
      PROVE  \/ phase[q] = "selected" /\ chosen'[q] = chosen[q]
             \/ Fits(chosen'[q], q)
  <2>1. ASSUME NEW r \in Request, SelectCore(r)
        PROVE  \/ phase[q] = "selected" /\ chosen'[q] = chosen[q]
               \/ Fits(chosen'[q], q)
    BY <1>1, <1>4, <2>1 DEF TypeOK, SelectCore, Suitable
  <2>2. ASSUME NEW r \in Request, NoCoreFits(r) \/ Abandon(r) \/ RegisterVM(r)
        PROVE  phase[q] = "selected" /\ chosen'[q] = chosen[q]
    BY <1>1, <1>4, <2>2 DEF TypeOK, NoCoreFits, Abandon, RegisterVM
  <2>3. ASSUME NEW u \in UUID, UnregisterAlive(u) \/ \E c \in Core : CacheLocation(u, c)
        PROVE  phase[q] = "selected" /\ chosen'[q] = chosen[q]
    BY <1>4, <2>3 DEF UnregisterAlive, CacheLocation
  <2>4. CASE UNCHANGED vars
    BY <1>4, <2>4 DEF vars
  <2> QED
    BY <2>1, <2>2, <2>3, <2>4 DEF Next, RequestNext
<1>5. OvercommitNeedsStaleSelection'
  BY <1>2, <1>3 DEF BookingInv, OvercommitNeedsStaleSelection
<1>6. SelectionStaysGood'
  <2> SUFFICES ASSUME NEW q \in Request, phase'[q] = "selected", q \notin interfered',
                      chosen'[q] \notin staleCores'
               PROVE  Fits(chosen[q], q)'
    BY DEF SelectionStaysGood
  <2>1. Fits(chosen'[q], q)
    BY <1>3, <1>4 DEF BookingInv, SelectionStaysGood
  <2> QED
    BY <1>2, <2>1 DEF Fits
<1> QED
  BY <1>5, <1>6

\* Every step keeps the bookings exact on the cores without a stale selection.
LEMMA BookingStep == BookingInv /\ [Next]_vars => BookingInv'
<1> SUFFICES ASSUME BookingInv, [Next]_vars PROVE BookingInv'
  OBVIOUS
<1>1. TypeOK'
  BY TypeStep DEF BookingInv
<1>2. OvercommitNeedsStaleSelection' /\ SelectionStaysGood'
  BY BookingAllocate, BookingDeallocate, BookingOther
<1> QED
  BY <1>1, <1>2 DEF BookingInv

\* At startup nothing is booked and nothing selected.
LEMMA BookingInit == Init => BookingInv
<1> SUFFICES ASSUME Init PROVE BookingInv
  OBVIOUS
<1>1. TypeOK
  BY TypeInit
<1>2. ASSUME NEW c \in Core, NEW k \in Resource
      PROVE  Reserved(c, k) <= StartFree[c][k] /\ free[c][k] = StartFree[c][k] - Reserved(c, k)
  <2>1. Held(c) = {}
    BY DEF Init, Held
  <2>2. Reserved(c, k) = 0
    BY <2>1, DemandOfNone DEF Reserved
  <2> QED
    BY <1>1, <2>2, Numbers DEF Init
<1>3. SelectionStaysGood
  BY DEF Init, SelectionStaysGood
<1> QED
  BY <1>1, <1>2, <1>3 DEF BookingInv, OvercommitNeedsStaleSelection

\* However many creates run at once, a core is overcommitted only through an
\* allocation on it between another create's SelectCore and AllocateResources.
THEOREM Overcommit == Spec => []OvercommitNeedsStaleSelection
<1>1. BookingInv => OvercommitNeedsStaleSelection
  BY DEF BookingInv
<1> QED
  BY <1>1, BookingInit, BookingStep, PTL DEF Spec

\* And until that happens a selection stays good.
THEOREM GoodSelections == Spec => []SelectionStaysGood
<1>1. BookingInv => SelectionStaysGood
  BY DEF BookingInv
<1> QED
  BY <1>1, BookingInit, BookingStep, PTL DEF Spec

-----------------------------------------------------------------------------
(* The VM index and the location cache, for clients that never reuse a     *)
(* uuid.                                                                   *)

\* One step keeps the index of every core equal to the bookings on it.
LEMMA IndexStep ==
    ASSUME FreshUUIDs, TypeOK, IndexMatchesBookings, [Next]_vars
    PROVE  IndexMatchesBookings'
<1> SUFFICES ASSUME NEW c \in Core, NEW u \in UUID, NEW q \in Request
             PROVE  vmInfoIdx'[c][u] = q <=> q \in Held(c)' /\ UUIDOf[q] = u
  BY DEF IndexMatchesBookings
<1>1. vmInfoIdx[c][u] = q <=> q \in Held(c) /\ UUIDOf[q] = u
  BY DEF IndexMatchesBookings
<1>2. ASSUME NEW r \in Request, AllocateResources(r)
      PROVE  vmInfoIdx'[c][u] = q <=> q \in Held(c)' /\ UUIDOf[q] = u
  <2>1. vmInfoIdx'[c][u] = IF c = chosen[r] /\ u = UUIDOf[r] THEN r ELSE vmInfoIdx[c][u]
    BY <1>2 DEF AllocateResources, TypeOK
  <2>2. Held(c)' = IF c = chosen[r] THEN Held(c) \cup {r} ELSE Held(c)
    BY <1>2, HeldAllocate
  <2>3. UUIDOf[q] = UUIDOf[r] => q = r
    BY DEF FreshUUIDs
  <2> QED
    BY <1>1, <2>1, <2>2, <2>3
<1>3. ASSUME NEW r \in Request, DeallocateResources(r)
      PROVE  vmInfoIdx'[c][u] = q <=> q \in Held(c)' /\ UUIDOf[q] = u
  <2>1. vmInfoIdx'[c][u] = IF c = chosen[r] /\ u = UUIDOf[r] THEN NoVM ELSE vmInfoIdx[c][u]
    BY <1>3 DEF DeallocateResources, TypeOK
  <2>2. Held(c)' = IF c = chosen[r] THEN Held(c) \ {r} ELSE Held(c)
    BY <1>3, HeldDeallocate
  <2>3. UUIDOf[q] = UUIDOf[r] => q = r
    BY DEF FreshUUIDs
  <2>4. NoVM # q
    BY ResourceAssumption
  <2> QED
    BY <1>1, <2>1, <2>2, <2>3, <2>4
<1>4. CASE \A r \in Request : ~AllocateResources(r) /\ ~DeallocateResources(r)
  <2>1. Held(c)' = Held(c)
    BY <1>4, HeldOther
  <2>2. vmInfoIdx' = vmInfoIdx
    BY <1>4 DEF Next, RequestNext, SelectCore, NoCoreFits, Abandon, RegisterVM, CacheLocation,
                UnregisterAlive, vars
  <2> QED
    BY <1>1, <2>1, <2>2
<1> QED
  BY <1>2, <1>3, <1>4

\* VMInfoIdx of every core holds exactly the VMs booked on it, under any
\* interleaving of creates and rollbacks.
THEOREM IndexExact == ASSUME FreshUUIDs PROVE Spec => []IndexMatchesBookings
<1>1. Init => TypeOK /\ IndexMatchesBookings
  BY TypeInit, ResourceAssumption DEF Init, IndexMatchesBookings, Held
<1>2. TypeOK /\ IndexMatchesBookings /\ [Next]_vars => TypeOK' /\ IndexMatchesBookings'
  BY TypeStep, IndexStep
<1> QED
  BY <1>1, <1>2, PTL DEF Spec

\* A cached location is the core that the create of this uuid selected.
LocationInv ==
    /\ TypeOK
    /\ \A u \in UUID : vmLocation[u] # NoCore =>
          \E r \in Request : /\ UUIDOf[r] = u
                             /\ chosen[r] = vmLocation[u]
                             /\ phase[r] \in {"allocated", "registered", "released"}

\* A create that has allocated keeps the core it selected.
LEMMA ChosenKept ==
    ASSUME TypeOK, [Next]_vars, NEW r \in Request,
           phase[r] \in {"allocated", "registered", "released"}
    PROVE  chosen'[r] = chosen[r] /\ phase'[r] \in {"allocated", "registered", "released"}
<1>1. ASSUME NEW q \in Request, SelectCore(q)
      PROVE  chosen'[r] = chosen[r] /\ phase'[r] \in {"allocated", "registered", "released"}
  BY <1>1 DEF TypeOK, SelectCore
<1>2. ASSUME NEW q \in Request, \/ NoCoreFits(q) \/ Abandon(q) \/ AllocateResources(q)
                                \/ DeallocateResources(q) \/ RegisterVM(q)
      PROVE  chosen'[r] = chosen[r] /\ phase'[r] \in {"allocated", "registered", "released"}
  BY <1>2 DEF TypeOK, NoCoreFits, Abandon, AllocateResources, DeallocateResources, RegisterVM
<1>3. ASSUME NEW u \in UUID, UnregisterAlive(u) \/ \E c \in Core : CacheLocation(u, c)
      PROVE  chosen'[r] = chosen[r] /\ phase'[r] \in {"allocated", "registered", "released"}
  BY <1>3 DEF UnregisterAlive, CacheLocation
<1>4. CASE UNCHANGED vars
  BY <1>4 DEF vars
<1> QED
  BY <1>1, <1>2, <1>3, <1>4 DEF Next, RequestNext

\* One step leaves a location alone or writes the core of the uuid's create.
LEMMA LocationStep ==
    ASSUME LocationInv, [Next]_vars, NEW u \in UUID
    PROVE  \/ vmLocation'[u] = vmLocation[u]
           \/ \E r \in Request : /\ UUIDOf[r] = u
                                 /\ chosen[r] = vmLocation'[u]
                                 /\ phase[r] \in {"allocated", "registered", "released"}
<1>1. ASSUME NEW r \in Request, RegisterVM(r)
      PROVE  \/ vmLocation'[u] = vmLocation[u]
             \/ /\ UUIDOf[r] = u
                /\ chosen[r] = vmLocation'[u]
                /\ phase[r] \in {"allocated", "registered", "released"}
  BY <1>1 DEF LocationInv, TypeOK, RegisterVM
<1>2. ASSUME NEW v \in UUID, NEW c \in Core, CacheLocation(v, c)
      PROVE  \/ vmLocation'[u] = vmLocation[u]
             \/ \E r \in Request : /\ UUIDOf[r] = u
                                   /\ chosen[r] = vmLocation'[u]
                                   /\ phase[r] \in {"allocated", "registered", "released"}
  BY <1>2 DEF LocationInv, TypeOK, CacheLocation
<1>3. CASE /\ \A r \in Request : ~RegisterVM(r)
           /\ \A v \in UUID, c \in Core : ~CacheLocation(v, c)
  BY <1>3 DEF Next, RequestNext, SelectCore, NoCoreFits, Abandon, AllocateResources,
              DeallocateResources, UnregisterAlive, vars
<1> QED
  BY <1>1, <1>2, <1>3

\* Lookups that fill the cache late and creates that register agree on the core,
\* so a location never moves once it is known.
THEOREM LocationStable == ASSUME FreshUUIDs PROVE Spec => LocationIsStable
<1>1. Init => LocationInv
  BY TypeInit DEF Init, LocationInv
<1>2. ASSUME LocationInv, [Next]_vars PROVE LocationInv'
  <2>1. TypeOK'
    BY <1>2, TypeStep DEF LocationInv
  <2>2. ASSUME NEW u \in UUID, vmLocation'[u] # NoCore
        PROVE  \E r \in Request : /\ UUIDOf[r] = u
                                  /\ chosen'[r] = vmLocation'[u]
                                  /\ phase'[r] \in {"allocated", "registered", "released"}
    <3>1. PICK r \in Request : /\ UUIDOf[r] = u
                               /\ chosen[r] = vmLocation'[u]
                               /\ phase[r] \in {"allocated", "registered", "released"}
      BY <1>2, <2>2, LocationStep DEF LocationInv
    <3> QED
      BY <1>2, <3>1, ChosenKept DEF LocationInv
  <2> QED
    BY <2>1, <2>2 DEF LocationInv
<1>3. ASSUME LocationInv, [Next]_vars
      PROVE  \A u \in UUID : vmLocation[u] # NoCore => vmLocation'[u] = vmLocation[u]
  <2> SUFFICES ASSUME NEW u \in UUID, vmLocation[u] # NoCore
               PROVE  vmLocation'[u] = vmLocation[u]
    OBVIOUS
  <2>1. PICK r \in Request : UUIDOf[r] = u /\ chosen[r] = vmLocation[u]
    BY <1>3 DEF LocationInv
  <2>2. CASE vmLocation'[u] # vmLocation[u]
    <3>1. PICK q \in Request : UUIDOf[q] = u /\ chosen[q] = vmLocation'[u]
      BY <1>3, <2>2, LocationStep
    <3>2. q = r
      BY <2>1, <3>1 DEF FreshUUIDs
    <3> QED
      BY <2>1, <3>1, <3>2
  <2> QED
    BY <2>2
<1>4. Spec => []LocationInv
  BY <1>1, <1>2, PTL DEF Spec
<1> QED
  BY <1>3, <1>4, PTL DEF Spec, LocationIsStable

-----------------------------------------------------------------------------
(* The list of the alive VMs, for clients that never reuse a uuid.         *)

\* What RemoveAt leaves at each position.
LEMMA RemoveAtEntries ==
    ASSUME NEW s \in Seq(Request), NEW i \in DOMAIN s
    PROVE  /\ DOMAIN RemoveAt(s, i) = 1..(Len(s) - 1)
           /\ \A j \in DOMAIN RemoveAt(s, i) :
                 /\ j < i => j \in DOMAIN s /\ RemoveAt(s, i)[j] = s[j]
                 /\ j >= i => j + 1 \in DOMAIN s /\ RemoveAt(s, i)[j] = s[j + 1]
<1>1. i \in 1..Len(s) /\ Len(s) \in Nat /\ DOMAIN s = 1..Len(s)
  BY LenProperties
<1> DEFINE a == SubSeq(s, 1, i - 1)
           b == SubSeq(s, i + 1, Len(s))
<1>2. a \in Seq(Request) /\ Len(a) = i - 1 /\ \A j \in 1..(i - 1) : a[j] = s[j]
  BY <1>1, SubSeqProperties
<1>3. b \in Seq(Request) /\ Len(b) = Len(s) - i /\ \A j \in 1..(Len(s) - i) : b[j] = s[i + j]
  BY <1>1, SubSeqProperties
<1>4. RemoveAt(s, i) = a \o b
  BY DEF RemoveAt
<1> HIDE DEF a, b
<1>5. /\ a \o b \in Seq(Request) /\ Len(a \o b) = Len(s) - 1
      /\ \A j \in 1..(Len(s) - 1) : (a \o b)[j] = IF j <= i - 1 THEN a[j] ELSE b[j - (i - 1)]
  <2>1. /\ a \o b \in Seq(Request) /\ Len(a \o b) = Len(a) + Len(b)
        /\ \A j \in 1..(Len(a) + Len(b)) : (a \o b)[j] = IF j <= Len(a) THEN a[j] ELSE b[j - Len(a)]
    BY <1>2, <1>3, ConcatProperties, Zenon
  <2>2. Len(a) + Len(b) = Len(s) - 1
    BY <1>1, <1>2, <1>3
  <2> QED
    BY <1>2, <2>1, <2>2
<1>6. DOMAIN (a \o b) = 1..(Len(s) - 1)
  BY <1>5, LenProperties
<1>7. ASSUME NEW j \in 1..(Len(s) - 1)
      PROVE  /\ j < i => j \in DOMAIN s /\ (a \o b)[j] = s[j]
             /\ j >= i => j + 1 \in DOMAIN s /\ (a \o b)[j] = s[j + 1]
  <2>1. CASE j < i
    BY <1>1, <1>2, <1>5, <2>1
  <2>2. CASE j >= i
    <3>1. (a \o b)[j] = b[j - (i - 1)] /\ j - (i - 1) \in 1..(Len(s) - i)
      BY <1>1, <1>5, <2>2
    <3>2. i + (j - (i - 1)) = j + 1 /\ j + 1 \in DOMAIN s
      BY <1>1, <2>2
    <3>3. b[j - (i - 1)] = s[i + (j - (i - 1))]
      BY <1>3, <3>1
    <3>4. (a \o b)[j] = s[j + 1]
      BY <3>1, <3>2, <3>3, Zenon
    <3> QED
      BY <1>1, <2>2, <3>2, <3>4
  <2> QED
    BY <1>1, <2>1, <2>2
<1> QED
  BY <1>4, <1>6, <1>7

\* The VMs on the list are registered, each once, and a registered VM is located at
\* the core of its create.
AliveInv ==
    /\ \A i \in DOMAIN aliveVM : phase[aliveVM[i]] = "registered"
    /\ \A i, j \in DOMAIN aliveVM : aliveVM[i] = aliveVM[j] => i = j
    /\ \A r \in Request : phase[r] = "registered" => vmLocation[UUIDOf[r]] = chosen[r]

\* Registration appends a VM that is not on the list, and locates it.
LEMMA AliveRegister ==
    ASSUME FreshUUIDs, TypeOK, AliveInv, NEW r \in Request, RegisterVM(r)
    PROVE  AliveInv'
<1>1. /\ aliveVM \in Seq(Request) /\ aliveVM' = Append(aliveVM, r) /\ chosen' = chosen
      /\ phase[r] = "allocated" /\ phase'[r] = "registered"
      /\ \A q \in Request \ {r} : phase'[q] = phase[q]
      /\ vmLocation'[UUIDOf[r]] = chosen[r]
      /\ \A q \in Request \ {r} : vmLocation'[UUIDOf[q]] = vmLocation[UUIDOf[q]]
  BY ResourceAssumption DEF TypeOK, RegisterVM, FreshUUIDs
<1>2. /\ DOMAIN aliveVM = 1..Len(aliveVM) /\ DOMAIN aliveVM' = 1..(Len(aliveVM) + 1)
      /\ Len(aliveVM) \in Nat
      /\ aliveVM'[Len(aliveVM) + 1] = r
      /\ \A i \in DOMAIN aliveVM : aliveVM'[i] = aliveVM[i] /\ aliveVM[i] \in Request \ {r}
  BY <1>1, AppendProperties, LenProperties, ElementOfSeq DEF AliveInv
<1> QED
  BY <1>1, <1>2 DEF AliveInv

\* A shutdown takes one VM off the list and leaves the others on it once.
LEMMA AliveUnregister ==
    ASSUME TypeOK, AliveInv, NEW u \in UUID, UnregisterAlive(u)
    PROVE  AliveInv'
<1>1. /\ aliveVM \in Seq(Request)
      /\ phase' = phase /\ chosen' = chosen /\ vmLocation' = vmLocation
  BY DEF TypeOK, UnregisterAlive
<1>2. CASE aliveVM' = aliveVM
  BY <1>1, <1>2 DEF AliveInv
<1>3. ASSUME NEW i \in DOMAIN aliveVM, aliveVM' = RemoveAt(aliveVM, i) PROVE AliveInv'
  <2>1. /\ DOMAIN aliveVM' = 1..(Len(aliveVM) - 1)
        /\ \A j \in DOMAIN aliveVM' :
              /\ j < i => j \in DOMAIN aliveVM /\ aliveVM'[j] = aliveVM[j]
              /\ j >= i => j + 1 \in DOMAIN aliveVM /\ aliveVM'[j] = aliveVM[j + 1]
    BY <1>1, <1>3, RemoveAtEntries
  <2>2. i \in Int /\ Len(aliveVM) \in Int
    BY <1>1, <1>3, LenProperties
  <2> QED
    BY <1>1, <2>1, <2>2 DEF AliveInv
<1> QED
  BY <1>2, <1>3, Zenon DEF UnregisterAlive, AliveAt

LEMMA AliveStep ==
    ASSUME FreshUUIDs, TypeOK, AliveInv, [Next]_vars
    PROVE  AliveInv'
<1>1. ASSUME NEW r \in Request, \/ SelectCore(r) \/ NoCoreFits(r) \/ Abandon(r)
                                \/ AllocateResources(r) \/ DeallocateResources(r)
      PROVE  AliveInv'
  <2>1. /\ aliveVM' = aliveVM /\ vmLocation' = vmLocation
        /\ \A q \in Request : phase'[q] = "registered" <=> phase[q] = "registered"
        /\ \A q \in Request : phase[q] = "registered" => chosen'[q] = chosen[q]
    BY <1>1 DEF TypeOK, SelectCore, NoCoreFits, Abandon, AllocateResources, DeallocateResources
  <2>2. \A i \in DOMAIN aliveVM : aliveVM[i] \in Request
    BY ElementOfSeq, LenProperties DEF TypeOK
  <2> QED
    BY <2>1, <2>2 DEF AliveInv
<1>2. ASSUME NEW u \in UUID, NEW c \in Core, CacheLocation(u, c) PROVE AliveInv'
  BY <1>2 DEF AliveInv, TypeOK, CacheLocation, FreshUUIDs
<1>3. CASE UNCHANGED vars
  BY <1>3 DEF vars, AliveInv
<1> QED
  BY <1>1, <1>2, <1>3, AliveRegister, AliveUnregister DEF Next, RequestNext

\* Every VM on the list is there once, and is found by its uuid at the core whose index
\* holds its record, however registrations, lookups and shutdowns interleave.
THEOREM AliveLocated == ASSUME FreshUUIDs PROVE Spec => []AliveIsLocated
<1>1. Init => TypeOK /\ IndexMatchesBookings /\ AliveInv
  BY TypeInit, ResourceAssumption, EmptySeq DEF Init, IndexMatchesBookings, Held, AliveInv
<1>2. TypeOK /\ IndexMatchesBookings /\ AliveInv /\ [Next]_vars
        => TypeOK' /\ IndexMatchesBookings' /\ AliveInv'
  BY TypeStep, IndexStep, AliveStep
<1>3. TypeOK /\ IndexMatchesBookings /\ AliveInv => AliveIsLocated
  <2> SUFFICES ASSUME TypeOK, IndexMatchesBookings, AliveInv, NEW i \in DOMAIN aliveVM
               PROVE  /\ vmLocation[UUIDOf[aliveVM[i]]] # NoCore
                      /\ vmInfoIdx[vmLocation[UUIDOf[aliveVM[i]]]][UUIDOf[aliveVM[i]]] = aliveVM[i]
    BY DEF AliveIsLocated, AliveInv
  <2> DEFINE r == aliveVM[i]
  <2>1. r \in Request /\ phase[r] = "registered" /\ vmLocation[UUIDOf[r]] = chosen[r]
    BY ElementOfSeq, LenProperties DEF TypeOK, AliveInv
  <2>2. chosen[r] \in Core /\ UUIDOf[r] \in UUID /\ chosen[r] # NoCore
    BY <2>1, ResourceAssumption DEF TypeOK
  <2> QED
    BY <2>1, <2>2 DEF IndexMatchesBookings, Held
<1> QED
  BY <1>1, <1>2, <1>3, PTL DEF Spec

=============================================================================
