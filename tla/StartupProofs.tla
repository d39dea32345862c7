--------------------------- MODULE StartupProofs ---------------------------
(* Theorems about Startup, for any configurations, any number of Cores and  *)
(* whatever the database holds.                                             *)
EXTENDS Startup, FiniteSetTheorems, TLAPS

-----------------------------------------------------------------------------
(* The arrays behind the slice.                                            *)

CoreRecord == [address : Address, alive : BOOLEAN, free : [Resource -> Nat]]

Slices ==
    /\ arrays \in Seq(Seq(CoreRecord))
    /\ Len(arrays) >= 1

\* The elements there are, by array and position.
IsElement(A, n, i) == n \in 1..Len(A) /\ i \in 1..Len(A[n])

Label == {"memory", "disk", "write", "done", "failed"}

Goroutine == [pc : Label, at : Nat \X Nat]

Goroutines ==
    /\ polls \in Seq(Goroutine)
    /\ \A g \in 1..Len(polls) : IsElement(arrays, polls[g].at[1], polls[g].at[2])

Typed ==
    /\ config \in Seq(Address \cup {Malformed})
    /\ Slices
    /\ Goroutines
    /\ phase \in {"launch", "wait", "load", "serving", "failed"}

LEMMA ReportType ==
    ASSUME NEW a \in Address
    PROVE  Report(a) \in [Resource -> Nat]
  BY StartupAssumption DEF Report, Resource

LEMMA NewCoreType == ASSUME NEW a \in Address PROVE NewCore(a) \in CoreRecord
  BY DEF NewCore, CoreRecord

LEMMA SetInSeq ==
    ASSUME NEW S, NEW s \in Seq(S), NEW i \in 1..Len(s), NEW x \in S
    PROVE  LET t == [s EXCEPT ![i] = x] IN
           /\ t \in Seq(S)
           /\ Len(t) = Len(s)
           /\ \A j \in 1..Len(s) : t[j] = IF j = i THEN x ELSE s[j]
  OBVIOUS

\* Element i of array n is x in the next state, and nothing else differs.
Written(n, i, x) ==
    /\ Slices'
    /\ Len(arrays') = Len(arrays)
    /\ \A m, j : IsElement(arrays', m, j) <=> IsElement(arrays, m, j)
    /\ \A m, j : IsElement(arrays, m, j) =>
         arrays'[m][j] = IF m = n /\ j = i THEN x ELSE arrays[m][j]

\* One element is written to.
LEMMA SetElement ==
    ASSUME Slices, NEW n, NEW i, IsElement(arrays, n, i), NEW x \in CoreRecord,
           arrays' = [arrays EXCEPT ![n][i] = x]
    PROVE  Written(n, i, x)
<1>1. arrays[n] \in Seq(CoreRecord)
  BY DEF Slices, IsElement
<1> DEFINE t == [arrays[n] EXCEPT ![i] = x]
<1>2. /\ t \in Seq(CoreRecord) /\ Len(t) = Len(arrays[n])
      /\ \A j \in 1..Len(arrays[n]) : t[j] = IF j = i THEN x ELSE arrays[n][j]
  BY <1>1, SetInSeq DEF IsElement
<1>3. arrays' = [arrays EXCEPT ![n] = t]
  OBVIOUS
<1> HIDE DEF t
<1> DEFINE S == Seq(CoreRecord)
<1>5. arrays \in Seq(S) /\ n \in 1..Len(arrays) /\ t \in S
  BY <1>2 DEF Slices, IsElement
<1> HIDE DEF S
<1>4. /\ arrays' \in Seq(S) /\ Len(arrays') = Len(arrays)
      /\ \A m \in 1..Len(arrays) : arrays'[m] = IF m = n THEN t ELSE arrays[m]
  BY <1>3, <1>5, SetInSeq
<1> USE DEF S
<1> QED
  BY <1>2, <1>4 DEF Slices, IsElement, Written

\* A write that keeps the address of its element keeps those of the slice.
LEMMA WrittenPlaces ==
    ASSUME Slices, NEW n, NEW i, NEW x, Written(n, i, x), IsElement(arrays, n, i),
           x.address = arrays[n][i].address
    PROVE  /\ Len(Cores') = Len(Cores)
           /\ \A j \in 1..Len(Cores) : Cores'[j].address = Cores[j].address
<1> DEFINE m == Len(arrays)
<1>1. /\ m \in Nat /\ m >= 1 /\ Len(arrays') = m
      /\ Len(arrays[m]) \in Nat /\ Len(arrays'[m]) \in Nat
  BY DEF Slices, Written
<1>2. \A j : j \in 1..Len(arrays'[m]) <=> j \in 1..Len(arrays[m])
  BY <1>1 DEF Written, IsElement
<1>3. Len(arrays'[m]) = Len(arrays[m])
  <2>1. ASSUME NEW a \in Nat, NEW b \in Nat, \A j : j \in 1..a => j \in 1..b PROVE a <= b
    <3>1. a >= 1 => a \in 1..b
      BY <2>1
    <3> QED
      BY <3>1
  <2>2. Len(arrays'[m]) <= Len(arrays[m]) /\ Len(arrays[m]) <= Len(arrays'[m])
    BY <1>1, <1>2, <2>1
  <2> QED
    BY <1>1, <2>2
<1>4. \A j \in 1..Len(arrays[m]) : arrays'[m][j].address = arrays[m][j].address
  BY <1>1 DEF Written, IsElement
<1> QED
  BY <1>1, <1>3, <1>4 DEF Cores

\* A core is added: the elements there were stay, and if the slice moves, the copies
\* have their addresses, the capacity of before or of the report, and are as alive.
LEMMA AppendEffect ==
    ASSUME Slices, NEW a \in Address, AppendCore(a)
    PROVE  /\ Slices'
           /\ Len(arrays') \in {Len(arrays), Len(arrays) + 1}
           /\ Len(Cores') = Len(Cores) + 1
           /\ \A m, j : IsElement(arrays, m, j) => IsElement(arrays', m, j) /\ arrays'[m][j] = arrays[m][j]
           /\ \A m, j : IsElement(arrays', m, j) =>
                \/ IsElement(arrays, m, j)
                \/ m = Len(arrays') /\ j = Len(Cores') /\ arrays'[m][j] = NewCore(a)
                \/ /\ m = Len(arrays) + 1
                   /\ j \in 1..Len(Cores)
                   /\ arrays'[m][j] \in Copies(j)
<1> DEFINE n == Len(arrays)
<1>1. n \in Nat /\ n >= 1 /\ Cores = arrays[n] /\ Cores \in Seq(CoreRecord)
  BY DEF Slices, Cores
<1>2. NewCore(a) \in CoreRecord
  BY NewCoreType
<1>3. CASE arrays' = [arrays EXCEPT ![n] = Append(@, NewCore(a))]
  <2> DEFINE t == Append(Cores, NewCore(a))
  <2>1. /\ t \in Seq(CoreRecord) /\ Len(t) = Len(Cores) + 1
        /\ \A j \in 1..Len(Cores) : t[j] = Cores[j]
        /\ t[Len(Cores) + 1] = NewCore(a)
    BY <1>1, <1>2
  <2>2. arrays' = [arrays EXCEPT ![n] = t]
    BY <1>1, <1>3
  <2> HIDE DEF t
  <2>3. /\ arrays' \in Seq(Seq(CoreRecord)) /\ Len(arrays') = n
        /\ arrays'[n] = t
        /\ \A m \in 1..n : m # n => arrays'[m] = arrays[m]
    BY <1>1, <2>1, <2>2 DEF Slices
  <2>4. Cores' = t /\ Slices'
    BY <1>1, <2>3 DEF Cores, Slices
  <2>5. ASSUME NEW m, NEW j, IsElement(arrays, m, j)
        PROVE  IsElement(arrays', m, j) /\ arrays'[m][j] = arrays[m][j]
    <3>1. m \in 1..n /\ j \in 1..Len(arrays[m])
      BY <2>5 DEF IsElement
    <3>2. CASE m = n
      BY <1>1, <2>1, <2>3, <3>1, <3>2 DEF IsElement
    <3>3. CASE m # n
      BY <1>1, <2>3, <3>1, <3>3 DEF IsElement
    <3> QED
      BY <3>2, <3>3
  <2>6. ASSUME NEW m, NEW j, IsElement(arrays', m, j)
        PROVE  IsElement(arrays, m, j) \/ (m = Len(arrays') /\ j = Len(Cores') /\ arrays'[m][j] = NewCore(a))
    <3>1. m \in 1..n /\ j \in 1..Len(arrays'[m])
      BY <2>3, <2>6 DEF IsElement
    <3>2. CASE m = n
      BY <1>1, <2>1, <2>3, <2>4, <3>1, <3>2 DEF IsElement
    <3>3. CASE m # n
      BY <1>1, <2>3, <3>1, <3>3 DEF IsElement
    <3> QED
      BY <3>2, <3>3
  <2> QED
    BY <1>1, <2>1, <2>3, <2>4, <2>5, <2>6
<1>4. ASSUME NEW moved \in [1..Len(Cores) -> UNION {Copies(i) : i \in 1..Len(Cores)}],
             \A i \in 1..Len(Cores) : moved[i] \in Copies(i),
             arrays' = Append(arrays, Append(moved, NewCore(a)))
      PROVE  /\ Slices'
             /\ Len(arrays') = n + 1
             /\ Len(Cores') = Len(Cores) + 1
             /\ \A m, j : IsElement(arrays, m, j) => IsElement(arrays', m, j) /\ arrays'[m][j] = arrays[m][j]
             /\ \A m, j : IsElement(arrays', m, j) =>
                  \/ IsElement(arrays, m, j)
                  \/ m = n + 1 /\ j = Len(Cores) + 1 /\ arrays'[m][j] = NewCore(a)
                  \/ m = n + 1 /\ j \in 1..Len(Cores) /\ arrays'[m][j] \in Copies(j)
  <2>1. \A i \in 1..Len(Cores) : Copies(i) \subseteq CoreRecord
    <3> SUFFICES ASSUME NEW i \in 1..Len(Cores), NEW x \in Copies(i) PROVE x \in CoreRecord
      OBVIOUS
    <3>1. Cores[i] \in CoreRecord
      BY <1>1
    <3>2. Report(Cores[i].address) \in [Resource -> Nat] /\ Cores[i].free \in [Resource -> Nat]
      BY <3>1, ReportType DEF CoreRecord
    <3>3. CASE x = Cores[i]
      BY <3>1, <3>3
    <3>4. ASSUME NEW written \in SUBSET Resource,
                 x = [Cores[i] EXCEPT !.free = [k \in Resource |->
                       IF k \in written THEN Report(Cores[i].address)[k] ELSE @[k]]]
          PROVE  x \in CoreRecord
      BY <3>1, <3>2, <3>4 DEF CoreRecord
    <3> QED
      BY <3>3, <3>4 DEF Copies
  <2>2. moved \in Seq(CoreRecord) /\ Len(moved) = Len(Cores)
    <3>1. \A i \in 1..Len(Cores) : moved[i] \in CoreRecord
      BY <1>4, <2>1
    <3>2. Len(Cores) \in Nat /\ DOMAIN moved = 1..Len(Cores) /\ moved = [i \in 1..Len(Cores) |-> moved[i]]
      BY <1>1
    <3> QED
      BY <3>1, <3>2
  <2>3. /\ Append(moved, NewCore(a)) \in Seq(CoreRecord)
        /\ Len(Append(moved, NewCore(a))) = Len(Cores) + 1
        /\ \A j \in 1..Len(Cores) : Append(moved, NewCore(a))[j] = moved[j]
        /\ Append(moved, NewCore(a))[Len(Cores) + 1] = NewCore(a)
    BY <1>1, <1>2, <2>2
  <2>4. /\ arrays' \in Seq(Seq(CoreRecord)) /\ Len(arrays') = n + 1
        /\ \A m \in 1..n : arrays'[m] = arrays[m]
        /\ arrays'[n + 1] = Append(moved, NewCore(a))
    BY <1>1, <1>4, <2>3 DEF Slices
  <2> QED
    BY <1>1, <1>4, <2>2, <2>3, <2>4 DEF Slices, IsElement, Cores
<1> QED
  BY <1>3, <1>4, <1>1 DEF AppendCore

-----------------------------------------------------------------------------
(* The invariant.                                                          *)

\* An element marked dead has a goroutine that failed.
DeadHaveFailed ==
    \A m, j : IsElement(arrays, m, j) /\ ~arrays[m][j].alive =>
        \E g \in 1..Len(polls) : polls[g].pc = "failed"

\* No element has more than its core reported.
NoPhantom ==
    \A m, j : IsElement(arrays, m, j) =>
        \A k \in Resource : arrays[m][j].free[k] \in {0, Report(arrays[m][j].address)[k]}

\* A goroutine that is done has filled its element, if that is still in the slice.
DoneHaveFilled ==
    \A g \in 1..Len(polls) :
        polls[g].pc = "done" /\ polls[g].at[1] = Len(arrays) =>
            Element(g).free = Report(Element(g).address)

\* After the wait every goroutine is done.
AllBack == phase \in {"load", "serving"} => \A g \in 1..Len(polls) : polls[g].pc = "done"

\* The rows are loaded once, and all of them.
Loaded ==
    phase = "serving" =>
        /\ db \in Databases
        /\ \A v \in VM : db.row[v] <= Len(Cores)
        /\ index = [i \in 1..Len(Cores) |-> {v \in VM : db.row[v] = i}]

StartInv == Typed /\ DeadHaveFailed /\ NoPhantom /\ DoneHaveFilled /\ AllBack /\ Loaded

LEMMA StartInit == Init => StartInv
<1> SUFFICES ASSUME Init PROVE StartInv
  OBVIOUS
<1>1. arrays = << <<>> >> /\ Len(arrays) = 1 /\ arrays[1] = <<>> /\ polls = <<>> /\ Len(polls) = 0
      /\ Len(arrays[1]) = 0
  BY DEF Init
<1>2. Slices
  BY <1>1 DEF Slices
<1>3. \A m, j : ~IsElement(arrays, m, j)
  BY <1>1 DEF IsElement
<1>4. Goroutines
  BY <1>1 DEF Goroutines
<1>5. Typed
  BY <1>2, <1>4, StartupAssumption DEF Init, Typed
<1> QED
  BY <1>1, <1>3, <1>5 DEF Init, StartInv, DeadHaveFailed, NoPhantom, DoneHaveFilled, AllBack, Loaded

\* One goroutine goes on.
LEMMA PollMoves ==
    ASSUME Goroutines, NEW g \in 1..Len(polls),
           NEW l \in Label, PollGoto(g, l)
    PROVE  /\ polls' \in Seq(Goroutine)
           /\ Len(polls') = Len(polls)
           /\ \A h \in 1..Len(polls) : /\ polls'[h].at = polls[h].at
                                       /\ polls'[h].pc = IF h = g THEN l ELSE polls[h].pc
<1> DEFINE p == [polls[g] EXCEPT !.pc = l]
<1>1. polls \in Seq(Goroutine) /\ polls[g] \in Goroutine
  BY DEF Goroutines
<1>2. p \in Goroutine /\ p.at = polls[g].at /\ p.pc = l
  BY <1>1 DEF Goroutine
<1>3. polls' = [polls EXCEPT ![g] = p]
  BY DEF PollGoto
<1> HIDE DEF p
<1>4. /\ polls' \in Seq(Goroutine) /\ Len(polls') = Len(polls)
      /\ \A h \in 1..Len(polls) : polls'[h] = IF h = g THEN p ELSE polls[h]
  BY <1>1, <1>2, <1>3, SetInSeq
<1> QED
  BY <1>2, <1>4

\* A goroutine is launched at element i of array n.
LEMMA PollLaunched ==
    ASSUME Goroutines, NEW n \in Nat, NEW i \in Nat, Launch(<<n, i>>)
    PROVE  /\ polls' \in Seq(Goroutine)
           /\ Len(polls') = Len(polls) + 1
           /\ \A h \in 1..Len(polls) : polls'[h] = polls[h]
           /\ polls'[Len(polls) + 1] = [pc |-> "memory", at |-> <<n, i>>]
<1>1. polls \in Seq(Goroutine)
  BY DEF Goroutines
<1>2. [pc |-> "memory", at |-> <<n, i>>] \in Goroutine
  BY DEF Goroutine, Label
<1> QED
  BY <1>1, <1>2 DEF Launch

\* A goroutine points to an element with an address of the configuration.
LEMMA ElementType ==
    ASSUME Slices, Goroutines, NEW g \in 1..Len(polls)
    PROVE  /\ IsElement(arrays, polls[g].at[1], polls[g].at[2])
           /\ Element(g) \in CoreRecord
           /\ Element(g).address \in Address
           /\ Report(Element(g).address) \in [Resource -> Nat]
<1>1. IsElement(arrays, polls[g].at[1], polls[g].at[2])
  BY DEF Goroutines
<1>2. Element(g) \in CoreRecord
  BY <1>1 DEF Slices, Element, IsElement
<1> QED
  BY <1>1, <1>2, ReportType DEF CoreRecord

-----------------------------------------------------------------------------
(* The steps of main.                                                      *)

LEMMA AddNewStep ==
    ASSUME StartInv, NEW a \in Address, AppendCore(a), Launch(<<Len(arrays'), Len(Cores')>>),
           phase = "launch", UNCHANGED <<config, phase, db, index>>
    PROVE  StartInv'
<1> DEFINE n == Len(arrays)
           m1 == Len(arrays')
           j1 == Len(Cores')
<1>1. Slices /\ Goroutines /\ Typed
  BY DEF StartInv, Typed
<1>2. /\ Slices'
      /\ m1 \in {n, n + 1}
      /\ \A m, j : IsElement(arrays, m, j) => IsElement(arrays', m, j) /\ arrays'[m][j] = arrays[m][j]
      /\ \A m, j : IsElement(arrays', m, j) =>
           \/ IsElement(arrays, m, j)
           \/ m = m1 /\ j = j1 /\ arrays'[m][j] = NewCore(a)
           \/ /\ m = n + 1
              /\ j \in 1..Len(Cores)
              /\ arrays'[m][j] \in Copies(j)
  BY <1>1, AppendEffect
<1>3. n \in Nat /\ n >= 1 /\ IsElement(arrays', m1, j1) /\ m1 \in Nat /\ j1 \in Nat
      /\ \A j \in 1..Len(Cores) : IsElement(arrays, n, j) /\ arrays[n][j] = Cores[j] /\ Cores[j] \in CoreRecord
  <2>1. Len(Cores') = Len(Cores) + 1
    BY <1>1, AppendEffect
  <2> QED
    BY <1>1, <1>2, <2>1 DEF Slices, IsElement, Cores
<1>4. /\ polls' \in Seq(Goroutine)
      /\ Len(polls') = Len(polls) + 1
      /\ \A h \in 1..Len(polls) : polls'[h] = polls[h]
      /\ polls'[Len(polls) + 1] = [pc |-> "memory", at |-> <<m1, j1>>]
  BY <1>1, <1>3, PollLaunched
<1>5. Len(polls) \in Nat /\ \A g \in 1..Len(polls') : g \in 1..Len(polls) \/ g = Len(polls) + 1
  BY <1>1, <1>4 DEF Goroutines
<1>6. Goroutines'
  <2> SUFFICES ASSUME NEW g \in 1..Len(polls')
               PROVE  IsElement(arrays', polls'[g].at[1], polls'[g].at[2])
    BY <1>4 DEF Goroutines
  <2>1. CASE g \in 1..Len(polls)
    BY <1>1, <1>2, <1>4, <2>1 DEF Goroutines
  <2>2. CASE g = Len(polls) + 1
    BY <1>3, <1>4, <2>2
  <2> QED
    BY <1>5, <2>1, <2>2
<1>7. ASSUME NEW j \in 1..Len(Cores), NEW x \in Copies(j)
      PROVE  /\ x.address = Cores[j].address /\ x.alive = Cores[j].alive
             /\ \A k \in Resource : x.free[k] \in {Cores[j].free[k], Report(Cores[j].address)[k]}
  BY <1>3, <1>7 DEF Copies, CoreRecord
<1>8. DeadHaveFailed'
  <2> SUFFICES ASSUME NEW m, NEW j, IsElement(arrays', m, j), ~arrays'[m][j].alive
               PROVE  \E g \in 1..Len(polls') : polls'[g].pc = "failed"
    BY DEF DeadHaveFailed
  <2>1. \E g \in 1..Len(polls) : polls[g].pc = "failed"
    <3>1. CASE IsElement(arrays, m, j)
      BY <1>2, <3>1 DEF StartInv, DeadHaveFailed
    <3>2. CASE arrays'[m][j] = NewCore(a)
      BY <3>2 DEF NewCore
    <3>3. CASE j \in 1..Len(Cores) /\ arrays'[m][j] \in Copies(j)
      <4>1. IsElement(arrays, n, j) /\ arrays[n][j] = Cores[j]
        BY <1>3, <3>3
      <4>2. arrays'[m][j].alive = Cores[j].alive
        BY <1>7, <3>3
      <4> QED
        BY <4>1, <4>2 DEF StartInv, DeadHaveFailed
    <3> QED
      BY <1>2, <3>1, <3>2, <3>3
  <2> QED
    BY <1>4, <1>5, <2>1
<1>9. NoPhantom'
  <2> SUFFICES ASSUME NEW m, NEW j, IsElement(arrays', m, j), NEW k \in Resource
               PROVE  arrays'[m][j].free[k] \in {0, Report(arrays'[m][j].address)[k]}
    BY DEF NoPhantom, Report
  <2>1. CASE IsElement(arrays, m, j)
    BY <1>2, <2>1 DEF StartInv, NoPhantom
  <2>2. CASE arrays'[m][j] = NewCore(a)
    BY <2>2 DEF NewCore
  <2>3. CASE j \in 1..Len(Cores) /\ arrays'[m][j] \in Copies(j)
    <3>1. IsElement(arrays, n, j) /\ arrays[n][j] = Cores[j]
      BY <1>3, <2>3
    <3>2. arrays'[m][j].address = Cores[j].address
      BY <1>7, <2>3
    <3>3. arrays'[m][j].free[k] \in {Cores[j].free[k], Report(Cores[j].address)[k]}
      BY <1>7, <2>3
    <3>4. Cores[j].free[k] \in {0, Report(Cores[j].address)[k]}
      BY <3>1 DEF StartInv, NoPhantom
    <3> QED
      BY <3>2, <3>3, <3>4
  <2> QED
    BY <1>2, <2>1, <2>2, <2>3
<1>10. DoneHaveFilled'
  <2> SUFFICES ASSUME NEW g \in 1..Len(polls'), polls'[g].pc = "done", polls'[g].at[1] = m1
               PROVE  Element(g)'.free = Report(Element(g)'.address)
    BY DEF DoneHaveFilled, Report
  <2>1. g \in 1..Len(polls) /\ polls'[g] = polls[g]
    BY <1>4, <1>5
  <2>2. IsElement(arrays, polls[g].at[1], polls[g].at[2])
    BY <1>1, <2>1 DEF Goroutines
  <2>3. m1 = n
    BY <1>2, <1>3, <2>1, <2>2 DEF IsElement
  <2>4. Element(g)' = Element(g)
    BY <1>2, <2>1, <2>2 DEF Element
  <2> QED
    BY <2>1, <2>3, <2>4 DEF StartInv, DoneHaveFilled
<1>11. Typed' /\ AllBack' /\ Loaded'
  BY <1>1, <1>2, <1>6 DEF Typed, AllBack, Loaded
<1> QED
  BY <1>8, <1>9, <1>10, <1>11 DEF StartInv

LEMMA AddKnownStep ==
    ASSUME StartInv, NEW a \in Address, NEW i \in FindCore(a),
           arrays' = [arrays EXCEPT ![Len(arrays)][i].alive = TRUE],
           Launch(<<Len(arrays), i>>),
           phase = "launch", UNCHANGED <<config, phase, db, index>>
    PROVE  StartInv'
<1> DEFINE n == Len(arrays)
           x == [arrays[n][i] EXCEPT !.alive = TRUE]
<1>1. Slices /\ Goroutines /\ Typed
  BY DEF StartInv, Typed
<1>2. n \in Nat /\ i \in Nat /\ IsElement(arrays, n, i) /\ arrays[n][i] \in CoreRecord
  BY <1>1 DEF Slices, IsElement, FindCore, Cores
<1>3. /\ x \in CoreRecord /\ x.alive
      /\ x.address = arrays[n][i].address /\ x.free = arrays[n][i].free
  BY <1>2 DEF CoreRecord
<1>4. Written(n, i, x)
  <2>1. arrays' = [arrays EXCEPT ![n][i] = x]
    OBVIOUS
  <2> HIDE DEF x
  <2> QED
    BY <1>1, <1>2, <1>3, <2>1, SetElement
<1> HIDE DEF x
<1>5. ASSUME NEW m, NEW j, IsElement(arrays', m, j)
       PROVE  /\ IsElement(arrays, m, j)
              /\ ~arrays'[m][j].alive => ~arrays[m][j].alive
              /\ arrays'[m][j].free = arrays[m][j].free
              /\ arrays'[m][j].address = arrays[m][j].address
  <2>1. IsElement(arrays, m, j)
    BY <1>4, <1>5 DEF Written
  <2>2. CASE m = n /\ j = i
    <3>1. arrays'[m][j] = x
      BY <1>4, <2>1, <2>2 DEF Written
    <3> QED
      BY <1>3, <2>1, <2>2, <3>1
  <2>3. CASE ~(m = n /\ j = i)
    <3>1. arrays'[m][j] = arrays[m][j]
      BY <1>4, <2>1, <2>3 DEF Written
    <3> QED
      BY <2>1, <3>1
  <2> QED
    BY <2>2, <2>3
<1>6. /\ polls' \in Seq(Goroutine)
      /\ Len(polls') = Len(polls) + 1
      /\ \A h \in 1..Len(polls) : polls'[h] = polls[h]
      /\ polls'[Len(polls) + 1] = [pc |-> "memory", at |-> <<n, i>>]
  BY <1>1, <1>2, PollLaunched
<1>7. Len(polls) \in Nat /\ \A g \in 1..Len(polls') : g \in 1..Len(polls) \/ g = Len(polls) + 1
  BY <1>1, <1>6 DEF Goroutines
<1>8. Goroutines'
  <2> SUFFICES ASSUME NEW g \in 1..Len(polls')
               PROVE  IsElement(arrays', polls'[g].at[1], polls'[g].at[2])
    BY <1>6 DEF Goroutines
  <2>1. CASE g \in 1..Len(polls)
    <3>1. polls'[g] = polls[g] /\ IsElement(arrays, polls[g].at[1], polls[g].at[2])
      BY <1>1, <1>6, <2>1 DEF Goroutines
    <3> QED
      BY <1>4, <3>1 DEF Written
  <2>2. CASE g = Len(polls) + 1
    <3>1. IsElement(arrays', n, i)
      BY <1>2, <1>4 DEF Written
    <3>2. polls'[g].at = <<n, i>>
      BY <1>6, <2>2
    <3> QED
      BY <3>1, <3>2
  <2>3. g \in 1..Len(polls) \/ g = Len(polls) + 1
    BY <1>7
  <2> QED
    BY <2>1, <2>2, <2>3
<1>9. DeadHaveFailed'
  <2> SUFFICES ASSUME NEW m, NEW j, IsElement(arrays', m, j), ~arrays'[m][j].alive
               PROVE  \E g \in 1..Len(polls') : polls'[g].pc = "failed"
    BY DEF DeadHaveFailed
  <2>1. IsElement(arrays, m, j) /\ ~arrays[m][j].alive
    BY <1>5
  <2>2. \E g \in 1..Len(polls) : polls[g].pc = "failed"
    BY <2>1 DEF StartInv, DeadHaveFailed
  <2> QED
    BY <1>6, <1>7, <2>2
<1>10. NoPhantom'
  <2> SUFFICES ASSUME NEW m, NEW j, IsElement(arrays', m, j), NEW k \in Resource
               PROVE  arrays'[m][j].free[k] \in {0, Report(arrays'[m][j].address)[k]}
    BY DEF NoPhantom, Report
  <2>1. IsElement(arrays, m, j)
    BY <1>5
  <2>2. arrays'[m][j].free = arrays[m][j].free
    BY <1>5
  <2>3. arrays'[m][j].address = arrays[m][j].address
    BY <1>5
  <2> QED
    BY <2>1, <2>2, <2>3 DEF StartInv, NoPhantom
<1>11. DoneHaveFilled'
  <2> SUFFICES ASSUME NEW g \in 1..Len(polls'), polls'[g].pc = "done", polls'[g].at[1] = Len(arrays')
               PROVE  Element(g)'.free = Report(Element(g)'.address)
    BY DEF DoneHaveFilled, Report
  <2>1. g \in 1..Len(polls) /\ polls'[g] = polls[g]
    BY <1>6, <1>7
  <2>2. IsElement(arrays, polls[g].at[1], polls[g].at[2]) /\ polls[g].at[1] = n
    BY <1>1, <1>4, <2>1 DEF Goroutines, Written
  <2>3. Element(g)'.free = Element(g).free /\ Element(g)'.address = Element(g).address
    BY <1>3, <1>4, <2>1, <2>2 DEF Element, Written
  <2> QED
    BY <2>1, <2>2, <2>3 DEF StartInv, DoneHaveFilled
<1>12. Typed' /\ AllBack' /\ Loaded'
  BY <1>1, <1>4, <1>8 DEF Typed, AllBack, Loaded, Written
<1> QED
  BY <1>9, <1>10, <1>11, <1>12 DEF StartInv

LEMMA AddCoreStep == StartInv /\ AddCore => StartInv'
<1> SUFFICES ASSUME StartInv, AddCore PROVE StartInv'
  OBVIOUS
<1> DEFINE a == config[Len(polls) + 1]
<1>1. a \in Address
  BY DEF AddCore, StartInv, Typed, Goroutines
<1>2. phase = "launch" /\ UNCHANGED <<config, phase, db, index>>
  BY DEF AddCore
<1>3. CASE AppendCore(a) /\ Launch(<<Len(arrays'), Len(Cores')>>)
  BY <1>1, <1>2, <1>3, AddNewStep
<1>4. ASSUME NEW i \in FindCore(a),
             arrays' = [arrays EXCEPT ![Len(arrays)][i].alive = TRUE],
             Launch(<<Len(arrays), i>>)
      PROVE  StartInv'
  BY <1>1, <1>2, <1>4, AddKnownStep
<1> QED
  BY <1>3, <1>4 DEF AddCore

\* A step of main that touches neither the slice nor the goroutines.
LEMMA MainGoesOn ==
    ASSUME StartInv, UNCHANGED <<config, arrays, polls>>,
           phase' \in {"launch", "wait", "load", "serving", "failed"}
    PROVE  Typed' /\ DeadHaveFailed' /\ NoPhantom' /\ DoneHaveFilled'
<1>1. Typed'
  BY DEF StartInv, Typed, Slices, Goroutines
<1>2. DeadHaveFailed' /\ NoPhantom'
  BY DEF StartInv, DeadHaveFailed, NoPhantom, Report
<1>3. DoneHaveFilled'
  BY DEF StartInv, DoneHaveFilled, Element, Report
<1> QED
  BY <1>1, <1>2, <1>3

LEMMA RejectAddressStep == StartInv /\ RejectAddress => StartInv'
  BY MainGoesOn DEF RejectAddress, StartInv, AllBack, Loaded

LEMMA AllLaunchedStep == StartInv /\ AllLaunched => StartInv'
  BY MainGoesOn DEF AllLaunched, StartInv, AllBack, Loaded

LEMMA PanicOnEmptyStep ==
    ASSUME StartInv, NEW g \in 1..Len(polls), PanicOnEmpty(g) PROVE StartInv'
  BY MainGoesOn DEF PanicOnEmpty, StartInv, AllBack, Loaded

LEMMA WaitStep == StartInv /\ Wait => StartInv'
<1> SUFFICES ASSUME StartInv, Wait PROVE StartInv'
  OBVIOUS
<1>1. phase' \in {"load", "failed"} /\ UNCHANGED <<config, arrays, polls>>
  BY DEF Wait
<1>2. AllBack'
  BY DEF Wait, AllBack
<1> QED
  BY <1>1, <1>2, MainGoesOn DEF StartInv, Loaded

LEMMA LoadRowsStep == StartInv /\ LoadRows => StartInv'
<1> SUFFICES ASSUME StartInv, LoadRows PROVE StartInv'
  OBVIOUS
<1>1. phase' \in {"serving", "failed"} /\ UNCHANGED <<config, arrays, polls>> /\ db' \in Databases
  BY DEF LoadRows
<1>2. AllBack'
  BY <1>1 DEF LoadRows, AllBack, StartInv
<1>3. Loaded'
  BY <1>1 DEF LoadRows, Loaded, Cores
<1> QED
  BY <1>1, <1>2, <1>3, MainGoesOn DEF StartInv

-----------------------------------------------------------------------------
(* The steps of a goroutine.                                               *)

\* It goes on to l, and its element is x: as alive as before unless it failed, and
\* with the capacity of before or of the report, of the report if it is done.
LEMMA PollStep ==
    ASSUME StartInv, NEW g \in 1..Len(polls), NEW l \in Label, NEW x \in CoreRecord,
           phase \in {"launch", "wait"}, UNCHANGED <<config, phase, db, index>>,
           polls[g].pc \notin {"done", "failed"}, PollGoto(g, l),
           Written(polls[g].at[1], polls[g].at[2], x),
           x.address = Element(g).address,
           x.alive \/ ~Element(g).alive \/ l = "failed",
           x.free \in {Element(g).free, Report(x.address)},
           l = "done" => x.free = Report(x.address)
    PROVE  StartInv'
<1>1. Slices /\ Goroutines /\ Typed
  BY DEF StartInv, Typed
<1>2. IsElement(arrays, polls[g].at[1], polls[g].at[2])
  BY <1>1 DEF Goroutines
<1>3. /\ polls' \in Seq(Goroutine)
      /\ Len(polls') = Len(polls)
      /\ \A h \in 1..Len(polls) : /\ polls'[h].at = polls[h].at
                                  /\ polls'[h].pc = IF h = g THEN l ELSE polls[h].pc
  BY <1>1, PollMoves
<1>4. \A h \in 1..Len(polls) : polls[h].pc = "failed" => polls'[h].pc = "failed"
  BY <1>3
<1>5. Goroutines'
  <2> SUFFICES ASSUME NEW h \in 1..Len(polls')
               PROVE  IsElement(arrays', polls'[h].at[1], polls'[h].at[2])
    BY <1>3 DEF Goroutines
  <2> QED
    BY <1>1, <1>3 DEF Goroutines, Written
<1>6. DeadHaveFailed'
  <2> SUFFICES ASSUME NEW m, NEW j, IsElement(arrays', m, j), ~arrays'[m][j].alive
               PROVE  \E h \in 1..Len(polls') : polls'[h].pc = "failed"
    BY DEF DeadHaveFailed
  <2>1. CASE l = "failed"
    BY <1>3, <2>1
  <2>2. CASE l # "failed"
    <3>1. IsElement(arrays, m, j) /\ ~arrays[m][j].alive
      BY <2>2 DEF Written, Element
    <3> QED
      BY <1>3, <1>4, <3>1 DEF StartInv, DeadHaveFailed
  <2> QED
    BY <2>1, <2>2
<1>7. NoPhantom'
  <2> SUFFICES ASSUME NEW m, NEW j, IsElement(arrays', m, j), NEW k \in Resource
               PROVE  arrays'[m][j].free[k] \in {0, Report(arrays'[m][j].address)[k]}
    BY DEF NoPhantom, Report
  <2>1. IsElement(arrays, m, j)
    BY DEF Written
  <2>2. CASE arrays'[m][j] = arrays[m][j]
    BY <2>1, <2>2 DEF StartInv, NoPhantom
  <2>3. CASE arrays'[m][j] = x
    <3>1. Element(g).free[k] \in {0, Report(Element(g).address)[k]}
      BY <1>2 DEF StartInv, NoPhantom, Element
    <3> QED
      BY <2>3, <3>1
  <2> QED
    BY <2>1, <2>2, <2>3 DEF Written
<1>8. DoneHaveFilled'
  <2> SUFFICES ASSUME NEW h \in 1..Len(polls'), polls'[h].pc = "done", polls'[h].at[1] = Len(arrays')
               PROVE  Element(h)'.free = Report(Element(h)'.address)
    BY DEF DoneHaveFilled, Report
  <2>1. /\ h \in 1..Len(polls) /\ polls'[h].at = polls[h].at
        /\ polls[h].at[1] = Len(arrays)
        /\ IsElement(arrays, polls[h].at[1], polls[h].at[2])
    BY <1>1, <1>3 DEF Goroutines, Written
  <2>2. Element(h)' = IF polls[h].at[1] = polls[g].at[1] /\ polls[h].at[2] = polls[g].at[2]
                      THEN x ELSE Element(h)
    BY <2>1 DEF Element, Written
  <2>3. CASE h = g
    BY <1>3, <2>2, <2>3
  <2>4. CASE h # g
    <3>1. Element(h).free = Report(Element(h).address)
      BY <1>3, <2>1, <2>4 DEF StartInv, DoneHaveFilled
    <3>2. CASE Element(h)' = Element(h)
      BY <3>1, <3>2
    <3>3. CASE Element(h)' = x /\ Element(h) = Element(g)
      BY <3>1, <3>3
    <3> QED
      BY <2>2, <3>2, <3>3 DEF Element
  <2> QED
    BY <2>3, <2>4
<1>9. Typed' /\ AllBack' /\ Loaded'
  BY <1>1, <1>5 DEF Typed, AllBack, Loaded, Written
<1> QED
  BY <1>6, <1>7, <1>8, <1>9 DEF StartInv

\* Nothing is written.
LEMMA WrittenAsIs ==
    ASSUME Slices, Goroutines, UNCHANGED arrays, NEW g \in 1..Len(polls)
    PROVE  Written(polls[g].at[1], polls[g].at[2], Element(g))
  BY DEF Written, Slices, Element

LEMMA AskStep ==
    ASSUME StartInv, NEW g \in 1..Len(polls), NEW label \in {"memory", "disk"},
           NEW next \in {"disk", "write"}, Ask(g, label, next)
    PROVE  StartInv'
<1>1. Slices /\ Goroutines
  BY DEF StartInv, Typed
<1>2. IsElement(arrays, polls[g].at[1], polls[g].at[2]) /\ Element(g) \in CoreRecord
  BY <1>1, ElementType
<1>3. /\ phase \in {"launch", "wait"} /\ UNCHANGED <<config, phase, db, index>>
      /\ polls[g].pc \notin {"done", "failed"}
      /\ next \in Label /\ "failed" \in Label /\ next # "done"
  BY DEF Ask, PollRuns, Label
<1>4. CASE PollGoto(g, next) /\ UNCHANGED arrays
  <2>1. Written(polls[g].at[1], polls[g].at[2], Element(g))
    BY <1>1, <1>4, WrittenAsIs
  <2> QED
    BY <1>2, <1>3, <1>4, <2>1, PollStep
<1>5. CASE /\ PollGoto(g, "failed")
           /\ arrays' = [arrays EXCEPT ![polls[g].at[1]][polls[g].at[2]].alive = FALSE]
  <2> DEFINE x == [Element(g) EXCEPT !.alive = FALSE]
  <2>1. x \in CoreRecord /\ x.address = Element(g).address /\ x.free = Element(g).free
    BY <1>2 DEF CoreRecord
  <2>2. arrays' = [arrays EXCEPT ![polls[g].at[1]][polls[g].at[2]] = x]
    BY <1>5 DEF Element
  <2> HIDE DEF x
  <2>3. Written(polls[g].at[1], polls[g].at[2], x)
    BY <1>1, <1>2, <2>1, <2>2, SetElement
  <2> QED
    BY <1>3, <1>5, <2>1, <2>3, PollStep
<1> QED
  BY <1>4, <1>5 DEF Ask

LEMMA StoreReportStep ==
    ASSUME StartInv, NEW g \in 1..Len(polls), StoreReport(g)
    PROVE  StartInv'
<1>1. Slices /\ Goroutines
  BY DEF StartInv, Typed
<1>2. /\ IsElement(arrays, polls[g].at[1], polls[g].at[2])
      /\ Element(g) \in CoreRecord
      /\ Report(Element(g).address) \in [Resource -> Nat]
  BY <1>1, ElementType
<1>3. /\ phase \in {"launch", "wait"} /\ UNCHANGED <<config, phase, db, index>>
      /\ polls[g].pc \notin {"done", "failed"}
      /\ "done" \in Label /\ PollGoto(g, "done")
  BY DEF StoreReport, PollRuns, Label
<1> DEFINE x == [Element(g) EXCEPT !.free = Report(Element(g).address)]
<1>4. /\ x \in CoreRecord /\ x.address = Element(g).address
      /\ x.alive = Element(g).alive /\ x.free = Report(x.address)
  BY <1>2 DEF CoreRecord
<1>5. arrays' = [arrays EXCEPT ![polls[g].at[1]][polls[g].at[2]] = x]
  BY DEF StoreReport, Element
<1> HIDE DEF x
<1>6. Written(polls[g].at[1], polls[g].at[2], x)
  BY <1>1, <1>2, <1>4, <1>5, SetElement
<1> QED
  BY <1>3, <1>4, <1>6, PollStep

-----------------------------------------------------------------------------
(* The places of the Cores.  The slice is the configuration read so far, each *)
(* Core where it is named first: it is appended there (no element has its     *)
(* address yet), and nothing that happens to the arrays moves it.             *)

\* Element i is the i-th Core that the loop has come across.
PlacedInOrder(A, c, n) ==
    \A i \in 1..Len(A) :
        \E k \in 1..n : c[k] = A[i].address /\ c[k] \notin {c[j] : j \in 1..(k - 1)}
                        /\ Cardinality({c[j] : j \in 1..k}) = i

\* The loop has forgotten no Core and added none twice.
NoneLeftOut(A, c, n) ==
    /\ \A j \in 1..n : \E i \in 1..Len(A) : A[i].address = c[j]
    /\ IsFiniteSet({c[j] : j \in 1..n})
    /\ Cardinality({c[j] : j \in 1..n}) = Len(A)

FollowsConfig ==
    /\ Len(polls) <= Len(config)
    /\ phase \in {"wait", "load", "serving"} => Len(polls) = Len(config)
    /\ PlacedInOrder(Cores, config, Len(polls))
    /\ NoneLeftOut(Cores, config, Len(polls))

LEMMA FollowsInit == Init => FollowsConfig
<1> SUFFICES ASSUME Init PROVE FollowsConfig
  OBVIOUS
<1>1. Len(polls) = 0 /\ Len(Cores) = 0 /\ config \in Seq(Address \cup {Malformed})
  BY StartupAssumption DEF Init, Cores
<1>2. {config[j] : j \in 1..0} = {}
  OBVIOUS
<1>3. NoneLeftOut(Cores, config, 0)
  BY <1>1, <1>2, FS_EmptySet DEF NoneLeftOut
<1> QED
  BY <1>1, <1>3 DEF Init, FollowsConfig, PlacedInOrder

\* The slice keeps its length and its addresses, and no Core is launched.
LEMMA PlacesKept ==
    ASSUME FollowsConfig, UNCHANGED config, Len(polls') = Len(polls),
           phase' \in {"wait", "load", "serving"} =>
               phase \in {"wait", "load", "serving"} \/ Len(polls) = Len(config),
           Len(Cores') = Len(Cores),
           \A i \in 1..Len(Cores) : Cores'[i].address = Cores[i].address
    PROVE  FollowsConfig'
<1> DEFINE A == Cores
           B == Cores'
           p == Len(polls)
<1>1. PlacedInOrder(A, config, p) /\ NoneLeftOut(A, config, p)
  BY DEF FollowsConfig
<1>2. Len(B) = Len(A) /\ \A i \in 1..Len(A) : B[i].address = A[i].address
  OBVIOUS
<1> HIDE DEF A, B
<1>3. PlacedInOrder(B, config, p) /\ NoneLeftOut(B, config, p)
  BY <1>1, <1>2 DEF PlacedInOrder, NoneLeftOut
<1> USE DEF A, B
<1> QED
  BY <1>3 DEF FollowsConfig

LEMMA FollowsAddNew ==
    ASSUME StartInv, FollowsConfig, phase = "launch", Len(polls) < Len(config),
           config[Len(polls) + 1] \in Address, FindCore(config[Len(polls) + 1]) = {},
           AppendCore(config[Len(polls) + 1]), Launch(<<Len(arrays'), Len(Cores')>>),
           UNCHANGED <<config, phase>>
    PROVE  FollowsConfig'
<1> DEFINE p == Len(polls)
           a == config[p + 1]
           n == Len(arrays)
           A == Cores
           B == Cores'
           S == {config[j] : j \in 1..p}
<1>1. Slices /\ Goroutines
  BY DEF StartInv, Typed
<1>2. /\ Slices'
      /\ Len(arrays') \in {n, n + 1}
      /\ Len(B) = Len(A) + 1
      /\ \A m, j : IsElement(arrays, m, j) => IsElement(arrays', m, j) /\ arrays'[m][j] = arrays[m][j]
      /\ \A m, j : IsElement(arrays', m, j) =>
           \/ IsElement(arrays, m, j)
           \/ m = Len(arrays') /\ j = Len(B) /\ arrays'[m][j] = NewCore(a)
           \/ /\ m = n + 1
              /\ j \in 1..Len(A)
              /\ arrays'[m][j] \in Copies(j)
  BY <1>1, AppendEffect
<1>3. /\ p \in Nat /\ n \in Nat /\ n >= 1 /\ A = arrays[n] /\ B = arrays'[Len(arrays')]
      /\ Len(A) \in Nat /\ A \in Seq(CoreRecord)
      /\ \A j : j \in 1..Len(B) => IsElement(arrays', Len(arrays'), j)
  BY <1>1, <1>2 DEF Slices, Goroutines, IsElement, Cores
<1>4. Len(B) = Len(A) + 1 /\ Len(A) \in Nat
  BY <1>2, <1>3
<1>5. ASSUME NEW i \in 1..Len(A) PROVE B[i].address = A[i].address
  <2>1. IsElement(arrays', Len(arrays'), i) /\ i # Len(B)
    <3>1. i \in 1..Len(B) /\ i # Len(B)
      BY <1>4
    <3> QED
      BY <1>3, <3>1
  <2>2. CASE IsElement(arrays, Len(arrays'), i)
    <3>1. Len(arrays') = n
      <4>1. Len(arrays') \in {n, n + 1} /\ Len(arrays') \in 1..n
        BY <1>2, <2>2 DEF IsElement
      <4> QED
        BY <1>3, <4>1
    <3>2. arrays'[Len(arrays')][i] = arrays[Len(arrays')][i]
      BY <1>2, <2>2
    <3> QED
      BY <1>3, <3>1, <3>2
  <2>3. CASE B[i] \in Copies(i)
    <3>1. ASSUME NEW x \in Copies(i) PROVE x.address = A[i].address
      <4>1. A[i] \in CoreRecord
        BY <1>3
      <4> QED
        BY <3>1, <4>1 DEF Copies, CoreRecord
    <3> QED
      BY <2>3, <3>1
  <2> QED
    BY <1>2, <1>3, <2>1, <2>2, <2>3
<1>6. B[Len(A) + 1].address = a
  <2>1. /\ IsElement(arrays', Len(arrays'), Len(B)) /\ Len(B) = Len(A) + 1
        /\ ~IsElement(arrays, Len(arrays'), Len(B))
    BY <1>2, <1>3 DEF IsElement
  <2>2. B[Len(B)] = NewCore(a)
    BY <1>2, <1>3, <2>1
  <2> QED
    BY <2>1, <2>2 DEF NewCore
<1>7. Len(polls') = p + 1
  <2>1. Len(arrays') \in Nat /\ Len(B) \in Nat
    BY <1>2, <1>3
  <2> QED
    BY <1>1, <2>1, PollLaunched
<1>8. PlacedInOrder(A, config, p) /\ NoneLeftOut(A, config, p)
  BY DEF FollowsConfig
<1>9. \A i \in 1..Len(A) : A[i].address # a
  BY DEF FindCore
<1> HIDE DEF A, B
<1>10. a \notin S /\ {config[j] : j \in 1..(p + 1)} = S \cup {a}
  <2>1. ASSUME NEW j \in 1..p PROVE config[j] # a
    <3>1. PICK i \in 1..Len(A) : A[i].address = config[j]
      BY <1>8 DEF NoneLeftOut
    <3> QED
      BY <1>9, <3>1
  <2>2. 1..(p + 1) = (1..p) \cup {p + 1}
    BY <1>3
  <2> QED
    BY <2>1, <2>2
<1>11. IsFiniteSet(S \cup {a}) /\ Cardinality(S \cup {a}) = Len(A) + 1
  <2>1. IsFiniteSet(S) /\ Cardinality(S) = Len(A)
    BY <1>8 DEF NoneLeftOut
  <2> QED
    BY <1>10, <2>1, FS_AddElement
<1>12. NoneLeftOut(B, config, p + 1)
  <2>1. ASSUME NEW j \in 1..(p + 1) PROVE \E i \in 1..Len(B) : B[i].address = config[j]
    <3>1. CASE j = p + 1
      <4>1. Len(B) \in 1..Len(B) /\ B[Len(B)].address = config[j]
        BY <1>4, <1>6, <3>1
      <4> QED
        BY <4>1
    <3>2. CASE j # p + 1
      <4>1. PICK i \in 1..Len(A) : A[i].address = config[j]
        <5>1. j \in 1..p
          BY <1>3, <3>2
        <5> QED
          BY <1>8, <5>1 DEF NoneLeftOut
      <4>2. i \in 1..Len(B) /\ B[i].address = config[j]
        BY <1>2, <1>3, <1>5, <4>1
      <4> QED
        BY <4>2
    <3> QED
      BY <3>1, <3>2
  <2> QED
    BY <1>2, <1>10, <1>11, <2>1 DEF NoneLeftOut
<1>13. PlacedInOrder(B, config, p + 1)
  <2> SUFFICES ASSUME NEW i \in 1..Len(B)
               PROVE  \E k \in 1..(p + 1) :
                        /\ config[k] = B[i].address
                        /\ config[k] \notin {config[j] : j \in 1..(k - 1)}
                        /\ Cardinality({config[j] : j \in 1..k}) = i
    BY DEF PlacedInOrder
  <2>1. CASE i \in 1..Len(A)
    <3>1. PICK k \in 1..p : /\ config[k] = A[i].address
                            /\ config[k] \notin {config[j] : j \in 1..(k - 1)}
                            /\ Cardinality({config[j] : j \in 1..k}) = i
      BY <1>8, <2>1 DEF PlacedInOrder
    <3>2. k \in 1..(p + 1) /\ config[k] = B[i].address
      BY <1>3, <1>5, <2>1, <3>1
    <3> QED
      BY <3>1, <3>2
  <2>2. CASE i = Len(A) + 1
    <3>1. config[p + 1] = B[i].address /\ p + 1 \in 1..(p + 1) /\ (p + 1) - 1 = p
      BY <1>3, <1>6, <2>2
    <3>2. config[p + 1] \notin {config[j] : j \in 1..((p + 1) - 1)}
      BY <1>10, <3>1
    <3>3. Cardinality({config[j] : j \in 1..(p + 1)}) = i
      BY <1>10, <1>11, <2>2
    <3> QED
      BY <3>1, <3>2, <3>3
  <2>3. i \in 1..Len(A) \/ i = Len(A) + 1
    BY <1>4
  <2> QED
    BY <2>1, <2>2, <2>3
<1> USE DEF A, B
<1>14. Len(polls') <= Len(config)
  BY <1>3, <1>7 DEF StartInv, Typed
<1> QED
  BY <1>12, <1>13, <1>14, <1>7 DEF FollowsConfig

LEMMA FollowsAddKnown ==
    ASSUME StartInv, FollowsConfig, phase = "launch", Len(polls) < Len(config),
           NEW i \in FindCore(config[Len(polls) + 1]),
           arrays' = [arrays EXCEPT ![Len(arrays)][i].alive = TRUE],
           Launch(<<Len(arrays), i>>), UNCHANGED <<config, phase>>
    PROVE  FollowsConfig'
<1> DEFINE p == Len(polls)
           n == Len(arrays)
           A == Cores
           B == Cores'
           x == [arrays[n][i] EXCEPT !.alive = TRUE]
           S == {config[j] : j \in 1..p}
<1>1. Slices /\ Goroutines
  BY DEF StartInv, Typed
<1>2. /\ n \in Nat /\ i \in Nat /\ IsElement(arrays, n, i) /\ arrays[n][i] \in CoreRecord
      /\ i \in 1..Len(A) /\ A[i].address = config[p + 1] /\ p \in Nat /\ A = arrays[n]
  BY <1>1 DEF Slices, IsElement, FindCore, Cores, Goroutines
<1>3. x \in CoreRecord /\ x.address = arrays[n][i].address
  BY <1>2 DEF CoreRecord
<1>4. Written(n, i, x)
  <2>1. arrays' = [arrays EXCEPT ![n][i] = x]
    OBVIOUS
  <2> HIDE DEF x
  <2> QED
    BY <1>1, <1>2, <1>3, <2>1, SetElement
<1> HIDE DEF x
<1>5. Len(B) = Len(A) /\ \A j \in 1..Len(A) : B[j].address = A[j].address
  BY <1>1, <1>2, <1>3, <1>4, WrittenPlaces
<1>6. Len(polls') = p + 1
  BY <1>1, <1>2, PollLaunched
<1>7. PlacedInOrder(A, config, p) /\ NoneLeftOut(A, config, p)
  BY DEF FollowsConfig
<1> HIDE DEF A, B
<1>8. PICK k \in 1..p : config[k] = config[p + 1]
  BY <1>2, <1>7 DEF PlacedInOrder
<1>9. {config[j] : j \in 1..(p + 1)} = S
  BY <1>2, <1>8
<1>10. NoneLeftOut(B, config, p + 1)
  <2>1. \A j \in 1..(p + 1) : config[j] \in S
    BY <1>9
  <2>2. ASSUME NEW j \in 1..(p + 1) PROVE \E l \in 1..Len(B) : B[l].address = config[j]
    <3>1. PICK q \in 1..p : config[j] = config[q]
      BY <2>1
    <3>2. PICK l \in 1..Len(A) : A[l].address = config[q]
      BY <1>7 DEF NoneLeftOut
    <3> QED
      BY <1>5, <3>1, <3>2
  <2>3. IsFiniteSet(S) /\ Cardinality(S) = Len(B)
    BY <1>5, <1>7 DEF NoneLeftOut
  <2> QED
    BY <1>9, <2>2, <2>3 DEF NoneLeftOut
<1>11. PlacedInOrder(B, config, p + 1)
  <2>1. 1..p \subseteq 1..(p + 1)
    BY <1>2
  <2> QED
    BY <1>5, <1>7, <2>1 DEF PlacedInOrder
<1> USE DEF A, B
<1>12. Len(polls') <= Len(config)
  BY <1>2, <1>6 DEF StartInv, Typed
<1> QED
  BY <1>6, <1>10, <1>11, <1>12 DEF FollowsConfig

LEMMA FollowsNext == StartInv /\ FollowsConfig /\ [Next]_startupVars => FollowsConfig'
<1> SUFFICES ASSUME StartInv, FollowsConfig, [Next]_startupVars PROVE FollowsConfig'
  OBVIOUS
<1>1. Slices /\ Goroutines
  BY DEF StartInv, Typed
<1>2. CASE AddCore
  <2> DEFINE a == config[Len(polls) + 1]
  <2>1. a \in Address /\ phase = "launch" /\ Len(polls) < Len(config) /\ UNCHANGED <<config, phase>>
    BY <1>2 DEF AddCore, StartInv, Typed, Goroutines
  <2>2. CASE FindCore(a) = {} /\ AppendCore(a) /\ Launch(<<Len(arrays'), Len(Cores')>>)
    BY <2>1, <2>2, FollowsAddNew
  <2>3. ASSUME NEW i \in FindCore(a),
               arrays' = [arrays EXCEPT ![Len(arrays)][i].alive = TRUE],
               Launch(<<Len(arrays), i>>)
        PROVE  FollowsConfig'
    BY <2>1, <2>3, FollowsAddKnown
  <2> QED
    BY <1>2, <2>2, <2>3 DEF AddCore
<1>3. CASE RejectAddress \/ AllLaunched \/ Wait \/ LoadRows
  BY <1>3, PlacesKept DEF RejectAddress, AllLaunched, Wait, LoadRows, Cores
<1>4. ASSUME NEW g \in 1..Len(polls), Poll(g) PROVE FollowsConfig'
  <2>1. CASE PanicOnEmpty(g)
    BY <2>1, PlacesKept DEF PanicOnEmpty, Cores
  <2>2. IsElement(arrays, polls[g].at[1], polls[g].at[2]) /\ Element(g) \in CoreRecord
        /\ Report(Element(g).address) \in [Resource -> Nat]
    BY <1>1, ElementType
  <2>3. ASSUME NEW l \in Label, NEW x \in CoreRecord, PollGoto(g, l),
               Written(polls[g].at[1], polls[g].at[2], x), x.address = Element(g).address,
               UNCHANGED <<config, phase>>
        PROVE  FollowsConfig'
    <3>1. /\ Len(Cores') = Len(Cores)
          /\ \A i \in 1..Len(Cores) : Cores'[i].address = Cores[i].address
      BY <1>1, <2>3, <2>2, WrittenPlaces DEF Element
    <3>2. Len(polls') = Len(polls)
      BY <1>1, <2>3, PollMoves
    <3> QED
      BY <2>3, <3>1, <3>2, PlacesKept
  <2>4. ASSUME NEW label, NEW next \in {"disk", "write"}, Ask(g, label, next) PROVE FollowsConfig'
    <3>1. UNCHANGED <<config, phase>> /\ next \in Label /\ "failed" \in Label
      BY <2>4 DEF Ask, Label
    <3>2. CASE PollGoto(g, next) /\ UNCHANGED arrays
      BY <1>1, <2>3, <2>2, <3>1, <3>2, WrittenAsIs
    <3>3. CASE /\ PollGoto(g, "failed")
               /\ arrays' = [arrays EXCEPT ![polls[g].at[1]][polls[g].at[2]].alive = FALSE]
      <4> DEFINE x == [Element(g) EXCEPT !.alive = FALSE]
      <4>1. x \in CoreRecord /\ x.address = Element(g).address
        BY <2>2 DEF CoreRecord
      <4>2. arrays' = [arrays EXCEPT ![polls[g].at[1]][polls[g].at[2]] = x]
        BY <3>3 DEF Element
      <4> HIDE DEF x
      <4>3. Written(polls[g].at[1], polls[g].at[2], x)
        BY <1>1, <2>2, <4>1, <4>2, SetElement
      <4> QED
        BY <2>3, <3>1, <3>3, <4>1, <4>3
    <3> QED
      BY <2>4, <3>2, <3>3 DEF Ask
  <2>5. CASE StoreReport(g)
    <3> DEFINE x == [Element(g) EXCEPT !.free = Report(Element(g).address)]
    <3>1. x \in CoreRecord /\ x.address = Element(g).address
      BY <2>2 DEF CoreRecord
    <3>2. arrays' = [arrays EXCEPT ![polls[g].at[1]][polls[g].at[2]] = x]
      BY <2>5 DEF StoreReport, Element
    <3> HIDE DEF x
    <3>3. Written(polls[g].at[1], polls[g].at[2], x)
      BY <1>1, <2>2, <3>1, <3>2, SetElement
    <3> QED
      BY <2>3, <2>5, <3>1, <3>3 DEF StoreReport, Label
  <2> QED
    BY <1>4, <2>1, <2>4, <2>5 DEF Poll, AskMemory, AskDisk
<1>5. CASE UNCHANGED startupVars
  BY <1>5, PlacesKept DEF startupVars, Cores
<1> QED
  BY <1>2, <1>3, <1>4, <1>5 DEF Next, Main

-----------------------------------------------------------------------------
(* The theorems.                                                           *)

LEMMA StartNext == StartInv /\ [Next]_startupVars => StartInv'
<1> SUFFICES ASSUME StartInv, [Next]_startupVars PROVE StartInv'
  OBVIOUS
<1>1. CASE Main
  BY <1>1, AddCoreStep, RejectAddressStep, AllLaunchedStep, WaitStep, LoadRowsStep DEF Main
<1>2. ASSUME NEW g \in 1..Len(polls), Poll(g) PROVE StartInv'
  BY <1>2, AskStep, StoreReportStep, PanicOnEmptyStep DEF Poll, AskMemory, AskDisk
<1>3. CASE UNCHANGED startupVars
  BY <1>3, MainGoesOn DEF startupVars, StartInv, Typed, AllBack, Loaded, Cores
<1> QED
  BY <1>1, <1>2, <1>3 DEF Next

LEMMA StartAlways == Spec => []StartInv
  BY StartInit, StartNext, PTL DEF Spec

\* A server that serves has heard from every Core of its configuration: one that does
\* not answer stops the start (errgroup in startup/init.go), and an element marked dead
\* in any array has a goroutine that failed.
THEOREM OnlyReachableServe == Spec => []ServesOnlyReachable
<1>1. StartInv => ServesOnlyReachable
  <2> SUFFICES ASSUME StartInv, phase = "serving"
               PROVE  /\ \A g \in 1..Len(polls) : polls[g].pc = "done"
                      /\ \A i \in 1..Len(Cores) : Cores[i].alive
    BY DEF ServesOnlyReachable
  <2>1. \A g \in 1..Len(polls) : polls[g].pc = "done"
    BY DEF StartInv, AllBack
  <2>2. ASSUME NEW i \in 1..Len(Cores) PROVE Cores[i].alive
    <3>1. IsElement(arrays, Len(arrays), i)
      BY DEF StartInv, Typed, Slices, IsElement, Cores
    <3> QED
      BY <2>1, <3>1 DEF StartInv, DeadHaveFailed, Cores
  <2> QED
    BY <2>1, <2>2
<1> QED
  BY <1>1, StartAlways, PTL

\* No element of any array, current or left behind, has more free than its own Core
\* reported: the pointer of a goroutine never ends up at another Core, whatever append
\* copies while it writes.
THEOREM NeverPhantom == Spec => []NoPhantomCapacity
<1>1. StartInv => NoPhantomCapacity
  BY DEF StartInv, NoPhantom, NoPhantomCapacity, IsElement
<1> QED
  BY <1>1, StartAlways, PTL

\* A goroutine whose element is still in the slice has filled it by the time the
\* server serves: a report is lost by nothing but a later append.
THEOREM LostByGrowthOnly == Spec => []OnlyGrowthLosesReports
<1>1. StartInv => OnlyGrowthLosesReports
  BY DEF StartInv, AllBack, DoneHaveFilled, OnlyGrowthLosesReports
<1> QED
  BY <1>1, StartAlways, PTL

\* Every VM of the table is loaded, and is at the Core that has it exactly when that
\* Core still has its place in the configuration: the slice the loop of startup/init.go
\* builds is the configuration without its repetitions, in its order.
THEOREM RowsFindTheirCore == Spec => []VMsFoundAgain
<1>1. StartInv /\ FollowsConfig => VMsFoundAgain
  <2> SUFFICES ASSUME StartInv, FollowsConfig, phase = "serving", NEW v \in VM, db.row[v] # 0
               PROVE  \E i \in 1..Len(Cores) :
                        /\ v \in index[i]
                        /\ Cores[i].address = db.cores[db.row[v]]
                             <=> ConfiguredAt(db.cores[db.row[v]], db.row[v])
    BY DEF VMsFoundAgain
  <2> DEFINE A == Cores
             r == db.row[v]
             home == db.cores[r]
             n == Len(config)
  <2>1. /\ db \in Databases /\ r <= Len(A)
        /\ index = [i \in 1..Len(A) |-> {w \in VM : db.row[w] = i}]
    BY DEF StartInv, Loaded
  <2>2. r \in 1..Len(A)
    BY <2>1, StartupAssumption DEF StartInv, Typed, Slices, Cores
  <2>3. v \in index[r]
    BY <2>1, <2>2
  <2>4. PlacedInOrder(A, config, n) /\ NoneLeftOut(A, config, n) /\ n \in Nat
    BY DEF FollowsConfig, StartInv, Typed
  <2> HIDE DEF A, n
  <2>5. ASSUME A[r].address = home PROVE ConfiguredAt(home, r)
    <3>1. PICK k \in 1..n : /\ config[k] = A[r].address
                            /\ config[k] \notin {config[j] : j \in 1..(k - 1)}
                            /\ Cardinality({config[j] : j \in 1..k}) = r
      BY <2>2, <2>4 DEF PlacedInOrder
    <3> QED
      BY <2>5, <3>1 DEF n, ConfiguredAt, NamedFirst, Named
  <2>6. ASSUME ConfiguredAt(home, r) PROVE A[r].address = home
    <3>1. PICK k \in 1..n : /\ config[k] = home
                            /\ home \notin {config[j] : j \in 1..(k - 1)}
                            /\ Cardinality({config[j] : j \in 1..k}) = r
      BY <2>6 DEF n, ConfiguredAt, NamedFirst, Named
    <3>2. PICK i \in 1..Len(A) : A[i].address = home
      BY <2>4, <3>1 DEF NoneLeftOut
    <3>3. PICK l \in 1..n : /\ config[l] = home
                            /\ home \notin {config[j] : j \in 1..(l - 1)}
                            /\ Cardinality({config[j] : j \in 1..l}) = i
      BY <2>4, <3>2 DEF PlacedInOrder
    <3>4. k = l
      <4>1. k \in Nat /\ l \in Nat /\ k >= 1 /\ l >= 1
        BY <2>4
      <4>2. ~(k < l)
        <5>1. k < l => k \in 1..(l - 1)
          BY <4>1
        <5> QED
          BY <3>1, <3>3, <5>1
      <4>3. ~(l < k)
        <5>1. l < k => l \in 1..(k - 1)
          BY <4>1
        <5> QED
          BY <3>1, <3>3, <5>1
      <4> QED
        BY <4>1, <4>2, <4>3
    <3> QED
      BY <3>1, <3>2, <3>3, <3>4
  <2> USE DEF A
  <2> QED
    BY <2>2, <2>3, <2>5, <2>6
<1> QED
  BY <1>1, StartAlways, FollowsInit, FollowsNext, PTL DEF Spec

=============================================================================
