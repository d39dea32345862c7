------------------------- MODULE StatusCacheProofs -------------------------
(* Theorems about StatusCache, for every number of creates, updates and     *)
(* removals of a uuid and every bound of the clock.                         *)
EXTENDS StatusCache, TLAPS

-----------------------------------------------------------------------------
(* Type correctness.                                                       *)

\* A call that ends keeps the types of what it forgets.
LEMMA EndType ==
    ASSUME TypeOK, NEW p \in Proc, End(p)
    PROVE  /\ pc' \in [Proc -> {"idle", "store", "get", "set", "del", "ended"}]
           /\ during' \in [Proc -> SUBSET Proc]
           /\ seen' \in [Update -> Record \cup {NoRecord}]
<1>1. pc' \in [Proc -> {"idle", "store", "get", "set", "del", "ended"}]
  BY DEF TypeOK, End, Goto
<1>2. during' \in [Proc -> SUBSET Proc]
  BY DEF TypeOK, End
<1>3. seen' \in [Update -> Record \cup {NoRecord}]
  BY DEF TypeOK, End
<1> QED
  BY <1>1, <1>2, <1>3

\* What an update writes is a record.
LEMMA SetType ==
    ASSUME TypeOK, NEW p \in Update, seen[p] # NoRecord
    PROVE  [seen[p] EXCEPT !.status = p, !.time = stamp[p]] \in Record
<1>1. seen[p] \in Record /\ stamp[p] \in 0..MaxTime
  BY DEF TypeOK, Proc
<1> QED
  BY <1>1 DEF Record, Writer

\* A call that is about to write has read a record: Get gives up without one.
HasRead == \A p \in Update : pc[p] = "set" => seen[p] # NoRecord

\* The types, and what an update has read, are kept by every step.
LEMMA TypeStep == TypeOK /\ HasRead /\ [Next]_cacheVars => TypeOK' /\ HasRead'
<1> SUFFICES ASSUME TypeOK, HasRead, [Next]_cacheVars PROVE TypeOK' /\ HasRead'
  OBVIOUS
<1>1. CASE Tick
  <2>1. clock' \in 0..MaxTime
    BY <1>1, CacheAssumption DEF Tick, TypeOK
  <2> QED
    BY <1>1, <2>1 DEF Tick, TypeOK, HasRead, history
<1>2. ASSUME NEW p \in Proc, Arrive(p) PROVE TypeOK' /\ HasRead'
  <2>1. pc' \in [Proc -> {"idle", "store", "get", "set", "del", "ended"}]
    BY <1>2 DEF Arrive, TypeOK, Goto
  <2>2. stamp' \in [Proc -> 0..MaxTime] /\ during' \in [Proc -> SUBSET Proc]
    BY <1>2 DEF Arrive, TypeOK, UnderWay
  <2>3. HasRead'
    BY <1>2 DEF Arrive, TypeOK, HasRead, Goto, Proc
  <2> QED
    BY <1>2, <2>1, <2>2, <2>3 DEF Arrive, TypeOK
<1>3. ASSUME NEW p \in Proc, Fail(p) PROVE TypeOK' /\ HasRead'
  <2>1. HasRead'
    BY <1>3 DEF Fail, End, Goto, TypeOK, HasRead, Proc
  <2> QED
    BY <1>3, <2>1, EndType DEF Fail, TypeOK
<1>4. ASSUME NEW c \in Create, Store(c) PROVE TypeOK' /\ HasRead'
  <2>1. c \in Proc /\ c \notin Update
    BY CacheAssumption DEF Proc
  <2>2. key' \in Record /\ rivals' \subseteq Proc
    BY <1>4, <2>1 DEF Store, TypeOK, Record, Writer
  <2>3. lastVM' \in Create \cup {NoWriter} /\ overtaken' \subseteq Update /\ stale' \in BOOLEAN
    BY <1>4 DEF Store, Replaced
  <2>4. HasRead'
    BY <1>4, <2>1 DEF Store, End, Goto, TypeOK, HasRead, Proc
  <2> QED
    BY <1>4, <2>1, <2>2, <2>3, <2>4, EndType DEF Store, TypeOK
<1>5. ASSUME NEW p \in Update, Get(p) PROVE TypeOK' /\ HasRead'
  <2>1. p \in Proc
    BY DEF Proc
  <2>2. CASE key = NoRecord
    <3>1. End(p)
      BY <1>5, <2>2 DEF Get
    <3>2. HasRead'
      BY <3>1, <2>1 DEF End, Goto, TypeOK, HasRead, Proc
    <3> QED
      BY <1>5, <2>1, <3>1, <3>2, EndType DEF Get, TypeOK
  <2>3. CASE key # NoRecord
    <3>1. /\ seen' = [seen EXCEPT ![p] = key] /\ pc' = [pc EXCEPT ![p] = "set"]
          /\ during' = during
      BY <1>5, <2>3 DEF Get, Goto
    <3>2. HasRead'
      BY <2>3, <3>1 DEF TypeOK, HasRead, Proc
    <3> QED
      BY <1>5, <3>1, <3>2 DEF Get, TypeOK
  <2> QED
    BY <2>2, <2>3
<1>6. ASSUME NEW p \in Update, Set(p) PROVE TypeOK' /\ HasRead'
  <2>1. p \in Proc
    BY DEF Proc
  <2>2. key' \in Record
    BY <1>6, SetType DEF Set, HasRead
  <2>3. rivals' \subseteq Proc /\ stale' \in BOOLEAN
    BY <1>6, <2>1 DEF Set, TypeOK
  <2>4. HasRead'
    BY <1>6, <2>1 DEF Set, End, Goto, TypeOK, HasRead, Proc
  <2> QED
    BY <1>6, <2>1, <2>2, <2>3, <2>4, EndType DEF Set, TypeOK
<1>7. ASSUME NEW p \in Remove, Del(p) PROVE TypeOK' /\ HasRead'
  <2>1. p \in Proc /\ p \notin Update
    BY CacheAssumption DEF Proc
  <2>2. lastVM' \in Create \cup {NoWriter} /\ overtaken' \subseteq Update /\ stale' \in BOOLEAN
    BY <1>7 DEF Del, Replaced
  <2>3. HasRead'
    BY <1>7, <2>1 DEF Del, End, Goto, TypeOK, HasRead, Proc
  <2> QED
    BY <1>7, <2>1, <2>2, <2>3, EndType DEF Del, TypeOK
<1>8. CASE UNCHANGED cacheVars
  BY <1>8 DEF cacheVars, local, history, TypeOK, HasRead
<1> QED
  BY <1>1, <1>2, <1>3, <1>4, <1>5, <1>6, <1>7, <1>8 DEF Next

LEMMA InitTyped == Init => TypeOK /\ HasRead
<1> SUFFICES ASSUME Init PROVE TypeOK /\ HasRead
  OBVIOUS
<1>1. 0 \in 0..MaxTime
  BY CacheAssumption
<1>2. TypeOK
  BY <1>1 DEF Init, TypeOK
<1>3. HasRead
  BY DEF Init, HasRead, Proc
<1> QED
  BY <1>2, <1>3

\* The variables keep their types; in particular every record written is complete
\* (UpdateVMStatusInRedis, which writes back what it has read).
THEOREM TypeCorrect == Spec => []TypeOK
<1>1. Spec => [](TypeOK /\ HasRead)
  BY InitTyped, TypeStep, PTL DEF Spec
<1> QED
  BY <1>1, PTL

-----------------------------------------------------------------------------
(* The call that wrote the record.                                         *)

\* The time of a record is that of the call that set its status: an update replaces
\* both (service/redis.go:134-135).
TimeOfWriter == key # NoRecord => key.time = stamp[key.status]

\* The call that wrote the record has ended, so that its time is fixed.
WriterEnded == key # NoRecord => pc[key.status] = "ended"

\* Every step keeps status and time of the record together.
LEMMA WriterStep ==
    TypeOK /\ HasRead /\ WriterEnded /\ TimeOfWriter /\ [Next]_cacheVars
        => WriterEnded' /\ TimeOfWriter'
<1> SUFFICES ASSUME TypeOK, HasRead, WriterEnded, TimeOfWriter, [Next]_cacheVars
             PROVE  WriterEnded' /\ TimeOfWriter'
  OBVIOUS
<1> USE DEF WriterEnded, TimeOfWriter
<1>0. key # NoRecord => key.status \in Proc
  BY DEF TypeOK, Record, Writer, Proc
<1>1. CASE Tick
  BY <1>1 DEF Tick, history
<1>2. ASSUME NEW p \in Proc, Arrive(p) PROVE WriterEnded' /\ TimeOfWriter'
  <2>1. key # NoRecord => key.status # p
    BY <1>2 DEF Arrive
  <2> QED
    BY <1>0, <1>2, <2>1 DEF Arrive, Goto, TypeOK
<1>3. ASSUME NEW p \in Proc, End(p), UNCHANGED <<key, stamp>>
      PROVE  WriterEnded' /\ TimeOfWriter'
  BY <1>0, <1>3 DEF End, Goto, TypeOK
<1>4. ASSUME NEW c \in Create, Store(c) PROVE WriterEnded' /\ TimeOfWriter'
  <2>1. c \in Proc /\ key'.status = c /\ key'.time = stamp[c]
    BY <1>4 DEF Store, Proc
  <2> QED
    BY <1>4, <2>1 DEF Store, End, Goto, TypeOK
<1>5. ASSUME NEW p \in Update, Get(p) PROVE WriterEnded' /\ TimeOfWriter'
  <2>1. CASE key = NoRecord
    BY <1>5, <2>1 DEF Get
  <2>2. CASE key # NoRecord
    BY <1>0, <1>5, <2>2 DEF Get, Goto, TypeOK
  <2> QED
    BY <2>1, <2>2
<1>6. ASSUME NEW p \in Update, Set(p) PROVE WriterEnded' /\ TimeOfWriter'
  <2>1. seen[p] \in Record
    BY <1>6 DEF Set, HasRead, TypeOK
  <2>2. key'.status = p /\ key'.time = stamp[p]
    BY <1>6, <2>1 DEF Set, Record
  <2>3. p \in Proc
    BY DEF Proc
  <2> QED
    BY <1>6, <2>2, <2>3 DEF Set, End, Goto, TypeOK
<1>7. ASSUME NEW p \in Remove, Del(p) PROVE WriterEnded' /\ TimeOfWriter'
  BY <1>7 DEF Del
<1>8. CASE UNCHANGED cacheVars
  BY <1>8 DEF cacheVars, local
<1> QED
  BY <1>1, <1>2, <1>3, <1>4, <1>5, <1>6, <1>7, <1>8 DEF Next, Fail

LEMMA WriterInit == Init => WriterEnded /\ TimeOfWriter
BY DEF Init, WriterEnded, TimeOfWriter

-----------------------------------------------------------------------------
(* Records of the VM created last.                                         *)

\* What an update has read and may still write is the record of the last VM, unless
\* it has been overtaken or the record was out of date already.
HoldsLastVM ==
    \A p \in Update : pc[p] = "set" /\ p \notin overtaken /\ ~stale => seen[p].vm = lastVM

LEMMA LastVMStep ==
    TypeOK /\ HasRead /\ HoldsLastVM /\ RecordIsOfLastVM /\ [Next]_cacheVars
        => HoldsLastVM' /\ RecordIsOfLastVM'
<1> SUFFICES ASSUME TypeOK, HasRead, HoldsLastVM, RecordIsOfLastVM, [Next]_cacheVars
             PROVE  HoldsLastVM' /\ RecordIsOfLastVM'
  OBVIOUS
<1> USE DEF HoldsLastVM, RecordIsOfLastVM
<1>0. Update \subseteq Proc
  BY DEF Proc
<1>1. CASE Tick
  BY <1>1 DEF Tick, history
<1>2. ASSUME NEW p \in Proc, Arrive(p) PROVE HoldsLastVM' /\ RecordIsOfLastVM'
  BY <1>0, <1>2 DEF Arrive, Goto, TypeOK
<1>3. ASSUME NEW p \in Proc, End(p), UNCHANGED <<key, lastVM, overtaken, stale>>
      PROVE  HoldsLastVM' /\ RecordIsOfLastVM'
  BY <1>0, <1>3 DEF End, Goto, TypeOK
<1>4. ASSUME NEW c \in Create, Store(c) PROVE HoldsLastVM' /\ RecordIsOfLastVM'
  <2>1. key'.vm = c /\ lastVM' = c
    BY <1>4 DEF Store, Replaced
  <2>2. \A p \in Update : pc'[p] = "set" => p \in overtaken'
    BY <1>0, <1>4 DEF Store, Replaced, End, Goto, TypeOK
  <2> QED
    BY <2>1, <2>2
<1>5. ASSUME NEW p \in Update, Get(p) PROVE HoldsLastVM' /\ RecordIsOfLastVM'
  <2>1. CASE key = NoRecord
    BY <1>0, <1>3, <1>5, <2>1 DEF Get
  <2>2. CASE key # NoRecord
    BY <1>0, <1>5, <2>2 DEF Get, Goto, TypeOK
  <2> QED
    BY <2>1, <2>2
<1>6. ASSUME NEW p \in Update, Set(p) PROVE HoldsLastVM' /\ RecordIsOfLastVM'
  <2>1. seen[p] \in Record /\ pc[p] = "set"
    BY <1>6 DEF Set, HasRead, TypeOK
  <2>2. key'.vm = seen[p].vm
    BY <1>6, <2>1 DEF Set, Record
  <2>3. HoldsLastVM'
    BY <1>0, <1>6 DEF Set, End, Goto, TypeOK
  <2>4. RecordIsOfLastVM'
    BY <1>6, <2>1, <2>2 DEF Set
  <2> QED
    BY <2>3, <2>4
<1>7. ASSUME NEW p \in Remove, Del(p) PROVE HoldsLastVM' /\ RecordIsOfLastVM'
  <2>1. key'.vm = lastVM'
    BY <1>7 DEF Del, Replaced, NoRecord, NoWriter
  <2>2. \A q \in Update : pc'[q] = "set" => q \in overtaken'
    BY <1>0, <1>7 DEF Del, Replaced, End, Goto, TypeOK, Proc
  <2> QED
    BY <2>1, <2>2
<1>8. CASE UNCHANGED cacheVars
  BY <1>8 DEF cacheVars, local, history
<1> QED
  BY <1>1, <1>2, <1>3, <1>4, <1>5, <1>6, <1>7, <1>8 DEF Next, Fail

LEMMA LastVMInit == Init => HoldsLastVM /\ RecordIsOfLastVM
BY DEF Init, HoldsLastVM, RecordIsOfLastVM, NoRecord, NoWriter, Proc

\* A deleted VM has no record, and a VM never the specification of an earlier one,
\* unless an update that read before the delete or the store wrote after it.
THEOREM OnlyOvertakenResurrect == Spec => []RecordIsOfLastVM
<1>1. Spec => [](TypeOK /\ HasRead)
  BY InitTyped, TypeStep, PTL DEF Spec
<1>2. Spec => [](HoldsLastVM /\ RecordIsOfLastVM)
  BY <1>1, LastVMInit, LastVMStep, PTL DEF Spec
<1> QED
  BY <1>2, PTL

-----------------------------------------------------------------------------
(* The order of reports.                                                   *)

\* Stamps are in the order of arrival: of two calls under way the one that was not
\* there when the other came in has the later stamp, and so has any call that was
\* not there when the writer of the record came in.
StampsInOrder ==
    /\ \A p \in Proc : stamp[p] <= clock
    /\ \A p, q \in UnderWay : p # q /\ p \notin during[q] => stamp[q] <= stamp[p]
    /\ key # NoRecord => \A p \in UnderWay : p \notin rivals => key.time <= stamp[p]

\* The order of stamps and arrivals is kept by every step.
LEMMA OrderStep ==
    TypeOK /\ HasRead /\ WriterEnded /\ TimeOfWriter /\ StampsInOrder /\ [Next]_cacheVars
        => StampsInOrder'
<1> SUFFICES ASSUME TypeOK, HasRead, WriterEnded, TimeOfWriter, StampsInOrder,
                    [Next]_cacheVars
             PROVE  StampsInOrder'
  OBVIOUS
<1>0. /\ clock \in Nat
      /\ \A p \in Proc : stamp[p] \in Nat
      /\ key # NoRecord => key.status \in Proc /\ key.time \in Nat
  BY CacheAssumption DEF TypeOK, Record, Writer, Proc
<1>1. CASE Tick
  <2>1. clock' = clock + 1 /\ UNCHANGED <<key, pc, stamp, during, rivals>>
    BY <1>1 DEF Tick, history
  <2>2. \A p \in Proc : stamp'[p] <= clock'
    BY <1>0, <2>1 DEF StampsInOrder
  <2>3. UnderWay' = UnderWay
    BY <2>1 DEF UnderWay
  <2> QED
    BY <2>1, <2>2, <2>3 DEF StampsInOrder
<1>2. ASSUME NEW r \in Proc, Arrive(r) PROVE StampsInOrder'
  <2>1. /\ UNCHANGED <<key, clock, rivals>>
        /\ stamp' = [stamp EXCEPT ![r] = clock]
        /\ during' = [during EXCEPT ![r] = UnderWay]
        /\ r \notin UnderWay
    BY <1>2 DEF Arrive, UnderWay
  <2>2. UnderWay' = UnderWay \cup {r}
    BY <1>2, CacheAssumption DEF Arrive, UnderWay, Goto, TypeOK
  <2>3. /\ stamp'[r] = clock /\ during'[r] = UnderWay
        /\ \A p \in Proc \ {r} : stamp'[p] = stamp[p] /\ during'[p] = during[p]
    BY <2>1 DEF TypeOK
  <2>4. \A p \in Proc : stamp'[p] <= clock'
    BY <1>0, <2>1, <2>3 DEF StampsInOrder
  <2>5. ASSUME NEW p \in UnderWay', NEW q \in UnderWay', p # q, p \notin during'[q]
        PROVE  stamp'[q] <= stamp'[p]
    <3>1. UnderWay \subseteq Proc
      BY DEF UnderWay
    <3>2. q # r
      BY <2>2, <2>3, <2>5
    <3>3. CASE p = r
      BY <2>1, <2>2, <2>3, <2>4, <2>5, <3>1, <3>3
    <3>4. CASE p # r
      BY <2>2, <2>3, <2>5, <3>1, <3>2, <3>4 DEF StampsInOrder
    <3> QED
      BY <3>3, <3>4
  <2>6. ASSUME key' # NoRecord, NEW p \in UnderWay', p \notin rivals'
        PROVE  key'.time <= stamp'[p]
    <3>1. key.time <= clock
      BY <1>0, <2>1, <2>6 DEF TimeOfWriter, StampsInOrder
    <3>2. UnderWay \subseteq Proc
      BY DEF UnderWay
    <3> QED
      BY <2>1, <2>2, <2>3, <2>6, <3>1, <3>2 DEF StampsInOrder
  <2> QED
    BY <2>4, <2>5, <2>6 DEF StampsInOrder
<1>3. ASSUME NEW r \in Proc, End(r), UNCHANGED <<clock, stamp>>,
             \/ UNCHANGED <<key, rivals>>
             \/ key' = NoRecord
             \/ r \in UnderWay /\ key'.time = stamp[r] /\ rivals' = during[r]
      PROVE  StampsInOrder'
  <2>1. UnderWay' = UnderWay \ {r}
    BY <1>3 DEF End, Goto, UnderWay, TypeOK
  <2>2. \A q \in Proc \ {r} : during'[q] = during[q] \ {r}
    BY <1>3 DEF End, TypeOK
  <2>3. ASSUME NEW p \in UnderWay', NEW q \in UnderWay', p # q, p \notin during'[q]
        PROVE  stamp'[q] <= stamp'[p]
    <3>1. UnderWay \subseteq Proc
      BY DEF UnderWay
    <3>2. p \notin during[q]
      BY <2>1, <2>2, <2>3, <3>1
    <3> QED
      BY <1>3, <2>1, <2>3, <3>2 DEF StampsInOrder
  <2>4. ASSUME key' # NoRecord, NEW p \in UnderWay', p \notin rivals'
        PROVE  key'.time <= stamp'[p]
    BY <1>3, <2>1, <2>4 DEF StampsInOrder
  <2> QED
    BY <1>3, <2>3, <2>4 DEF StampsInOrder
<1>4. ASSUME NEW c \in Create, Store(c) PROVE StampsInOrder'
  <2>1. c \in UnderWay /\ key'.time = stamp[c] /\ rivals' = during[c]
    BY <1>4 DEF Store, UnderWay, Proc
  <2> QED
    BY <1>3, <1>4, <2>1 DEF Store, Proc
<1>5. ASSUME NEW p \in Update, Get(p) PROVE StampsInOrder'
  <2>1. CASE key = NoRecord
    BY <1>3, <1>5, <2>1 DEF Get, Proc
  <2>2. CASE key # NoRecord
    <3>1. UNCHANGED <<key, clock, stamp, during, rivals>>
      BY <1>5, <2>2 DEF Get
    <3>2. UnderWay' = UnderWay
      BY <1>5, <2>2 DEF Get, Goto, UnderWay, TypeOK
    <3> QED
      BY <3>1, <3>2 DEF StampsInOrder
  <2> QED
    BY <2>1, <2>2
<1>6. ASSUME NEW p \in Update, Set(p) PROVE StampsInOrder'
  <2>1. p \in UnderWay /\ rivals' = during[p]
    BY <1>6 DEF Set, UnderWay, Proc
  <2>2. key'.time = stamp[p]
    BY <1>6 DEF Set, HasRead, TypeOK, Record
  <2> QED
    BY <1>3, <1>6, <2>1, <2>2 DEF Set, Proc
<1>7. ASSUME NEW p \in Remove, Del(p) PROVE StampsInOrder'
  BY <1>3, <1>7 DEF Del, Proc
<1>8. CASE UNCHANGED cacheVars
  BY <1>8 DEF cacheVars, local, history, StampsInOrder, UnderWay
<1>9. ASSUME NEW p \in Proc, Fail(p) PROVE StampsInOrder'
  BY <1>3, <1>9 DEF Fail
<1> QED
  BY <1>1, <1>2, <1>4, <1>5, <1>6, <1>7, <1>8, <1>9 DEF Next

LEMMA OrderInit == Init => StampsInOrder
BY CacheAssumption DEF Init, StampsInOrder, UnderWay

\* A record gives way to an older one only by a call that was under way when the
\* call of the newer one came in.
LEMMA OrderAction ==
    TypeOK /\ HasRead /\ StampsInOrder /\ [Next]_cacheVars
        => [key # NoRecord /\ key' # NoRecord /\ key'.time < key.time
                => key'.status \in rivals]_cacheVars
<1> SUFFICES ASSUME TypeOK, HasRead, StampsInOrder, Next,
                    key # NoRecord, key' # NoRecord, key'.time < key.time
             PROVE  key'.status \in rivals
  OBVIOUS
<1>1. key.time \in Nat /\ \A p \in Proc : stamp[p] \in Nat
  BY CacheAssumption DEF TypeOK, Record
<1>2. ASSUME NEW p \in UnderWay, key'.time = stamp[p], key'.status = p
      PROVE  key'.status \in rivals
  <2>1. p \in Proc
    BY DEF UnderWay
  <2> QED
    BY <1>1, <1>2, <2>1 DEF StampsInOrder
<1>3. ASSUME NEW c \in Create, Store(c) PROVE key'.status \in rivals
  <2>1. c \in UnderWay /\ key'.time = stamp[c] /\ key'.status = c
    BY <1>3 DEF Store, UnderWay, Proc
  <2> QED
    BY <1>2, <2>1
<1>4. ASSUME NEW p \in Update, Set(p) PROVE key'.status \in rivals
  <2>1. p \in UnderWay /\ key'.time = stamp[p] /\ key'.status = p
    BY <1>4 DEF Set, UnderWay, Proc, HasRead, TypeOK, Record
  <2> QED
    BY <1>2, <2>1
<1>5. ~UNCHANGED key
  BY <1>1
<1>6. ~Tick /\ (\A p \in Proc : ~Arrive(p) /\ ~Fail(p)) /\ (\A p \in Update : ~Get(p))
  BY <1>5 DEF Tick, Arrive, Fail, Get
<1>7. \A p \in Remove : ~Del(p)
  BY DEF Del
<1> QED
  BY <1>3, <1>4, <1>6, <1>7 DEF Next

\* A report that comes in after another call has ended never loses to it: only calls
\* that overlap can turn the time of a record back (UpdateVMStatusInRedis, which
\* writes whatever time the stored record has).
THEOREM OnlyOverlapsReorder == Spec => OnlyOverlapTurnsTimeBack
<1>1. Spec => [](TypeOK /\ HasRead)
  BY InitTyped, TypeStep, PTL DEF Spec
<1>2. Spec => [](WriterEnded /\ TimeOfWriter)
  BY <1>1, WriterInit, WriterStep, PTL DEF Spec
<1>3. Spec => []StampsInOrder
  BY <1>1, <1>2, OrderInit, OrderStep, PTL DEF Spec
<1> QED
  BY <1>1, <1>3, OrderAction, PTL DEF Spec, OnlyOverlapTurnsTimeBack

=============================================================================
