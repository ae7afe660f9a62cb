-------------------------- MODULE UsageAlertsProofs --------------------------
(***************************************************************************)
(* Theorems about UsageAlerts, for every set of goroutines, features,      *)
(* quantities and limits.                                                  *)
(***************************************************************************)
EXTENDS UsageAlerts, TLAPS

(* Only a goroutine that fires has calls to make. *)
TypeInv ==
    /\ TypeOK
    /\ \A g \in Goroutine : pc[g] # "firing" => todo[g] = {}

LEMMA HighestIsMax ==
    ASSUME NEW S \in SUBSET ({0} \cup Threshold), S # {}
    PROVE  Highest(S) \in S /\ \A u \in S : u <= Highest(S)
<1>1. \E t \in S : \A u \in S : u <= t
  <2>1. \A u \in S : u \in {0, 80, 90, 100} BY DEF Threshold
  <2>2. CASE 100 \in S BY <2>1, <2>2
  <2>3. CASE 100 \notin S /\ 90 \in S BY <2>1, <2>3
  <2>4. CASE 100 \notin S /\ 90 \notin S /\ 80 \in S BY <2>1, <2>4
  <2>5. CASE 100 \notin S /\ 90 \notin S /\ 80 \notin S
    <3>0. PICK u \in S : TRUE OBVIOUS
    <3>1. 0 \in S /\ \A v \in S : v = 0 BY <2>1, <2>5, <3>0
    <3> QED BY <3>1
  <2> QED BY <2>2, <2>3, <2>4, <2>5
<1> QED BY <1>1 DEF Highest

LEMMA LevelTyped ==
    ASSUME TypeInv, NEW g \in Goroutine, NEW f \in Feature
    PROVE  LET levels == {Level(result[g], tracker[f])} \cup New(result[g], tracker[f]) IN
              /\ levels \in SUBSET ({0} \cup Threshold)
              /\ Highest(levels) \in {0} \cup Threshold
              /\ Highest(levels) >= Level(result[g], tracker[f])
              /\ \A t \in New(result[g], tracker[f]) : Highest(levels) >= t
<1> DEFINE levels == {Level(result[g], tracker[f])} \cup New(result[g], tracker[f])
<1>1. levels \in SUBSET ({0} \cup Threshold) /\ levels # {}
  BY DEF TypeInv, TypeOK, Level, New, Reached
<1>2. Highest(levels) \in levels /\ \A u \in levels : u <= Highest(levels)
  BY <1>1, HighestIsMax
<1>3. \A u \in levels : u \in Int /\ Highest(levels) \in Int BY <1>1, <1>2 DEF Threshold
<1> HIDE DEF levels
<1>4. Level(result[g], tracker[f]) \in levels /\ New(result[g], tracker[f]) \subseteq levels
  BY DEF levels
<1> QED BY <1>1, <1>2, <1>3, <1>4 DEF levels

-------------------------------------------------------------------------------
(* Types *)

LEMMA TypeStep == TypeInv /\ [Next]_vars => TypeInv'
<1> SUFFICES ASSUME TypeInv, [Next]_vars PROVE TypeInv' OBVIOUS
<1> USE DEF TypeInv, world
<1>1. ASSUME NEW g \in Goroutine, Record(g) PROVE TypeInv'
  <2>1. PICK f \in Feature : feature' = [feature EXCEPT ![g] = f] BY <1>1 DEF Record
  <2>2. used' \in Nat BY <1>1, QuantityAssumption DEF Record, Consume, TypeOK
  <2>3. pc' \in [Goroutine -> {"idle", "recorded", "observed", "firing"}]
        /\ \A h \in Goroutine : pc'[h] # "firing" => pc[h] # "firing"
    BY <1>1 DEF Record, TypeOK
  <2> QED BY <1>1, <2>1, <2>2, <2>3 DEF Record, TypeOK
<1>2. ASSUME NEW g \in Goroutine, Observe(g) PROVE TypeInv'
  <2>1. limit \in Nat /\ cycle \in Cycle BY LimitsAssumption DEF TypeOK
  <2>2. result' \in [Goroutine -> Result] BY <1>2, <2>1 DEF Observe, TypeOK, Result
  <2> QED BY <1>2, <2>2 DEF Observe, TypeOK
<1>3. ASSUME NEW g \in Goroutine, Check(g) PROVE TypeInv'
  <2> DEFINE f == feature[g]
             new == New(result[g], tracker[f])
  <2>1. f \in Feature /\ new \subseteq Threshold BY DEF TypeOK, New, Reached
  <2>2. CASE result[g].limit > 0
    <3>0. /\ tracker' = [tracker EXCEPT ![f] =
                 [last |-> result[g].used,
                  level |-> Highest({Level(result[g], tracker[f])} \cup new)]]
          /\ todo' = [todo EXCEPT ![g] = new \X (1..handlers)]
          /\ raised' = raised \cup {AlertOf(g, t) : t \in new}
          /\ pc' = [pc EXCEPT ![g] = "firing"]
          /\ UNCHANGED <<world, handlers, feature, result, heard>>
      BY <1>3, <2>2 DEF Check, TypeOK, Result
    <3>1. [last |-> result[g].used,
           level |-> Highest({Level(result[g], tracker[f])} \cup new)]
             \in [last: Nat, level: {0} \cup Threshold]
      BY <2>1, LevelTyped DEF TypeOK, Result
    <3>2. tracker' \in [Feature -> [last: Nat, level: {0} \cup Threshold]]
      BY <2>1, <3>0, <3>1 DEF TypeOK
    <3>3. {AlertOf(g, t) : t \in new} \subseteq Alert
      BY <2>1 DEF AlertOf, Alert, TypeOK, Result
    <3>4. (new \X (1..handlers)) \in SUBSET (Threshold \X (1..handlers)) BY <2>1
    <3>5. todo' \in [Goroutine -> SUBSET (Threshold \X (1..handlers'))]
      BY <3>0, <3>4 DEF TypeOK
    <3> HIDE DEF new, f
    <3> QED BY <3>0, <3>2, <3>3, <3>5 DEF TypeOK
  <2>3. CASE result[g].limit <= 0 /\ UNCHANGED <<tracker, todo, raised>>
    BY <1>3, <2>3 DEF Check, TypeOK, Result
  <2> QED BY <1>3, <2>2, <2>3 DEF Check
<1>4. ASSUME NEW g \in Goroutine, Deliver(g) PROVE TypeInv'
  <2>1. PICK d \in todo[g] :
            /\ heard' = [heard EXCEPT ![d[2]] = @ \cup {AlertOf(g, d[1])}]
            /\ todo' = [todo EXCEPT ![g] = @ \ {d}]
    BY <1>4 DEF Deliver
  <2>2. d[1] \in Threshold /\ d[2] \in HandlerIx BY <2>1, BoundAssumption DEF TypeOK, HandlerIx
  <2>3. AlertOf(g, d[1]) \in Alert BY <2>2 DEF AlertOf, Alert, TypeOK, Result
  <2> QED BY <1>4, <2>1, <2>2, <2>3 DEF Deliver, TypeOK
<1>5. ASSUME NEW g \in Goroutine, Finish(g) PROVE TypeInv'
  <2>1. NoResult \in Result BY BoundAssumption DEF NoResult, Result, Cycle
  <2> QED BY <1>5, <2>1 DEF Finish, TypeOK
<1>6. CASE OnUsageAlert
  <2>1. handlers' \in 0..MaxHandlers /\ handlers' >= handlers
    BY <1>6, BoundAssumption DEF OnUsageAlert, TypeOK
  <2>2. \A g \in Goroutine : todo[g] \in SUBSET (Threshold \X (1..handlers'))
    BY <2>1, BoundAssumption DEF TypeOK
  <2> QED BY <1>6, <2>1, <2>2 DEF OnUsageAlert, TypeOK
<1>7. CASE InvalidateWorkspace BY <1>7 DEF InvalidateWorkspace, TypeOK, Unseen
<1>8. CASE ExternalUse BY <1>8, QuantityAssumption DEF ExternalUse, Consume, TypeOK
<1>9. CASE Reset BY <1>9, BoundAssumption DEF Reset, TypeOK, Cycle
<1>10. CASE ChangeLimit BY <1>10, BoundAssumption DEF ChangeLimit, TypeOK, Cycle
<1>11. CASE UNCHANGED vars BY <1>11 DEF vars, TypeOK
<1> QED
  BY <1>1, <1>2, <1>3, <1>4, <1>5, <1>6, <1>7, <1>8, <1>9, <1>10, <1>11
  DEF Next, Steps

LEMMA TypeInit == Init => TypeInv
BY BoundAssumption DEF Init, TypeInv, TypeOK, Unseen, NoResult, Result, Cycle, HandlerIx

\* The variables keep their types: levels are thresholds, calls still to make
\* are of registered handlers (CheckUsageAlerts, OnUsageAlert).
THEOREM TypeCorrect == Spec => []TypeOK
<1>1. TypeInv => TypeOK BY DEF TypeInv
<1> QED BY <1>1, TypeInit, TypeStep, PTL DEF Spec

-------------------------------------------------------------------------------
(* Handlers are called in registration order *)

(* A goroutine owes an alert to a later handler only while it owes it to the *)
(* earlier ones, or has called them.                                         *)
OrderInv ==
    /\ RegistrationOrder
    /\ \A i \in HandlerIx : i > handlers => heard[i] = {}
    /\ \A g \in Goroutine, t \in Threshold, i, j \in HandlerIx :
          i < j /\ <<t, j>> \in todo[g] /\ <<t, i>> \notin todo[g]
              => AlertOf(g, t) \in heard[i]

LEMMA OrderStep == TypeInv /\ OrderInv /\ [Next]_vars => OrderInv'
<1> SUFFICES ASSUME TypeInv, OrderInv, [Next]_vars PROVE OrderInv' OBVIOUS
<1> USE DEF world
<1>0. /\ handlers \in Nat /\ handlers <= MaxHandlers /\ MaxHandlers \in Nat
      /\ \A i \in HandlerIx : i \in Int
      /\ todo \in [Goroutine -> SUBSET (Threshold \X (1..handlers))]
      /\ heard \in [HandlerIx -> SUBSET Alert]
      /\ feature \in [Goroutine -> Feature] /\ result \in [Goroutine -> Result]
      /\ \A g \in Goroutine : pc[g] # "firing" => todo[g] = {}
  BY BoundAssumption DEF TypeInv, TypeOK, HandlerIx
<1>a. ASSUME UNCHANGED <<handlers, todo, heard>>,
             \A g \in Goroutine : todo[g] # {} => feature'[g] = feature[g] /\ result'[g] = result[g]
      PROVE  OrderInv'
  BY <1>a DEF OrderInv, RegistrationOrder, AlertOf
<1>1. ASSUME NEW g \in Goroutine, Record(g) \/ Observe(g) \/ Finish(g) PROVE OrderInv'
  BY <1>1, <1>0, <1>a DEF Record, Observe, Finish
<1>2. ASSUME NEW g \in Goroutine, Check(g) PROVE OrderInv'
  <2>1. CASE UNCHANGED todo BY <1>2, <2>1, <1>a DEF Check
  <2>2. CASE todo' = [todo EXCEPT ![g] = New(result[g], tracker[feature[g]]) \X (1..handlers)]
    <3>1. ASSUME NEW h \in Goroutine, NEW t \in Threshold, NEW i \in HandlerIx, NEW j \in HandlerIx,
                 i < j, <<t, j>> \in todo'[h], <<t, i>> \notin todo'[h]
          PROVE  h # g /\ todo'[h] = todo[h]
      BY <3>1, <2>2, <1>0 DEF HandlerIx
    <3> QED BY <1>2, <3>1 DEF Check, OrderInv, RegistrationOrder, AlertOf
  <2> QED BY <1>2, <2>1, <2>2 DEF Check
<1>3. ASSUME NEW g \in Goroutine, Deliver(g) PROVE OrderInv'
  <2>1. PICK d \in todo[g] :
            /\ IsNext(g, d)
            /\ heard' = [heard EXCEPT ![d[2]] = @ \cup {AlertOf(g, d[1])}]
            /\ todo' = [todo EXCEPT ![g] = @ \ {d}]
    BY <1>3 DEF Deliver
  <2>2. /\ d = <<d[1], d[2]>> /\ d[1] \in Threshold /\ d[2] \in HandlerIx
        /\ d[2] <= handlers /\ d[2] \in Int /\ d[1] \in Int
    BY <2>1, <1>0 DEF HandlerIx, Threshold
  <2>3. UNCHANGED <<handlers, feature, result>> BY <1>3 DEF Deliver
  <2>4. \A h \in Goroutine, t \in Threshold : AlertOf(h, t)' = AlertOf(h, t)
    BY <2>3 DEF AlertOf
  <2>5. \A i \in HandlerIx : heard[i] \subseteq heard'[i] BY <2>1, <2>2, <1>0
  \* The handlers before the one that is called have heard the alert.
  <2>6. ASSUME NEW i \in HandlerIx, i < d[2] PROVE AlertOf(g, d[1]) \in heard[i]
    <3>1. <<d[1], i>> \notin todo[g]
      <4> SUFFICES ASSUME <<d[1], i>> \in todo[g] PROVE FALSE OBVIOUS
      <4>1. <<d[1], i>> # d BY <2>2, <2>6, <1>0
      <4>2. Before(d, <<d[1], i>>) BY <2>1, <4>1 DEF IsNext
      <4> QED BY <4>2, <2>2, <2>6, <1>0 DEF Before
    <3> QED BY <2>1, <2>2, <2>6, <3>1 DEF OrderInv
  <2>7. RegistrationOrder'
    <3> SUFFICES ASSUME NEW i \in HandlerIx, NEW j \in HandlerIx, i < j, j <= handlers
                 PROVE  heard'[j] \subseteq heard'[i]
      BY <2>3 DEF RegistrationOrder
    <3>1. heard[j] \subseteq heard[i] BY DEF OrderInv, RegistrationOrder
    <3>2. CASE j = d[2] BY <2>1, <2>2, <2>5, <2>6, <3>1, <3>2, <1>0
    <3>3. CASE j # d[2] BY <2>1, <2>2, <2>5, <3>1, <3>3, <1>0
    <3> QED BY <3>2, <3>3
  <2>8. \A i \in HandlerIx : i > handlers' => heard'[i] = {}
    BY <2>1, <2>2, <2>3, <1>0 DEF OrderInv
  <2>9. ASSUME NEW h \in Goroutine, NEW t \in Threshold, NEW i \in HandlerIx, NEW j \in HandlerIx,
               i < j, <<t, j>> \in todo'[h], <<t, i>> \notin todo'[h]
        PROVE  AlertOf(h, t) \in heard'[i]
    <3>1. <<t, j>> \in todo[h] BY <2>1, <2>9, <1>0
    <3>2. CASE <<t, i>> \notin todo[h] BY <2>5, <2>9, <3>1, <3>2 DEF OrderInv
    <3>3. CASE <<t, i>> \in todo[h]
      <4>1. h = g /\ d = <<t, i>> BY <2>1, <2>9, <3>3, <1>0
      <4> QED BY <2>1, <4>1, <1>0
    <3> QED BY <3>2, <3>3
  <2> QED BY <2>4, <2>7, <2>8, <2>9 DEF OrderInv
<1>4. CASE OnUsageAlert
  <2>1. handlers' = handlers + 1 /\ UNCHANGED <<todo, feature, result, heard>>
    BY <1>4 DEF OnUsageAlert
  <2>2. RegistrationOrder'
    <3> SUFFICES ASSUME NEW i \in HandlerIx, NEW j \in HandlerIx, i < j, j <= handlers + 1
                 PROVE  heard[j] \subseteq heard[i]
      BY <2>1 DEF RegistrationOrder
    <3>1. CASE j <= handlers BY <3>1 DEF OrderInv, RegistrationOrder
    <3>2. CASE j > handlers BY <3>2 DEF OrderInv
    <3> QED BY <3>1, <3>2, <1>0
  <2> QED BY <2>1, <2>2, <1>0 DEF OrderInv, AlertOf
<1>5. CASE InvalidateWorkspace BY <1>5, <1>a DEF InvalidateWorkspace
<1>6. CASE ExternalUse \/ Reset \/ ChangeLimit
  BY <1>6, <1>a DEF ExternalUse, Reset, ChangeLimit
<1>7. CASE UNCHANGED vars BY <1>7, <1>a DEF vars
<1> QED BY <1>1, <1>2, <1>3, <1>4, <1>5, <1>6, <1>7 DEF Next, Steps

\* Any number of goroutines may deliver at once and handlers may register
\* meanwhile: no handler is called with an alert before those registered
\* earlier were.
THEOREM HandlersInOrder == Spec => []RegistrationOrder
<1>1. Init => OrderInv BY DEF Init, OrderInv, RegistrationOrder
<1>2. OrderInv => RegistrationOrder BY DEF OrderInv
<1> QED BY <1>1, <1>2, TypeInit, TypeStep, OrderStep, PTL DEF Spec

-------------------------------------------------------------------------------
(* One goroutine raises a crossing once *)

Alone == \A g, h \in Goroutine : g = h

(* While the consumed share has not been set back, the tracker remembers the  *)
(* highest alert raised, and a count the next observation cannot undercut.   *)
Remembers(f, n, count) ==
    \A t \in Threshold : [feature |-> f, threshold |-> t, cycle |-> n] \in raised =>
        tracker[f].level >= t /\ tracker[f].last <= count

OnceInv ==
    /\ \A a \in raised : a.cycle <= cycle
    /\ \A f \in Feature : Remembers(f, cycle, used)
    /\ \A g \in Goroutine : pc[g] = "observed" =>
          /\ result[g].cycle <= cycle
          /\ result[g].cycle = cycle => result[g].used <= used
          /\ \A a \in raised : a.cycle <= result[g].cycle
          /\ Remembers(feature[g], result[g].cycle, result[g].used)

\* The step of the tracker, seen from the invariant.
LEMMA OnceCheck ==
    ASSUME Alone, TypeInv, OnceInv, NEW g \in Goroutine, Check(g), result[g].limit > 0
    PROVE  /\ \A t \in New(result[g], tracker[feature[g]]) : AlertOf(g, t) \notin raised
           /\ OnceInv'
<1> DEFINE f == feature[g]
           r == result[g]
           old == tracker[f]
           new == New(r, old)
<1>0. /\ f \in Feature /\ r \in Result /\ old \in [last: Nat, level: {0} \cup Threshold]
      /\ cycle \in Nat /\ used \in Nat /\ new \subseteq Threshold
      /\ tracker \in [Feature -> [last: Nat, level: {0} \cup Threshold]]
      /\ raised \in SUBSET Alert /\ pc \in [Goroutine -> {"idle", "recorded", "observed", "firing"}]
      /\ r.used \in Nat /\ r.cycle \in Nat /\ pc[g] = "observed"
      /\ \A a \in raised : a.cycle \in Nat
  BY DEF TypeInv, TypeOK, Cycle, Result, New, Reached, Check, Alert
<1>1. /\ r.cycle <= cycle
      /\ r.cycle = cycle => r.used <= used
      /\ \A a \in raised : a.cycle <= r.cycle
      /\ Remembers(f, r.cycle, r.used)
  BY <1>0 DEF OnceInv
<1>2. \A t \in new : t > Level(r, old) BY DEF New
<1>3. ASSUME NEW t \in Threshold, AlertOf(g, t) \in raised
      PROVE  old.level >= t /\ Level(r, old) = old.level
  <2>1. old.level >= t /\ old.last <= r.used BY <1>1, <1>3 DEF Remembers, AlertOf
  <2> QED BY <2>1, <1>0 DEF Level
<1>4. \A t \in new : AlertOf(g, t) \notin raised
  BY <1>0, <1>2, <1>3 DEF Threshold
<1>5. /\ tracker'[f] = [last |-> r.used, level |-> Highest({Level(r, old)} \cup new)]
      /\ \A e \in Feature : e # f => tracker'[e] = tracker[e]
      /\ raised' = raised \cup {AlertOf(g, t) : t \in new}
      /\ pc'[g] = "firing" /\ UNCHANGED <<cycle, used, feature, result>>
  <2>1. tracker' = [tracker EXCEPT ![f] =
           [last |-> r.used, level |-> Highest({Level(r, old)} \cup new)]]
    BY <1>0 DEF Check, Result
  <2>2. raised' = raised \cup {AlertOf(g, t) : t \in new} /\ pc' = [pc EXCEPT ![g] = "firing"]
    BY <1>0 DEF Check, Result
  <2>3. UNCHANGED <<cycle, used, feature, result>> BY DEF Check, world
  <2> HIDE DEF new, r, old, f
  <2> QED BY <1>0, <2>1, <2>2, <2>3
<1>6. /\ Highest({Level(r, old)} \cup new) >= Level(r, old)
      /\ \A t \in new : Highest({Level(r, old)} \cup new) >= t
  BY <1>0, LevelTyped
<1>7. \A a \in raised' : a.cycle <= cycle
  <2>1. \A t \in new : AlertOf(g, t).cycle = r.cycle BY DEF AlertOf
  <2> HIDE DEF new, r
  <2> QED BY <1>0, <1>1, <1>5, <2>1 DEF OnceInv
<1>8. ASSUME NEW e \in Feature, NEW t \in Threshold,
             [feature |-> e, threshold |-> t, cycle |-> cycle] \in raised'
      PROVE  tracker'[e].level >= t /\ tracker'[e].last <= used
  <2> DEFINE a == [feature |-> e, threshold |-> t, cycle |-> cycle]
  <2>1. CASE e # f
    <3>1. a \in raised
      <4>1. \A u \in new : AlertOf(g, u).feature = f BY DEF AlertOf
      <4>2. a.feature = e OBVIOUS
      <4> QED BY <1>5, <1>8, <2>1, <4>1, <4>2
    <3> QED BY <2>1, <3>1, <1>5 DEF OnceInv, Remembers
  <2>2. CASE e = f
    <3>1. r.cycle = cycle
      <4>1. a.cycle = cycle OBVIOUS
      <4>2. \A u \in new : AlertOf(g, u).cycle = r.cycle BY DEF AlertOf
      <4>3. a \in raised => a.cycle <= r.cycle BY <1>1
      <4> HIDE DEF new, r, a
      <4> QED BY <1>0, <1>1, <1>5, <1>8, <4>1, <4>2, <4>3 DEF a
    <3>2. a = AlertOf(g, t) BY <2>2, <3>1 DEF AlertOf
    <3>3. t \in new \/ a \in raised
      <4>1. \A u \in new : AlertOf(g, u).threshold = u BY DEF AlertOf
      <4>2. a.threshold = t OBVIOUS
      <4> QED BY <1>5, <1>8, <4>1, <4>2
    <3>4. Highest({Level(r, old)} \cup new) >= t
      <4>1. CASE t \in new BY <4>1, <1>6
      <4>2. CASE a \in raised
        <5>1. old.level >= t /\ Level(r, old) = old.level BY <4>2, <3>2, <1>3
        <5>2. Highest({Level(r, old)} \cup new) \in {0} \cup Threshold BY <1>0, LevelTyped
        <5> QED BY <5>1, <5>2, <1>0, <1>6 DEF Threshold
      <4> QED BY <3>3, <4>1, <4>2
    <3> QED BY <1>1, <1>5, <2>2, <3>1, <3>4
  <2> QED BY <2>1, <2>2
<1>9. OnceInv'
  <2>1. \A h \in Goroutine : pc'[h] # "observed" BY <1>5 DEF Alone
  <2> QED BY <1>5, <1>7, <1>8, <2>1 DEF OnceInv, Remembers
<1> QED BY <1>4, <1>9

LEMMA OnceStep ==
    ASSUME Alone, ~LoadMayFail
    PROVE  TypeInv /\ OnceInv /\ [Next]_vars => OnceInv'
<1> SUFFICES ASSUME TypeInv, OnceInv, [Next]_vars PROVE OnceInv' OBVIOUS
<1> USE DEF world
<1>0. /\ used \in Nat /\ cycle \in Nat /\ pc \in [Goroutine -> {"idle", "recorded", "observed", "firing"}]
      /\ result \in [Goroutine -> Result] /\ feature \in [Goroutine -> Feature]
      /\ raised \in SUBSET Alert /\ \A f \in Feature : tracker[f].last \in Nat
      /\ \A a \in raised : a.cycle \in Nat
      /\ \A g \in Goroutine : result[g].used \in Nat /\ result[g].cycle \in Nat
  BY DEF TypeInv, TypeOK, Cycle, Result, Alert
\* The count only grows within a cycle.
<1>a. ASSUME used' >= used, used' \in Nat, UNCHANGED <<cycle, raised, tracker, result>>,
             \A g \in Goroutine : pc'[g] = "observed" => pc[g] = "observed" /\ feature'[g] = feature[g]
      PROVE  OnceInv'
  BY <1>a, <1>0 DEF OnceInv, Remembers
\* A new cycle has no alerts yet.
<1>b. ASSUME cycle' = cycle + 1, UNCHANGED <<raised, tracker, result, pc, feature>>
      PROVE  OnceInv'
  <2>1. \A a \in raised : a.cycle # cycle' BY <1>b, <1>0 DEF OnceInv
  <2>2. \A f \in Feature : Remembers(f, cycle, used)'
    <3>1. \A f, t : [feature |-> f, threshold |-> t, cycle |-> cycle'].cycle = cycle' OBVIOUS
    <3> QED BY <1>b, <2>1, <3>1 DEF Remembers
  <2> QED BY <1>b, <1>0, <2>2 DEF OnceInv, Remembers
<1>1. ASSUME NEW g \in Goroutine, Record(g) PROVE OnceInv'
  <2>1. used' >= used /\ used' \in Nat BY <1>1, <1>0, QuantityAssumption DEF Record, Consume
  <2>2. \A h \in Goroutine : pc'[h] # "observed" BY <1>1, <1>0 DEF Record, Alone
  <2> QED BY <1>1, <2>1, <2>2, <1>a DEF Record
<1>2. ASSUME NEW g \in Goroutine, Observe(g) PROVE OnceInv'
  <2>1. /\ result'[g] = [used |-> used, limit |-> limit, cycle |-> cycle]
        /\ UNCHANGED <<used, cycle, raised, tracker, feature>>
    BY <1>2, <1>0 DEF Observe
  <2>2. result'[g].used = used /\ result'[g].cycle = cycle BY <2>1
  <2>3. \A h \in Goroutine : h = g BY DEF Alone
  <2> QED BY <2>1, <2>2, <2>3, <1>0 DEF OnceInv, Remembers
<1>3. ASSUME NEW g \in Goroutine, Check(g) PROVE OnceInv'
  <2>1. CASE result[g].limit > 0 BY <1>3, <2>1, OnceCheck
  <2>2. CASE UNCHANGED <<tracker, raised>> /\ pc' = [pc EXCEPT ![g] = "idle"]
    BY <1>3, <2>2, <1>0, <1>a DEF Check
  <2> QED BY <1>3, <2>1, <2>2 DEF Check
<1>4. ASSUME NEW g \in Goroutine, Deliver(g) PROVE OnceInv'
  BY <1>4, <1>0, <1>a DEF Deliver
<1>5. ASSUME NEW g \in Goroutine, Finish(g) PROVE OnceInv'
  <2>1. \A h \in Goroutine : pc'[h] # "observed" BY <1>5, <1>0 DEF Finish, Alone
  <2> QED BY <1>5, <2>1 DEF Finish, OnceInv, Remembers
<1>6. CASE OnUsageAlert BY <1>6, <1>0, <1>a DEF OnUsageAlert
<1>7. CASE InvalidateWorkspace
  BY <1>7, <1>0 DEF InvalidateWorkspace, OnceInv, Remembers
<1>8. CASE ExternalUse
  <2>1. used' >= used /\ used' \in Nat BY <1>8, <1>0, QuantityAssumption DEF ExternalUse, Consume
  <2> QED BY <1>8, <2>1, <1>a DEF ExternalUse
<1>9. CASE Reset \/ ChangeLimit BY <1>9, <1>b DEF Reset, ChangeLimit
<1>10. CASE UNCHANGED vars BY <1>10, <1>0, <1>a DEF vars
<1> QED
  BY <1>1, <1>2, <1>3, <1>4, <1>5, <1>6, <1>7, <1>8, <1>9, <1>10 DEF Next, Steps

\* When one goroutine records at a time and every count can be loaded, a
\* threshold of a feature is raised once between two moments at which the
\* consumed share is set back, whoever else consumes and whatever is reset,
\* repriced or invalidated meanwhile.  (Without either assumption it is not.)
THEOREM AlertsAreNew ==
    ASSUME Alone, ~LoadMayFail PROVE Spec => NewlyCrossed
<1>1. Init => OnceInv BY DEF Init, OnceInv, Remembers
<1>2. TypeInv /\ OnceInv /\ [Next]_vars =>
          [\A g \in Goroutine :
              Check(g) /\ result[g].limit > 0 =>
                  \A t \in New(result[g], tracker[feature[g]]) : AlertOf(g, t) \notin raised]_vars
  BY OnceCheck
<1> QED BY <1>1, <1>2, TypeInit, TypeStep, OnceStep, PTL DEF Spec, NewlyCrossed

-------------------------------------------------------------------------------
(* One goroutine misses no crossing *)

(* Small records of one feature, nobody else on the pool, and a limit that   *)
(* stays: then the first count seen after a reset is below the warning share.*)
Steady ==
    /\ Alone /\ ~LoadMayFail /\ ~SharedCounter
    /\ \A e, f \in Feature : e = f
    /\ \A l, m \in Limits : l = m
    /\ \A q \in Quantity, l \in Limits : l > 0 => q * 100 < 80 * l

(* The level triggered is one that the last count seen reached, and either   *)
(* all of it was raised in cycle n, or a count is due that re-arms it.       *)
Reaches(f) == tracker[f].level > 0 => limit > 0 /\ tracker[f].level * limit <= tracker[f].last * 100

Covers(f, n) ==
    \A t \in Threshold : t <= tracker[f].level =>
        [feature |-> f, threshold |-> t, cycle |-> n] \in raised

SetBack(count) == count \in Quantity \cup {0}

MissInv ==
    /\ \A f \in Feature : Reaches(f)
    /\ \A f \in Feature : Covers(f, cycle) \/ SetBack(used)
    /\ \A g \in Goroutine :
          /\ pc[g] \in {"idle", "firing"} => \A f \in Feature : Covers(f, cycle) \/ used = 0
          /\ pc[g] = "observed" =>
                /\ result[g].limit = limit
                /\ \A f \in Feature : Covers(f, result[g].cycle) \/ SetBack(result[g].used)
                /\ result[g].cycle = cycle \/ used = 0

\* What was set back reaches no threshold.
LEMMA SetBackReaches ==
    ASSUME Steady, TypeInv, NEW count, SetBack(count), NEW t \in Threshold, limit > 0
    PROVE  count * 100 < t * limit
<1>1. limit \in Limits /\ limit \in Nat BY LimitsAssumption DEF TypeInv, TypeOK
<1>2. count * 100 < 80 * limit
  <2>1. CASE count \in Quantity BY <1>1, <2>1 DEF Steady
  <2>2. CASE count = 0 BY <1>1, <2>2
  <2> QED BY <2>1, <2>2 DEF SetBack
<1>3. count \in Nat BY QuantityAssumption DEF SetBack
<1>4. 80 * limit <= t * limit BY <1>1 DEF Threshold
<1>5. t * limit \in Int BY <1>1 DEF Threshold
<1> QED BY <1>1, <1>2, <1>3, <1>4, <1>5

LEMMA MissCheck ==
    ASSUME Steady, TypeInv, MissInv, NEW g \in Goroutine, Check(g)
    PROVE  /\ \A t \in Reached(result[g]) : AlertOf(g, t) \in raised'
           /\ MissInv'
<1> DEFINE f == feature[g]
           r == result[g]
           old == tracker[f]
           new == New(r, old)
           top == Highest({Level(r, old)} \cup new)
<1>0. /\ f \in Feature /\ r \in Result /\ old \in [last: Nat, level: {0} \cup Threshold]
      /\ cycle \in Nat /\ used \in Nat /\ new \subseteq Threshold
      /\ tracker \in [Feature -> [last: Nat, level: {0} \cup Threshold]]
      /\ pc \in [Goroutine -> {"idle", "recorded", "observed", "firing"}]
      /\ r.used \in Nat /\ r.cycle \in Nat /\ r.limit \in Nat /\ pc[g] = "observed"
      /\ limit \in Nat
  BY LimitsAssumption DEF TypeInv, TypeOK, Cycle, Result, New, Reached, Check
<1>1. /\ r.limit = limit
      /\ Covers(f, r.cycle) \/ SetBack(r.used)
      /\ r.cycle = cycle \/ used = 0
      /\ Reaches(f)
  BY <1>0 DEF MissInv
<1>2. CASE r.limit > 0
  <2>1. /\ tracker'[f] = [last |-> r.used, level |-> top]
        /\ raised' = raised \cup {AlertOf(g, t) : t \in new}
        /\ pc'[g] = "firing" /\ UNCHANGED <<cycle, used, limit, feature, result>>
    <3>1. /\ tracker' = [tracker EXCEPT ![f] = [last |-> r.used, level |-> top]]
          /\ raised' = raised \cup {AlertOf(g, t) : t \in new}
          /\ pc' = [pc EXCEPT ![g] = "firing"]
      BY <1>0, <1>2 DEF Check
    <3>2. UNCHANGED <<cycle, used, limit, feature, result>> BY DEF Check, world
    <3> HIDE DEF new, r, old, f, top
    <3> QED BY <1>0, <3>1, <3>2
  <2>2. /\ top \in {0} \cup Threshold /\ top \in {Level(r, old)} \cup new /\ top >= Level(r, old)
        /\ \A t \in new : top >= t
    <3>1. top \in {0} \cup Threshold /\ top >= Level(r, old) /\ \A t \in new : top >= t
      BY <1>0, LevelTyped
    <3>2. {Level(r, old)} \cup new \in SUBSET ({0} \cup Threshold)
      BY <1>0, LevelTyped
    <3> HIDE DEF new, r, old, f
    <3> QED BY <3>1, <3>2, HighestIsMax DEF top
  \* A level that still stands was triggered by a count like this one.
  <2>3. ASSUME Level(r, old) > 0
        PROVE  /\ Level(r, old) = old.level /\ r.used >= old.last
               /\ old.level * limit <= r.used * 100
               /\ Covers(f, r.cycle)
    <3>1. Level(r, old) = old.level /\ r.used >= old.last BY <2>3, <1>0 DEF Level
    <3>2. old.level * limit <= old.last * 100 /\ old.level \in Threshold
      BY <3>1, <2>3, <1>0, <1>1 DEF Reaches, Threshold
    <3>3. old.level * limit <= r.used * 100
      <4>1. old.level * limit \in Int /\ old.last \in Nat BY <1>0, <3>2 DEF Threshold
      <4> QED BY <4>1, <3>1, <3>2, <1>0
    <3>4. ~SetBack(r.used)
      <4>1. SetBack(r.used) => r.used * 100 < old.level * limit
        BY <1>1, <1>2, <3>2, SetBackReaches
      <4>2. old.level * limit \in Int BY <1>0, <3>2 DEF Threshold
      <4> QED BY <4>1, <4>2, <3>3, <1>0
    <3> QED BY <3>1, <3>3, <3>4, <1>1
  <2>4. ASSUME NEW t \in Threshold, t <= Level(r, old)
        PROVE  AlertOf(g, t) \in raised
    <3>1. Level(r, old) > 0 BY <2>4, <1>0 DEF Threshold, Level
    <3> QED BY <3>1, <2>3, <2>4 DEF Covers, AlertOf
  <2>5. \A t \in Reached(r) : t \in Threshold /\ AlertOf(g, t) \in raised'
    <3> SUFFICES ASSUME NEW t \in Reached(r) PROVE t \in Threshold /\ AlertOf(g, t) \in raised'
      OBVIOUS
    <3>1. t \in Threshold BY DEF Reached
    <3>2. CASE t \in new BY <2>1, <3>1, <3>2
    <3>3. CASE t \notin new
      <4>1. t <= Level(r, old) BY <3>1, <3>3, <1>0 DEF New, Threshold, Level
      <4> QED BY <4>1, <3>1, <2>1, <2>4
    <3> QED BY <3>2, <3>3
  <2>6. top > 0 => top * limit <= r.used * 100
    <3>1. CASE top \in new BY <3>1, <1>1 DEF New, Reached
    <3>2. CASE top = Level(r, old) BY <3>2, <2>3
    <3> QED BY <2>2, <3>1, <3>2
  <2>7. \A t \in Threshold : t <= top => t \in Reached(r)
    <3> SUFFICES ASSUME NEW t \in Threshold, t <= top PROVE t \in Reached(r) OBVIOUS
    <3>1. top > 0 /\ top \in Nat /\ t \in Nat BY <2>2 DEF Threshold
    <3>2. t * limit <= top * limit BY <3>1, <1>0, <2>2 DEF Threshold
    <3>3. t * limit \in Int /\ top * limit \in Int BY <3>1, <1>0, <2>2 DEF Threshold
    <3>4. t * limit <= r.used * 100 BY <3>1, <3>2, <3>3, <2>6, <1>0
    <3> QED BY <3>4, <1>1, <1>2 DEF Reached
  <2>8. \A e \in Feature : e = f BY <1>0 DEF Steady
  <2>9. Covers(f, r.cycle)'
    <3>1. \A t \in Threshold : t <= top => AlertOf(g, t) \in raised' BY <2>5, <2>7
    <3>2. tracker'[f].level = top BY <2>1
    <3> HIDE DEF top, new
    <3> QED BY <2>1, <3>1, <3>2 DEF Covers, AlertOf
  <2>10. Reaches(f)'
    <3>1. tracker'[f].level = top /\ tracker'[f].last = r.used BY <2>1
    <3> HIDE DEF top, new
    <3> QED BY <3>1, <2>1, <2>6, <1>1, <1>2 DEF Reaches
  <2>11. MissInv'
    <3>1. \A h \in Goroutine : h = g BY DEF Steady, Alone
    <3>2. \A e \in Feature : Reaches(e)' BY <2>1, <2>8, <2>10
    <3>3. \A e \in Feature : (Covers(e, cycle) \/ used = 0)'
      BY <2>1, <2>8, <2>9, <1>1 DEF Covers
    <3>4. used = 0 => SetBack(used) BY DEF SetBack
    <3> HIDE DEF top, new, r
    <3> QED BY <2>1, <3>1, <3>2, <3>3, <3>4 DEF MissInv, SetBack
  <2> QED BY <2>5, <2>11
<1>3. CASE r.limit <= 0
  <2>1. Reached(r) = {} BY <1>0, <1>3 DEF Reached
  <2>2. pc' = [pc EXCEPT ![g] = "idle"]
        /\ UNCHANGED <<used, limit, cycle, tracker, raised, feature, result>>
    BY <1>0, <1>3 DEF Check, world
  <2>3. \A e \in Feature : tracker[e].level = 0
    <3>1. \A e \in Feature : tracker[e].level \in {0} \cup Threshold BY <1>0
    <3> QED BY <1>1, <1>3, <1>0, <3>1 DEF MissInv, Reaches, Threshold
  <2>4. \A e \in Feature : \A n : Covers(e, n) BY <2>3 DEF Covers, Threshold
  <2>5. \A h \in Goroutine : h = g BY DEF Steady, Alone
  <2>6. pc'[g] = "idle" BY <2>2, <1>0
  <2> QED BY <2>1, <2>2, <2>4, <2>5, <2>6 DEF MissInv, Covers, Reaches, SetBack
<1> QED BY <1>0, <1>2, <1>3

LEMMA MissStep ==
    ASSUME Steady PROVE TypeInv /\ MissInv /\ [Next]_vars => MissInv'
<1> SUFFICES ASSUME TypeInv, MissInv, [Next]_vars PROVE MissInv' OBVIOUS
<1> USE DEF world
<1>0. /\ used \in Nat /\ pc \in [Goroutine -> {"idle", "recorded", "observed", "firing"}]
      /\ result \in [Goroutine -> Result] /\ limit \in Limits /\ limit' \in Limits
      /\ \A g, h \in Goroutine : g = h
      /\ tracker \in [Feature -> [last: Nat, level: {0} \cup Threshold]]
  BY TypeStep DEF TypeInv, TypeOK, Steady, Alone
<1>a. /\ \A f \in Feature : Reaches(f)
      /\ \A f \in Feature : Covers(f, cycle) \/ SetBack(used)
  BY DEF MissInv
<1>b. ASSUME NEW g \in Goroutine
      PROVE  /\ pc[g] \in {"idle", "firing"} => \A f \in Feature : Covers(f, cycle) \/ used = 0
             /\ pc[g] = "observed" =>
                /\ result[g].limit = limit
                /\ \A f \in Feature : Covers(f, result[g].cycle) \/ SetBack(result[g].used)
                /\ result[g].cycle = cycle \/ used = 0
  BY DEF MissInv
<1>1. ASSUME NEW g \in Goroutine, Record(g) PROVE MissInv'
  <2>1. PICK q \in Quantity : used' = used + q BY <1>1 DEF Record, Consume
  <2>2. UNCHANGED <<limit, cycle, tracker, result, raised>> /\ pc'[g] = "recorded"
    BY <1>1, <1>0 DEF Record, Steady
  <2>3. \A f \in Feature : Covers(f, cycle) \/ used = 0 BY <1>1, <1>b DEF Record
  <2>4. used = 0 => SetBack(used') BY <2>1, QuantityAssumption DEF SetBack
  <2> QED BY <2>2, <2>3, <2>4, <1>0, <1>a DEF MissInv, Covers, Reaches, SetBack
<1>2. ASSUME NEW g \in Goroutine, Observe(g) PROVE MissInv'
  <2>1. /\ result'[g] = [used |-> used, limit |-> limit, cycle |-> cycle]
        /\ pc'[g] = "observed"
        /\ UNCHANGED <<used, limit, cycle, raised, tracker, feature>>
    BY <1>2, <1>0 DEF Observe, Steady
  <2>2. result'[g].used = used /\ result'[g].cycle = cycle /\ result'[g].limit = limit BY <2>1
  <2> QED BY <2>1, <2>2, <1>0, <1>a DEF MissInv, Covers, Reaches, SetBack
<1>3. ASSUME NEW g \in Goroutine, Check(g) PROVE MissInv' BY <1>3, MissCheck
<1>4. ASSUME NEW g \in Goroutine, Deliver(g) PROVE MissInv'
  BY <1>4, <1>0, <1>a, <1>b DEF Deliver, MissInv, Covers, Reaches, SetBack
<1>5. ASSUME NEW g \in Goroutine, Finish(g) PROVE MissInv'
  <2>1. pc'[g] = "idle" /\ UNCHANGED <<used, limit, cycle, tracker, raised>>
    BY <1>5, <1>0 DEF Finish
  <2>2. \A f \in Feature : Covers(f, cycle) \/ used = 0 BY <1>5, <1>b DEF Finish
  <2> QED BY <2>1, <2>2, <1>0, <1>a DEF MissInv, Covers, Reaches, SetBack
<1>6. CASE OnUsageAlert
  BY <1>6, <1>a, <1>b DEF OnUsageAlert, MissInv, Covers, Reaches, SetBack
\* A fresh tracker has triggered nothing.
<1>7. CASE InvalidateWorkspace
  <2>1. UNCHANGED <<used, limit, cycle, pc, result>> BY <1>7 DEF InvalidateWorkspace
  <2>2. \A f \in Feature : tracker'[f].level = 0 BY <1>7 DEF InvalidateWorkspace, Unseen
  <2>3. \A f \in Feature : \A n : Covers(f, n)' BY <2>2 DEF Covers, Threshold
  <2>4. \A f \in Feature : Reaches(f)' BY <2>2 DEF Reaches
  <2>5. \A g \in Goroutine : pc[g] = "observed" => result[g].limit = limit /\ (result[g].cycle = cycle \/ used = 0)
    BY <1>b
  <2> QED BY <2>1, <2>3, <2>4, <2>5 DEF MissInv
<1>8. CASE ExternalUse BY <1>8 DEF ExternalUse, Steady
<1>9. CASE Reset
  <2>1. used' = 0 /\ UNCHANGED <<limit, tracker, pc, result, raised>> BY <1>9 DEF Reset
  <2>2. SetBack(used)' BY <2>1 DEF SetBack
  <2>3. \A g \in Goroutine : pc[g] = "observed" =>
          /\ result[g].limit = limit
          /\ \A f \in Feature : Covers(f, result[g].cycle) \/ SetBack(result[g].used)
    BY <1>b
  <2> QED BY <2>1, <2>2, <2>3, <1>a DEF MissInv, Covers, Reaches, SetBack
<1>10. CASE ChangeLimit BY <1>10, <1>0 DEF ChangeLimit, Steady
<1>11. CASE UNCHANGED vars BY <1>11, <1>a, <1>b DEF vars, MissInv, Covers, Reaches, SetBack
<1> QED
  BY <1>1, <1>2, <1>3, <1>4, <1>5, <1>6, <1>7, <1>8, <1>9, <1>10, <1>11 DEF Next, Steps

\* When one goroutine records small quantities of one feature that nobody else
\* draws on, under a limit that stays, every threshold a check sees reached is
\* raised in this cycle, whatever is reset or invalidated meanwhile: the first
\* count after a reset is below the last one seen and re-arms the thresholds.
\* (Without small records it need not be, and thresholds stay silent.)
THEOREM CrossingsAreRaised == ASSUME Steady PROVE Spec => NoMissedCrossing
<1>1. Init => MissInv
  <2> SUFFICES ASSUME Init PROVE MissInv OBVIOUS
  <2>1. \A f \in Feature : tracker[f].level = 0 BY DEF Init, Unseen
  <2>2. \A f \in Feature : \A n : Covers(f, n) BY <2>1 DEF Covers, Threshold
  <2> QED BY <2>1, <2>2 DEF Init, MissInv, Reaches
<1>2. TypeInv /\ MissInv /\ [Next]_vars =>
          [\A g \in Goroutine :
              Check(g) => \A t \in Reached(result[g]) : AlertOf(g, t) \in raised']_vars
  BY MissCheck
<1> QED BY <1>1, <1>2, TypeInit, TypeStep, MissStep, PTL DEF Spec, NoMissedCrossing
===============================================================================
