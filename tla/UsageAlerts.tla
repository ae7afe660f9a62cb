----------------------------- MODULE UsageAlerts -----------------------------
(***************************************************************************)
(* The threshold alerts of package tenant (tenant.go, alert.go): goroutines*)
(* record consumption, look at what the record left of the limit, compare  *)
(* it under Tenant.lock with what was last seen of that feature, and call  *)
(* the registered handlers outside the lock.  The features here are those  *)
(* of one workspace that share one pool: they share a counter and a limit, *)
(* and each has alert state of its own.                                    *)
(***************************************************************************)
EXTENDS Integers, FiniteSets

CONSTANTS
    Goroutine,      \* goroutines that call Tenant.RecordUsage
    Feature,        \* feature codes that draw on the pool
    Quantity,       \* quantities recorded
    Limits,         \* limits the workspace's packages may give the pool; 0 also
                    \* stands for an unlimited pool, which has no share either
    MaxUsed,        \* bound: consumption that is followed
    MaxCycle,       \* bound: resets and limit changes that are followed
    MaxHandlers,    \* bound: handlers registered
    LoadMayFail,    \* Can may fail to load the count, or the limit
    SharedCounter   \* others draw on the pool too

Threshold == {80, 90, 100}
Cycle == 0..MaxCycle
HandlerIx == 1..MaxHandlers
Alert == [feature: Feature, threshold: Threshold, cycle: Cycle]

ASSUME QuantityAssumption == Quantity \subseteq Nat \ {0}
ASSUME LimitsAssumption == Limits \subseteq Nat /\ Limits # {}
ASSUME BoundAssumption == {MaxUsed, MaxCycle, MaxHandlers} \subseteq Nat
ASSUME SwitchAssumption == {LoadMayFail, SharedCounter} \subseteq BOOLEAN

VARIABLES
    used,      \* the pool's counter at the API
    limit,     \* the pool's limit
    cycle,     \* ghost: how often the consumed share was set back
    tracker,   \* Tenant.alertState: last count seen, highest level triggered
    handlers,  \* how many handlers are registered; a handler is its position
    pc,        \* where each goroutine is in Tenant.RecordUsage
    feature,   \* the feature each goroutine records
    result,    \* what Can told it: count, limit, and the ghost cycle
    todo,      \* the calls of handlers it still has to make
    raised,    \* ghost: alerts raised since the alert state was dropped
    heard      \* ghost: alerts each handler was called with

world == <<used, limit, cycle>>
vars == <<used, limit, cycle, tracker, handlers, pc, feature, result, todo, raised, heard>>

Result == [used: Nat, limit: Nat, cycle: Cycle]
Unseen == [last |-> 0, level |-> 0]
NoResult == [used |-> 0, limit |-> 0, cycle |-> 0]

Init ==
    /\ used = 0
    /\ limit \in Limits
    /\ cycle = 0
    /\ tracker = [f \in Feature |-> Unseen]
    /\ handlers = 0
    /\ pc = [g \in Goroutine |-> "idle"]
    /\ feature \in [Goroutine -> Feature]
    /\ result = [g \in Goroutine |-> NoResult]
    /\ todo = [g \in Goroutine |-> {}]
    /\ raised = {}
    /\ heard = [i \in HandlerIx |-> {}]

-------------------------------------------------------------------------------
(* Tenant.RecordUsage *)

Consume(q) ==
    /\ used + q <= MaxUsed
    /\ used' = used + q

\* The service records; when it reports an error although the API counted
\* (a lost answer, a failed invalidation), RecordUsage returns at once.
Record(g) ==
    /\ pc[g] = "idle"
    /\ \E f \in Feature : feature' = [feature EXCEPT ![g] = f]
    /\ \E q \in Quantity : Consume(q)
    /\ \/ pc' = [pc EXCEPT ![g] = "recorded"]
       \/ LoadMayFail /\ UNCHANGED pc
    /\ UNCHANGED <<limit, cycle, tracker, handlers, result, todo, raised, heard>>

\* Can(ctx, ws, featureCode, 0).  A count it cannot load is 0; a feature or a
\* limit it cannot load leaves Limit and Used nil, and nothing is checked.
Observe(g) ==
    /\ pc[g] = "recorded"
    /\ \/ \E u \in {used} \cup (IF LoadMayFail THEN {0} ELSE {}) :
             /\ result' = [result EXCEPT ![g] =
                             [used |-> u, limit |-> limit, cycle |-> cycle]]
             /\ pc' = [pc EXCEPT ![g] = "observed"]
       \/ LoadMayFail /\ pc' = [pc EXCEPT ![g] = "idle"] /\ UNCHANGED result
    /\ UNCHANGED <<world, tracker, handlers, feature, todo, raised, heard>>

\* UsagePercent() >= threshold, in exact arithmetic: the float quotient of an
\* exact 0.8, 0.9 or 1 is the nearest double, and a hundred times it is exact.
Reached(r) == {t \in Threshold : r.limit > 0 /\ r.used * 100 >= t * r.limit}

\* Mutants of Level: the state is not consulted; a lower count does not re-arm.
LevelForgotten(r, seen) == 0
LevelKept(r, seen) == seen.level

\* The level the thresholds are compared with: none once the count went down.
Level(r, seen) == IF r.used < seen.last THEN 0 ELSE seen.level

New(r, seen) == {t \in Reached(r) : t > Level(r, seen)}

Highest(S) == CHOOSE t \in S : \A u \in S : u <= t

AlertOf(g, t) == [feature |-> feature[g], threshold |-> t, cycle |-> result[g].cycle]

\* The locked section of CheckUsageAlerts.  UsagePercent is nil for a limit of
\* zero or less: then the tracker stays as it is.
Check(g) ==
    /\ pc[g] = "observed"
    /\ LET f == feature[g]
           new == New(result[g], tracker[f]) IN
          \/ /\ result[g].limit > 0
             /\ tracker' = [tracker EXCEPT ![f] =
                  [last |-> result[g].used,
                   level |-> Highest({Level(result[g], tracker[f])} \cup new)]]
             /\ todo' = [todo EXCEPT ![g] = new \X (1..handlers)]
             /\ raised' = raised \cup {AlertOf(g, t) : t \in new}
             /\ pc' = [pc EXCEPT ![g] = "firing"]
          \/ /\ result[g].limit <= 0
             /\ pc' = [pc EXCEPT ![g] = "idle"]
             /\ UNCHANGED <<tracker, todo, raised>>
    /\ UNCHANGED <<world, handlers, feature, result, heard>>

\* Mutant of Before: the last registered handler is called first.
BeforeNewest(d, e) == d[1] < e[1] \/ (d[1] = e[1] /\ d[2] > e[2])

\* Thresholds in rising order, for each the handlers in registration order.
Before(d, e) == d[1] < e[1] \/ (d[1] = e[1] /\ d[2] < e[2])

IsNext(g, d) == d \in todo[g] /\ \A e \in todo[g] \ {d} : Before(d, e)

\* Mutant of Deliver: the panic of a handler unwinds CheckUsageAlerts.
DeliverUnrecovered(g) ==
    /\ pc[g] = "firing"
    /\ \E d \in todo[g] :
          /\ IsNext(g, d)
          /\ heard' = [heard EXCEPT ![d[2]] = @ \cup {AlertOf(g, d[1])}]
          /\ \/ todo' = [todo EXCEPT ![g] = @ \ {d}]
             \/ todo' = [todo EXCEPT ![g] = {}]
    /\ UNCHANGED <<world, tracker, handlers, pc, feature, result, raised>>

\* A handler is called; it returns or panics, and the panic is recovered.
Deliver(g) ==
    /\ pc[g] = "firing"
    /\ \E d \in todo[g] :
          /\ IsNext(g, d)
          /\ heard' = [heard EXCEPT ![d[2]] = @ \cup {AlertOf(g, d[1])}]
          /\ todo' = [todo EXCEPT ![g] = @ \ {d}]
    /\ UNCHANGED <<world, tracker, handlers, pc, feature, result, raised>>

Finish(g) ==
    /\ pc[g] = "firing"
    /\ todo[g] = {}
    /\ pc' = [pc EXCEPT ![g] = "idle"]
    /\ result' = [result EXCEPT ![g] = NoResult]
    /\ UNCHANGED <<world, tracker, handlers, feature, todo, raised, heard>>

-------------------------------------------------------------------------------
(* The other operations on the alert state *)

OnUsageAlert ==
    /\ handlers < MaxHandlers
    /\ handlers' = handlers + 1
    /\ UNCHANGED <<world, tracker, pc, feature, result, todo, raised, heard>>

\* Mutant of InvalidateWorkspace: the handlers go with the alert state.
InvalidateAll ==
    /\ tracker' = [f \in Feature |-> Unseen]
    /\ raised' = {}
    /\ handlers' = 0
    /\ UNCHANGED <<world, pc, feature, result, todo, heard>>

\* InvalidateWorkspace, when the cache reports no error.
InvalidateWorkspace ==
    /\ tracker' = [f \in Feature |-> Unseen]
    /\ raised' = {}
    /\ UNCHANGED <<world, handlers, pc, feature, result, todo, heard>>

-------------------------------------------------------------------------------
(* What happens at the API *)

ExternalUse ==
    /\ SharedCounter
    /\ \E q \in Quantity : Consume(q)
    /\ UNCHANGED <<limit, cycle, tracker, handlers, pc, feature, result, todo, raised, heard>>

\* A billing cycle ends.
Reset ==
    /\ cycle < MaxCycle
    /\ cycle' = cycle + 1
    /\ used' = 0
    /\ UNCHANGED <<limit, tracker, handlers, pc, feature, result, todo, raised, heard>>

\* A package is added, removed or changed.
ChangeLimit ==
    /\ cycle < MaxCycle
    /\ cycle' = cycle + 1
    /\ limit' \in Limits \ {limit}
    /\ UNCHANGED <<used, tracker, handlers, pc, feature, result, todo, raised, heard>>

-------------------------------------------------------------------------------
Steps(g) == Observe(g) \/ Check(g) \/ Deliver(g) \/ Finish(g)

Next ==
    \/ \E g \in Goroutine : Record(g) \/ Steps(g)
    \/ OnUsageAlert \/ InvalidateWorkspace
    \/ ExternalUse \/ Reset \/ ChangeLimit

\* A goroutine that has recorded goes on: Can ends within the HTTP timeout and
\* handlers return.
Fairness == \A g \in Goroutine : WF_vars(Steps(g))

Spec == Init /\ [][Next]_vars
FairSpec == Spec /\ Fairness

-------------------------------------------------------------------------------
(* Properties *)

\* The values the variables take.
TypeOK ==
    /\ used \in Nat /\ limit \in Limits /\ cycle \in Cycle
    /\ tracker \in [Feature -> [last: Nat, level: {0} \cup Threshold]]
    /\ handlers \in 0..MaxHandlers
    /\ pc \in [Goroutine -> {"idle", "recorded", "observed", "firing"}]
    /\ feature \in [Goroutine -> Feature]
    /\ result \in [Goroutine -> Result]
    /\ todo \in [Goroutine -> SUBSET (Threshold \X (1..handlers))]
    /\ raised \in SUBSET Alert
    /\ heard \in [HandlerIx -> SUBSET Alert]

\* "fires registered AlertHandlers if a threshold is newly crossed"
\* (CheckUsageAlerts): in one cycle a threshold of a feature is raised once.
NewlyCrossed ==
    [][\A g \in Goroutine :
          Check(g) /\ result[g].limit > 0 =>
              \A t \in New(result[g], tracker[feature[g]]) : AlertOf(g, t) \notin raised]_vars

\* "invoked when a usage threshold is crossed" (OnUsageAlert): a check that
\* sees a threshold reached leaves it raised for this cycle.
NoMissedCrossing ==
    [][\A g \in Goroutine :
          Check(g) => \A t \in Reached(result[g]) : AlertOf(g, t) \in raised']_vars

\* "all fire in registration order" (OnUsageAlert): whatever a handler was
\* called with, the handlers registered before it were called with already.
RegistrationOrder ==
    \A i, j \in HandlerIx : i < j /\ j <= handlers => heard[j] \subseteq heard[i]

\* Every handler that was registered when an alert was raised is called with
\* it in the end, other handlers' panics and later registrations regardless.
EveryHandlerHears ==
    \A g \in Goroutine, t \in Threshold, i \in HandlerIx, f \in Feature, n \in Cycle :
        (<<t, i>> \in todo[g] /\ AlertOf(g, t) = [feature |-> f, threshold |-> t, cycle |-> n])
            ~> [feature |-> f, threshold |-> t, cycle |-> n] \in heard[i]
===============================================================================
