------------------------------ MODULE UsageCache ------------------------------
(***************************************************************************)
(* The usage counters of package tenant: what TenantCache (cache.go) keeps *)
(* in memory and in the go-store behind it, what localEntitlementService   *)
(* (entitlement.go) reads and drops there, and the counter the PHP API     *)
(* owns.  Goroutines ("callers") run Can, RecordUsage and                  *)
(* InvalidateWorkspace.  A step is what the code does between two points   *)
(* where another goroutine, the clock or a crash can come in: a locked     *)
(* section is one step unless it touches the store, because GetUsage reads *)
(* the store without the lock.                                             *)
(***************************************************************************)
EXTENDS Integers, Sequences, FiniteSets

CONSTANTS
    Caller,        \* goroutines
    Workspace,     \* workspace UUIDs
    Pool,          \* normalised pool codes
    Quantity,      \* quantities passed to RecordUsage
    TTL,           \* TTLUsage in clock ticks
    MaxVersion,    \* bound: states of one API counter that are followed
    MaxCount,      \* bound: cache-only counts up to which RecordUsage starts
    HasStore,      \* NewTenantCache was given a store
    HasClient,     \* the service was given a TenantClient
    StoreMayFail,  \* store calls may return an error
    MayRestart,    \* the process may crash and start again
    Prompt,        \* local steps take no time: the clock moves only while
                   \*   every caller is idle or waits for the network
    None,          \* no entry, no count, no call
    Free           \* the lock when nobody holds it

Key == Workspace \X Pool

\* An entry outlives its write by TTL, and by one more TTL when it is read
\* back from the store; older ages are not told apart.
MaxAge == 2 * TTL + 1

Count == [value: Nat, seen: Nat, age: 0..MaxAge]
Entry == [value: Nat, seen: Nat, age: 0..MaxAge, left: -1..TTL]

Call == [op: {"can", "record", "invalidate"}, key: Key, qty: Nat]

ASSUME QuantityAssumption == Quantity \subseteq Nat \ {0}
ASSUME TTLAssumption == TTL \in Nat \ {0}
ASSUME BoundAssumption == MaxVersion \in Nat /\ MaxCount \in Nat
ASSUME SwitchAssumption ==
    {HasStore, HasClient, StoreMayFail, MayRestart, Prompt} \subseteq BOOLEAN
ASSUME NoneAssumption == None \notin Entry \cup Count \cup Call
ASSUME FreeAssumption == Free \notin Caller

VARIABLES
    api,    \* every count the API's counter ever had, the last one current
    usage,  \* TenantCache.usage: the counts in memory
    store,  \* the go-store groups ws:<uuid>:usage:<pool>
    lock,   \* who holds TenantCache.lock for writing
    pc,     \* where each caller is
    call,   \* the call each caller runs
    held,   \* the count each caller carries in a local variable
    floor   \* ghost: the API version at the last drop that reported success

vars == <<api, usage, store, lock, pc, call, held, floor>>
cache == <<usage, store, lock>>

Location == {"idle", "peek", "evict", "read", "warm", "fetch", "set", "persist",
             "post", "drop", "dropStore", "clear", "clearMemory", "clearFailed"}

\* Where a caller takes time whatever happens: between calls and on the wire.
Waiting == {"idle", "fetch", "post"}

Version(k) == Len(api[k])
Live(e) == e # None /\ e.left >= 0

\* `age` and `seen` are ghosts: the ticks since the API (or, cache-only, this
\* process) produced the count, and the version of the API it is the count of.
Fresh(count) == [value |-> count.value, seen |-> count.seen, age |-> count.age,
                 left |-> TTL]

Init ==
    /\ api = [k \in Key |-> <<0>>]
    /\ usage = [k \in Key |-> None]
    /\ store = [k \in Key |-> None]
    /\ lock = Free
    /\ pc = [c \in Caller |-> "idle"]
    /\ call = [c \in Caller |-> None]
    /\ held = [c \in Caller |-> None]
    /\ floor = [k \in Key |-> 0]

-------------------------------------------------------------------------------
(* Calls begin and end *)

\* Free-running counts are bounded at the call that would raise them.
Room(k, q) ==
    HasClient \/ \A e \in {usage[k], store[k]} : e # None => e.value + q <= MaxCount

Begin(c, op, k, q, first) ==
    /\ pc[c] = "idle"
    /\ call' = [call EXCEPT ![c] = [op |-> op, key |-> k, qty |-> q]]
    /\ pc' = [pc EXCEPT ![c] = first]
    /\ UNCHANGED <<api, usage, store, lock, held, floor>>

\* Can reaches loadUsage.
StartCan(c) == \E k \in Key : Begin(c, "can", k, 0, "peek")

\* RecordUsage, its feature definition loaded: with a client the record is
\* posted, without one the cached count is read and raised.
StartRecord(c) ==
    \E k \in Key, q \in Quantity :
        /\ Room(k, q)
        /\ Begin(c, "record", k, q, IF HasClient THEN "post" ELSE "peek")

StartInvalidate(c) == \E k \in Key : Begin(c, "invalidate", k, 0, "clear")

\* A caller moves on within its call, with the count it carries, or returns.
Go(c, where) ==
    /\ pc' = [pc EXCEPT ![c] = where]
    /\ UNCHANGED <<call, held>>

Carry(c, where, value, seen, age) ==
    /\ pc' = [pc EXCEPT ![c] = where]
    /\ held' = [held EXCEPT ![c] = [value |-> value, seen |-> seen, age |-> age]]
    /\ UNCHANGED call

Return(c) ==
    /\ pc' = [pc EXCEPT ![c] = "idle"]
    /\ call' = [call EXCEPT ![c] = None]
    /\ held' = [held EXCEPT ![c] = None]

-------------------------------------------------------------------------------
(* GetUsage *)

\* What the callers of GetUsage do with a hit: loadUsage returns it, a
\* cache-only RecordUsage adds its quantity to it.
Hit(c, count) ==
    IF call[c].op = "can"
    THEN Return(c)
    ELSE Carry(c, "set", count.value + call[c].qty, 0, 0)

\* And with a miss: loadUsage asks the API if it can, a cache-only
\* RecordUsage starts counting at its quantity.
Miss(c) ==
    CASE call[c].op = "can" /\ HasClient  -> Go(c, "fetch")
      [] call[c].op = "can" /\ ~HasClient -> Return(c)
      [] OTHER                            -> Carry(c, "set", call[c].qty, 0, 0)

\* The read-locked look at the map, and the expiry test that follows it.
Peek(c) ==
    /\ pc[c] = "peek"
    /\ lock = Free
    /\ LET e == usage[call[c].key] IN
          \/ e = None /\ Go(c, "read")
          \/ e # None /\ ~Live(e) /\ Go(c, "evict")
          \/ Live(e) /\ Hit(c, e)
    /\ UNCHANGED <<api, cache, floor>>

\* The expired entry is deleted under the lock, whatever is there by then.
Evict(c) ==
    /\ pc[c] = "evict"
    /\ lock = Free
    /\ usage' = [usage EXCEPT ![call[c].key] = None]
    /\ Go(c, "read")
    /\ UNCHANGED <<api, store, lock, floor>>

\* The store is read with no lock held; a failing store is a miss.
ReadStore(c) ==
    /\ pc[c] = "read"
    /\ LET e == store[call[c].key] IN
          \/ Live(e) /\ Carry(c, "warm", e.value, e.seen, e.age)
          \/ (~Live(e) \/ StoreMayFail) /\ Miss(c)
    /\ UNCHANGED <<api, cache, floor>>

\* Mutant of Warm: like GetWorkspace and its siblings, it writes back through
\* the setter, which gives the store's entry a new lifetime too.
WarmPersists(c) ==
    /\ pc[c] = "warm"
    /\ lock = Free
    /\ usage' = [usage EXCEPT ![call[c].key] = Fresh(held[c])]
    /\ store' = [store EXCEPT ![call[c].key] = Fresh(held[c])]
    /\ Hit(c, held[c])
    /\ UNCHANGED <<api, lock, floor>>

\* What the store held goes back to memory, with a whole TTL of its own.
Warm(c) ==
    /\ pc[c] = "warm"
    /\ lock = Free
    /\ usage' = [usage EXCEPT ![call[c].key] = Fresh(held[c])]
    /\ Hit(c, held[c])
    /\ UNCHANGED <<api, store, lock, floor>>

-------------------------------------------------------------------------------
(* loadUsage past a miss: the API answers or fails, the answer is cached *)

FetchAnswered(c) ==
    /\ pc[c] = "fetch"
    /\ LET k == call[c].key IN
          Carry(c, "set", api[k][Version(k)], Version(k), 0)
    /\ UNCHANGED <<api, cache, floor>>

FetchFailed(c) ==
    /\ pc[c] = "fetch"
    /\ Return(c)
    /\ UNCHANGED <<api, cache, floor>>

\* SetUsage, first half: lock, write memory.
SetUsage(c) ==
    /\ pc[c] = "set"
    /\ lock = Free
    /\ lock' = c
    /\ usage' = [usage EXCEPT ![call[c].key] = Fresh(held[c])]
    /\ Go(c, "persist")
    /\ UNCHANGED <<api, store, floor>>

\* Mutant of PersistUsage: the return on a store error forgets to unlock.
PersistUsageLocked(c) ==
    /\ pc[c] = "persist"
    /\ \/ /\ HasStore /\ store' = [store EXCEPT ![call[c].key] = Fresh(held[c])]
          /\ lock' = Free
       \/ /\ ~HasStore /\ UNCHANGED store /\ lock' = Free
       \/ /\ StoreMayFail /\ UNCHANGED <<store, lock>>
    /\ Return(c)
    /\ UNCHANGED <<api, usage, floor>>

\* SetUsage, second half: write the store, unlock.
PersistUsage(c) ==
    /\ pc[c] = "persist"
    /\ \/ HasStore /\ store' = [store EXCEPT ![call[c].key] = Fresh(held[c])]
       \/ (~HasStore \/ StoreMayFail) /\ UNCHANGED store
    /\ lock' = Free
    /\ Return(c)
    /\ UNCHANGED <<api, usage, floor>>

-------------------------------------------------------------------------------
(* RecordUsage against the API, then invalidateUsage *)

\* The API's counter takes its next value.
Counts(k, value) ==
    /\ Version(k) < MaxVersion
    /\ api' = [api EXCEPT ![k] = Append(@, value)]

\* The POST is applied, and its answer arrives or is lost.
PostApplied(c) ==
    /\ pc[c] = "post"
    /\ LET k == call[c].key IN Counts(k, api[k][Version(k)] + call[c].qty)
    /\ Go(c, "drop") \/ Return(c)
    /\ UNCHANGED <<cache, floor>>

PostFailed(c) ==
    /\ pc[c] = "post"
    /\ Return(c)
    /\ UNCHANGED <<api, cache, floor>>

\* Mutant of DropUsage: the cached count is raised instead of dropped.
DropUsageRaises(c) ==
    /\ pc[c] = "drop"
    /\ lock = Free
    /\ lock' = c
    /\ LET k == call[c].key IN
          usage' = [usage EXCEPT ![k] =
                      IF @ = None THEN None ELSE [@ EXCEPT !.value = @ + call[c].qty]]
    /\ Go(c, "dropStore")
    /\ UNCHANGED <<api, store, floor>>

\* Mutant of DropUsage: the lock is let go before the store is reached.
DropUsageUnlocks(c) ==
    /\ pc[c] = "drop"
    /\ lock = Free
    /\ usage' = [usage EXCEPT ![call[c].key] = None]
    /\ Go(c, "dropStore")
    /\ UNCHANGED <<api, store, lock, floor>>

\* invalidateUsage, first half: lock, delete from memory.
DropUsage(c) ==
    /\ pc[c] = "drop"
    /\ lock = Free
    /\ lock' = c
    /\ usage' = [usage EXCEPT ![call[c].key] = None]
    /\ Go(c, "dropStore")
    /\ UNCHANGED <<api, store, floor>>

\* Mutant of DropStored: the count stays in the store.
DropStoredKeeps(c) ==
    /\ pc[c] = "dropStore"
    /\ floor' = [floor EXCEPT ![call[c].key] = Version(call[c].key)]
    /\ lock' = Free
    /\ Return(c)
    /\ UNCHANGED <<api, usage, store>>

\* invalidateUsage, second half: delete the store group, unlock, report.
DropStored(c) ==
    /\ pc[c] = "dropStore"
    /\ LET k == call[c].key IN
          \/ /\ store' = [store EXCEPT ![k] = None]
             /\ floor' = [floor EXCEPT ![k] = Version(k)]
          \/ /\ StoreMayFail
             /\ UNCHANGED <<store, floor>>
    /\ lock' = Free
    /\ Return(c)
    /\ UNCHANGED <<api, usage>>

-------------------------------------------------------------------------------
(* InvalidateWorkspace, as far as it touches usage *)

SameWorkspace(c) == {k \in Key : k[1] = call[c].key[1]}

\* Lock, delete the workspace's usage groups by prefix.  An error does not
\* stop the call.
ClearStored(c) ==
    /\ pc[c] = "clear"
    /\ lock = Free
    /\ lock' = c
    /\ \/ /\ store' = [k \in Key |-> IF k \in SameWorkspace(c) THEN None ELSE store[k]]
          /\ Go(c, "clearMemory")
       \/ /\ StoreMayFail
          /\ Go(c, "clearFailed")
          /\ UNCHANGED store
    /\ UNCHANGED <<api, usage, floor>>

\* Then the counts in memory; unlock, report.
ClearMemory(c) ==
    /\ pc[c] \in {"clearMemory", "clearFailed"}
    /\ usage' = [k \in Key |-> IF k \in SameWorkspace(c) THEN None ELSE usage[k]]
    /\ floor' = [k \in Key |->
                   IF k \in SameWorkspace(c) /\ pc[c] = "clearMemory"
                   THEN Version(k) ELSE floor[k]]
    /\ lock' = Free
    /\ Return(c)
    /\ UNCHANGED <<api, store>>

-------------------------------------------------------------------------------
(* What happens around the process *)

\* Other consumers of the pool, and the billing cycle that starts it again.
ExternalUse ==
    /\ HasClient
    /\ \E k \in Key, q \in Quantity : Counts(k, api[k][Version(k)] + q)
    /\ UNCHANGED <<cache, pc, call, held, floor>>

Reset ==
    /\ HasClient
    /\ \E k \in Key : Counts(k, 0)
    /\ UNCHANGED <<cache, pc, call, held, floor>>

Older(age) == IF age < MaxAge THEN age + 1 ELSE age

Aged(e) ==
    IF e = None THEN None
    ELSE [e EXCEPT !.age = Older(@), !.left = IF @ >= 0 THEN @ - 1 ELSE @]

\* go-store answers an expired entry like an absent one.
AgedInStore(e) == IF e = None \/ ~Live(Aged(e)) THEN None ELSE Aged(e)

Tick ==
    /\ Prompt => \A c \in Caller : pc[c] \in Waiting
    /\ usage' = [k \in Key |-> Aged(usage[k])]
    /\ store' = [k \in Key |-> AgedInStore(store[k])]
    /\ held' = [c \in Caller |->
                  IF held[c] = None THEN None ELSE [held[c] EXCEPT !.age = Older(@)]]
    /\ UNCHANGED <<api, lock, pc, call, floor>>

\* Memory is gone and every call with it; the store and the API stay.
Restart ==
    /\ MayRestart
    /\ usage' = [k \in Key |-> None]
    /\ lock' = Free
    /\ pc' = [c \in Caller |-> "idle"]
    /\ call' = [c \in Caller |-> None]
    /\ held' = [c \in Caller |-> None]
    /\ UNCHANGED <<api, store, floor>>

-------------------------------------------------------------------------------
Starts(c) == StartCan(c) \/ StartRecord(c) \/ StartInvalidate(c)

Steps(c) ==
    \/ Peek(c) \/ Evict(c) \/ ReadStore(c) \/ Warm(c)
    \/ FetchAnswered(c) \/ FetchFailed(c) \/ SetUsage(c) \/ PersistUsage(c)
    \/ PostApplied(c) \/ PostFailed(c) \/ DropUsage(c) \/ DropStored(c)
    \/ ClearStored(c) \/ ClearMemory(c)

Next ==
    \/ \E c \in Caller : Starts(c) \/ Steps(c)
    \/ ExternalUse \/ Reset \/ Tick \/ Restart

Spec == Init /\ [][Next]_vars

\* The lock is granted in turn (sync.RWMutex does not starve its waiters), a
\* request ends within the HTTP client's timeout, and time passes.
Fairness == WF_vars(Tick) /\ \A c \in Caller : SF_vars(Steps(c))

FairSpec == Spec /\ Fairness

-------------------------------------------------------------------------------
(* Properties *)

Cached(k) == {e \in {usage[k], store[k]} : Live(e)}

\* What a caller does to memory and the store together, it does locked.
Locked == {"persist", "dropStore", "clearMemory", "clearFailed"}

\* The lock is with the caller between the halves of a locked section, and with
\* nobody else: each of its paths, those of store errors included, unlocks.
Exclusive == \A c \in Caller : lock = c <=> pc[c] \in Locked

Typed ==
    /\ api \in [Key -> Seq(Nat)]
    /\ \A k \in Key : Len(api[k]) > 0
    /\ usage \in [Key -> Entry \cup {None}]
    /\ store \in [Key -> Entry \cup {None}]
    /\ lock \in Caller \cup {Free}
    /\ pc \in [Caller -> Location]
    /\ call \in [Caller -> Call \cup {None}]
    /\ held \in [Caller -> Count \cup {None}]
    /\ floor \in [Key -> Nat]

\* The values the variables take, and who may hold the lock.
TypeOK == Typed /\ Exclusive

\* With an API behind the cache, every count in memory, in the store or on its
\* way there is one the API's counter of that very workspace and pool had: the
\* service never computes, merges or misfiles a count (loadUsage, GetUsage,
\* RecordUsage, which drops the count instead of raising it).
Truthful(k, count) == count.seen \in 1..Version(k) /\ count.value = api[k][count.seen]

CachedWasTrue ==
    HasClient =>
        /\ \A k \in Key : usage[k] # None => Truthful(k, usage[k])
        /\ \A k \in Key : store[k] # None => Truthful(k, store[k])
        /\ \A c \in Caller : held[c] # None => Truthful(call[c].key, held[c])

\* A count that GetUsage can serve is never older than two lifetimes, across
\* store reads, failures and restarts: an entry read back from the store starts
\* a new lifetime (cache.go:432) but does not start one in the store.  One
\* lifetime, as the documents have it (RFC.md:74), would be too little.
BoundedStaleness ==
    Prompt => \A k \in Key : Live(usage[k]) => usage[k].age <= 2 * TTL

\* Once RecordUsage or InvalidateWorkspace has reported success, no count from
\* before that drop can be served again, from memory or from the store.
FreshReads ==
    HasClient => \A k \in Key : \A e \in Cached(k) : e.seen >= floor[k]

\* Every call returns: nobody waits for the lock for ever.
CallsReturn == \A c \in Caller : pc[c] # "idle" ~> pc[c] = "idle"

\* Once the API's counter stops moving, every count that can be served is its
\* current one from some point on, whatever was in flight or in the store.
EventuallyFresh ==
    HasClient => <>[](\A k \in Key : \A e \in Cached(k) : e.seen = Version(k))

\* The cache implements ApiCopies, with any number of callers: only what the API
\* said is served, for the key it said it of, no longer than two lifetimes; a
\* drop that reports success leaves nothing in memory or in the store, and a
\* count from before it comes back only out of the hands of a call that had it
\* by then (GetUsage, SetUsage, invalidateUsage, InvalidateWorkspace).
CopyOf(e) == [value |-> e.value, seen |-> e.seen, age |-> e.age]
Served(k) == {CopyOf(e) : e \in Cached(k)}
InFlight(k) == {held[c] : c \in {d \in Caller : held[d] # None /\ call[d].key = k}}

Copies == INSTANCE ApiCopies WITH
    served <- [k \in Key |-> Served(k)],
    flight <- [k \in Key |-> InFlight(k)],
    Bound <- IF Prompt THEN 2 * TTL ELSE MaxAge,
    Bounded <- Prompt

ImplementsCopies == Copies!Spec
===============================================================================
