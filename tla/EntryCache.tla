------------------------------- MODULE EntryCache -------------------------------
(***************************************************************************)
(* The entries of TenantCache (cache.go) other than counts and workspace   *)
(* records: the package and boost lists of one workspace, a feature        *)
(* definition and a user; and the calls that load them one after the other *)
(* (entitlement.go), resolve a user (tenant.go) or drop the lists.         *)
(* The API's whole content is one version number.  A locked section is a   *)
(* step unless it touches the store.                                       *)
(***************************************************************************)
EXTENDS Integers, Sequences

CONSTANTS
    Caller,       \* goroutines
    TTL,          \* TTLEntitlements and TTLUser in clock ticks
    MaxVersion,   \* bound: states of the API that are followed
    MaxFaults,    \* bound: store calls that fail, and crashes
    Prompt,       \* local steps take no time: the clock moves only while
                  \*   every caller is idle or waits for the API
    None,         \* no entry
    Free          \* the lock when nobody holds it

\* InvalidateWorkspace drops the lists; a feature and a user are never dropped.
Lists == {"packages", "boosts"}
Kind == Lists \cup {"feature", "user"}
MaxAge == 2 * TTL + 1
Version == [seen: Nat, age: 0..MaxAge]
Entry == [seen: Nat, age: 0..MaxAge, left: -1..TTL]

ASSUME TTLAssumption == TTL \in Nat \ {0}
ASSUME BoundAssumption == MaxVersion \in Nat \ {0} /\ MaxFaults \in Nat
ASSUME PromptAssumption == Prompt \in BOOLEAN
ASSUME NoneAssumption == None \notin Entry \cup Version
ASSUME FreeAssumption == Free \notin Caller

\* What each call loads, in this order.  A summary row loads its lists again.
Loads == [can     |-> <<"feature", "packages", "boosts">>,
          record  |-> <<"feature">>,
          summary |-> <<"packages", "boosts", "feature", "packages", "boosts">>,
          user    |-> <<"user">>,
          drop    |-> <<"packages", "boosts">>]

VARIABLES
    api,     \* the version of the API's content
    memory,  \* TenantCache.packages, .boosts, .features, .users
    stored,  \* their groups in the go-store
    lock,    \* who holds TenantCache.lock for writing
    pc,      \* where each caller is
    op,      \* the call each caller runs
    todo,    \* what it has yet to load, or to delete from the store
    held,    \* the version it carries in a local variable
    faults,  \* ghost: the store calls that failed and the crashes so far
    floor    \* ghost: the version at the last drop that succeeded undisturbed

vars == <<api, memory, stored, lock, pc, op, todo, held, faults, floor>>
cache == <<memory, stored, lock>>
ghosts == <<faults, floor>>

Live(e) == e # None /\ e.left >= 0

\* `age` is a ghost: the ticks since the API, or a context, gave the version.
Fresh(version) == [seen |-> version.seen, age |-> version.age, left |-> TTL]
New(seen) == [seen |-> seen, age |-> 0]
At(c) == Head(todo[c])

Init ==
    /\ api = 1
    /\ memory = [k \in Kind |-> None]
    /\ stored = [k \in Kind |-> None]
    /\ lock = Free
    /\ pc = [c \in Caller |-> "idle"]
    /\ op = [c \in Caller |-> "none"]
    /\ todo = [c \in Caller |-> <<>>]
    /\ held = [c \in Caller |-> None]
    /\ faults = 0
    /\ floor = 0

-------------------------------------------------------------------------------
(* Calls begin and end *)

Begin(c, call, first, version) ==
    /\ pc[c] = "idle"
    /\ pc' = [pc EXCEPT ![c] = first]
    /\ op' = [op EXCEPT ![c] = call]
    /\ todo' = [todo EXCEPT ![c] = Loads[call]]
    /\ held' = [held EXCEPT ![c] = version]
    /\ UNCHANGED <<api, cache, ghosts>>

\* Can, RecordUsage and GetUsageSummary, as far as they load definitions.
StartLoads(c) == \E call \in {"can", "record", "summary"} : Begin(c, call, "peek", None)

\* GetUser: with a user in the context, which may be of any age, the cache is
\* asked, otherwise the API.
StartUser(c) ==
    \/ \E seen \in 1..api : Begin(c, "user", "peek", New(seen))
    \/ Begin(c, "user", "fetch", None)

\* Tenant.InvalidateWorkspace.
StartDrop(c) == Begin(c, "drop", "drop", None)

Fault == faults < MaxFaults /\ faults' = faults + 1

Go(c, where) ==
    /\ pc' = [pc EXCEPT ![c] = where]
    /\ UNCHANGED <<op, todo, held>>

Carry(c, where, version) ==
    /\ pc' = [pc EXCEPT ![c] = where]
    /\ held' = [held EXCEPT ![c] = version]
    /\ UNCHANGED <<op, todo>>

Return(c) ==
    /\ pc' = [pc EXCEPT ![c] = "idle"]
    /\ op' = [op EXCEPT ![c] = "none"]
    /\ todo' = [todo EXCEPT ![c] = <<>>]
    /\ held' = [held EXCEPT ![c] = None]

\* A call ends with its last load, Can and RecordUsage without a feature, and a
\* summary without a list.
Ends(c, success) ==
    \/ Len(todo[c]) = 1
    \/ ~success /\ At(c) = "feature" /\ op[c] # "row"
    \/ ~success /\ At(c) = "boosts" /\ op[c] = "summary"

\* The lists of a summary may name no feature: it has no rows to load for.
NoRows(c) == Len(todo[c]) = 4

\* The load of one kind ends.  If it failed, the call goes on with an empty list.
Loaded(c, success) ==
    \/ (Ends(c, success) \/ NoRows(c)) /\ Return(c)
    \/ /\ ~Ends(c, success)
       /\ pc' = [pc EXCEPT ![c] = "peek"]
       /\ op' = [op EXCEPT ![c] = IF @ = "summary" /\ success THEN "row" ELSE @]
       /\ todo' = [todo EXCEPT ![c] = Tail(@)]
       /\ held' = [held EXCEPT ![c] = None]

-------------------------------------------------------------------------------
(* GetPackages, GetBoosts, GetFeature, GetUser *)

Peek(c) ==
    /\ pc[c] = "peek"
    /\ lock = Free
    /\ LET e == memory[At(c)] IN
          \/ e = None /\ Go(c, "read")
          \/ e # None /\ ~Live(e) /\ Go(c, "evict")
          \/ Live(e) /\ Loaded(c, TRUE)
    /\ UNCHANGED <<api, cache, faults, floor>>

Evict(c) ==
    /\ pc[c] = "evict"
    /\ lock = Free
    /\ memory' = [memory EXCEPT ![At(c)] = None]
    /\ Go(c, "read")
    /\ UNCHANGED <<api, stored, lock, ghosts>>

\* A miss: the user of the context is cached, anything else is asked for.
ReadStored(c) ==
    /\ pc[c] = "read"
    /\ LET e == stored[At(c)] IN
          \/ Live(e) /\ Carry(c, "warm", [seen |-> e.seen, age |-> e.age]) /\ UNCHANGED faults
          \/ /\ \/ ~Live(e) /\ UNCHANGED faults
                \/ Fault
             /\ Go(c, IF At(c) = "user" THEN "set" ELSE "fetch")
    /\ UNCHANGED <<api, cache, floor>>

\* Mutant of Warm: the copy in the store starts a new lifetime too.
WarmPersists(c) ==
    /\ pc[c] = "warm"
    /\ lock = Free
    /\ memory' = [memory EXCEPT ![At(c)] = Fresh(held[c])]
    /\ stored' = [stored EXCEPT ![At(c)] = Fresh(held[c])]
    /\ Loaded(c, TRUE)
    /\ UNCHANGED <<api, lock, faults, floor>>

Warm(c) ==
    /\ pc[c] = "warm"
    /\ lock = Free
    /\ memory' = [memory EXCEPT ![At(c)] = Fresh(held[c])]
    /\ Loaded(c, TRUE)
    /\ UNCHANGED <<api, stored, lock, faults, floor>>

-------------------------------------------------------------------------------
(* loadFeature, loadPackages, loadBoosts and GetUser past a miss *)

Fetch(c) ==
    /\ pc[c] = "fetch"
    /\ Carry(c, "set", New(api)) \/ Loaded(c, FALSE)
    /\ UNCHANGED <<api, cache, ghosts>>

\* Mutant of Set: the lock is let go before the store is reached.
SetUnlocks(c) ==
    /\ pc[c] = "set"
    /\ lock = Free
    /\ memory' = [memory EXCEPT ![At(c)] = Fresh(held[c])]
    /\ Go(c, "persist")
    /\ UNCHANGED <<api, stored, lock, ghosts>>

\* SetPackages and its like: lock, write memory ...
Set(c) ==
    /\ pc[c] = "set"
    /\ lock = Free
    /\ lock' = c
    /\ memory' = [memory EXCEPT ![At(c)] = Fresh(held[c])]
    /\ Go(c, "persist")
    /\ UNCHANGED <<api, stored, ghosts>>

\* ... write the store, unlock.  A store error is a failed load, though memory
\* has the answer.
Persist(c) ==
    /\ pc[c] = "persist"
    /\ lock' = Free
    /\ \/ /\ stored' = [stored EXCEPT ![At(c)] = Fresh(held[c])]
          /\ Loaded(c, TRUE)
          /\ UNCHANGED faults
       \/ /\ Fault
          /\ Loaded(c, FALSE)
          /\ UNCHANGED stored
    /\ UNCHANGED <<api, memory, floor>>

-------------------------------------------------------------------------------
(* Tenant.InvalidateWorkspace: the entitlement service's call of the cache's *)
(* InvalidateWorkspace, whose error goes nowhere, then the Tenant's own      *)

\* Lock, delete the lists from memory.  The other groups of the workspace may
\* fail to go.
Drop(c) ==
    /\ pc[c] \in {"drop", "dropAgain"}
    /\ lock = Free
    /\ lock' = c
    /\ memory' = [k \in Kind |-> IF k \in Lists THEN None ELSE memory[k]]
    /\ \/ Go(c, IF pc[c] = "drop" THEN "clear" ELSE "clearAgain") /\ UNCHANGED faults
       \/ Fault /\ Go(c, IF pc[c] = "drop" THEN "clear" ELSE "clearFailed")
    /\ UNCHANGED <<api, stored, floor>>

Clearing == {"clear", "clearAgain", "clearFailed"}

\* Mutant of Clear: the error of a deletion is not kept.
ClearForgetsError(c) ==
    /\ pc[c] \in Clearing
    /\ todo[c] # <<>>
    /\ todo' = [todo EXCEPT ![c] = Tail(@)]
    /\ \/ stored' = [stored EXCEPT ![At(c)] = None] /\ UNCHANGED faults
       \/ Fault /\ UNCHANGED stored
    /\ UNCHANGED <<api, memory, lock, pc, op, held, floor>>

\* Then one list after the other from the store.  An error stops nothing.
Clear(c) ==
    /\ pc[c] \in Clearing
    /\ todo[c] # <<>>
    /\ todo' = [todo EXCEPT ![c] = Tail(@)]
    /\ \/ /\ stored' = [stored EXCEPT ![At(c)] = None]
          /\ UNCHANGED <<pc, faults>>
       \/ /\ Fault
          /\ pc' = [pc EXCEPT ![c] = IF @ = "clear" THEN "clear" ELSE "clearFailed"]
          /\ UNCHANGED stored
    /\ UNCHANGED <<api, memory, lock, op, held, floor>>

Undisturbed(c) == \A d \in Caller \ {c} : pc[d] = "idle"

\* Unlock; the second call reports.
Cleared(c) ==
    /\ pc[c] \in Clearing
    /\ todo[c] = <<>>
    /\ lock' = Free
    /\ IF pc[c] = "clear"
       THEN /\ pc' = [pc EXCEPT ![c] = "dropAgain"]
            /\ todo' = [todo EXCEPT ![c] = Loads["drop"]]
            /\ UNCHANGED <<op, held>>
       ELSE Return(c)
    /\ floor' = IF pc[c] = "clearAgain" /\ Undisturbed(c) THEN api ELSE floor
    /\ UNCHANGED <<api, memory, stored, faults>>

-------------------------------------------------------------------------------
(* What happens around the process *)

Change ==
    /\ api < MaxVersion
    /\ api' = api + 1
    /\ UNCHANGED <<cache, pc, op, todo, held, ghosts>>

Older(age) == IF age < MaxAge THEN age + 1 ELSE age

Aged(e) ==
    IF e = None THEN None
    ELSE [e EXCEPT !.age = Older(@), !.left = IF @ >= 0 THEN @ - 1 ELSE @]

\* go-store answers an expired entry like an absent one.
AgedInStore(e) == IF Live(Aged(e)) THEN Aged(e) ELSE None

Tick ==
    /\ Prompt => \A c \in Caller : pc[c] \in {"idle", "fetch"}
    /\ memory' = [k \in Kind |-> Aged(memory[k])]
    /\ stored' = [k \in Kind |-> AgedInStore(stored[k])]
    /\ held' = [c \in Caller |->
                  IF held[c] = None THEN None ELSE [held[c] EXCEPT !.age = Older(@)]]
    /\ UNCHANGED <<api, lock, pc, op, todo, ghosts>>

Restart ==
    /\ Fault
    /\ memory' = [k \in Kind |-> None]
    /\ lock' = Free
    /\ pc' = [c \in Caller |-> "idle"]
    /\ op' = [c \in Caller |-> "none"]
    /\ todo' = [c \in Caller |-> <<>>]
    /\ held' = [c \in Caller |-> None]
    /\ UNCHANGED <<api, stored, floor>>

-------------------------------------------------------------------------------
Starts(c) == StartLoads(c) \/ StartUser(c) \/ StartDrop(c)

Steps(c) ==
    \/ Peek(c) \/ Evict(c) \/ ReadStored(c) \/ Warm(c) \/ Fetch(c) \/ Set(c)
    \/ Persist(c) \/ Drop(c) \/ Clear(c) \/ Cleared(c)

Next ==
    \/ \E c \in Caller : Starts(c) \/ Steps(c)
    \/ Change \/ Tick \/ Restart

Spec == Init /\ [][Next]_vars

-------------------------------------------------------------------------------
(* Properties *)

Location == {"idle", "peek", "evict", "read", "warm", "fetch", "set", "persist",
             "drop", "clear", "dropAgain", "clearAgain", "clearFailed"}

\* The lock is with the caller between the steps of a locked section, and with
\* nobody else: each of its paths, those of store errors included, unlocks.
Exclusive == \A c \in Caller : lock = c <=> pc[c] \in Clearing \cup {"persist"}

Typed ==
    /\ api \in Nat \ {0}
    /\ memory \in [Kind -> Entry \cup {None}]
    /\ stored \in [Kind -> Entry \cup {None}]
    /\ lock \in Caller \cup {Free}
    /\ pc \in [Caller -> Location]
    /\ op \in [Caller -> DOMAIN Loads \cup {"row", "none"}]
    /\ todo \in [Caller -> Seq(Kind)]
    /\ held \in [Caller -> Version \cup {None}]
    /\ faults \in Nat
    /\ floor \in Nat

\* The values the variables take, and who may hold the lock.
TypeOK == Typed /\ Exclusive

\* Once InvalidateWorkspace has reported success, undisturbed, no package or
\* boost list from before it is in memory, in the store or in a caller's hands,
\* whatever failed in its first half and whichever crash follows: both groups
\* went, or the error was kept (InvalidateWorkspace, cache.go:457-479).
ListsAfterDrop ==
    \A k \in Lists :
        /\ memory[k] # None => memory[k].seen >= floor
        /\ stored[k] # None => stored[k].seen >= floor
        /\ \A c \in Caller : held[c] # None /\ At(c) = k => held[c].seen >= floor

\* Nothing a getter serves is older than two lifetimes, for whichever mixture of
\* store reads, failures and restarts: the only bound there is on a feature and
\* a user, which no call drops (GetFeature, GetUser).
NoneServedTooOld ==
    Prompt => \A k \in Kind : Live(memory[k]) => memory[k].age <= 2 * TTL
================================================================================
