---------------------------- MODULE WorkspaceCache ----------------------------
(***************************************************************************)
(* Workspace records in TenantCache (cache.go): the record under its UUID, *)
(* the names (integer ID and slug) that point to the UUID, in memory and   *)
(* in the go-store behind it, and the Tenant methods (tenant.go) that      *)
(* resolve a workspace through them or drop it.  Only the PHP API renames  *)
(* workspaces.  SetWorkspace and InvalidateWorkspace hold the lock for     *)
(* their whole length, but the store is read without it, so each store     *)
(* call is a step; memory changes in the step of the store call next to    *)
(* it.  Without a store the cache behaves as with one whose reads fail.    *)
(***************************************************************************)
EXTENDS Integers, Sequences, FiniteSets

CONSTANTS
    Caller,        \* goroutines
    UUID,          \* workspaces
    Numbered,      \* those whose record has an ID other than 0
    Slug,          \* slugs; every record has one
    TTL,           \* TTLWorkspace in clock ticks
    MaxVersion,    \* bound: names a workspace goes through
    MaxFaults,     \* bound: store calls that fail, and crashes
    None,          \* no entry, no name, no call
    Free           \* the lock when nobody holds it

Id(u) == <<"id", u>>
Ids == {Id(u) : u \in Numbered}
Name == Slug \cup Ids

\* A record is a version of its workspace: the API's history has its slug.
Pointer == [uuid: UUID, seen: Nat, left: -1..TTL]
Entry == [seen: Nat, left: -1..TTL]
Record == [uuid: UUID, seen: Nat, from: {"name", "store", "api"}]
Call == [op: {"uuid", "invalidate"}, of: UUID] \cup [op: {"name", "host", "domain"}, of: Name]

ASSUME NumberedAssumption == Numbered \subseteq UUID
ASSUME NameAssumption == \A u \in UUID : Id(u) \notin Slug
ASSUME TTLAssumption == TTL \in Nat \ {0}
ASSUME BoundAssumption == MaxVersion \in Nat /\ MaxFaults \in Nat
ASSUME NoneAssumption == None \notin Entry \cup Pointer \cup Record \cup Call \cup UUID
ASSUME FreeAssumption == Free \notin Caller

VARIABLES
    api,     \* the slugs each workspace has had, the last one current
    memory,  \* TenantCache.workspacesByUUID
    names,   \* TenantCache.workspaceIDs and workspaceSlugs
    stored,  \* the groups ws:<uuid>:record
    lookup,  \* the groups ws:id:<id> and ws:slug:<slug>
    lock,    \* who holds TenantCache.lock for writing
    pc,      \* where each caller is
    call,    \* the call each caller runs
    held,    \* the UUID or record each caller carries in a local variable
    faults,  \* ghost: the store calls that failed and the crashes so far
    floor    \* ghost: the API version at the last drop that succeeded undisturbed

vars == <<api, memory, names, stored, lookup, lock, pc, call, held, faults, floor>>
cache == <<memory, names, stored, lookup, lock, faults>>

Location == {"idle", "name", "readName", "peek", "evict", "read", "fetch", "set",
             "nameId", "nameSlug", "persist", "drop", "unname", "dropAgain",
             "unnameAgain", "unnameFailed"}

\* In the middle of SetWorkspace, of InvalidateWorkspace.
Naming == {"nameId", "nameSlug", "persist"}
Unnaming == {"unname", "unnameAgain", "unnameFailed"}

Version(u) == Len(api[u])
SlugOf(u) == api[u][Version(u)]
Live(e) == e # None /\ e.left >= 0
Current(u) == [uuid |-> u, seen |-> Version(u), from |-> "api"]

\* What the record of version n says the workspace is called.
Carries(u, n, a) == a = Id(u) \/ a = api[u][n]

Init ==
    /\ \E first \in [UUID -> Slug] :
          /\ \A u, v \in UUID : first[u] = first[v] => u = v
          /\ api = [u \in UUID |-> <<first[u]>>]
    /\ memory = [u \in UUID |-> None]
    /\ names = [a \in Name |-> None]
    /\ stored = [u \in UUID |-> None]
    /\ lookup = [a \in Name |-> None]
    /\ lock = Free
    /\ pc = [c \in Caller |-> "idle"]
    /\ call = [c \in Caller |-> None]
    /\ held = [c \in Caller |-> None]
    /\ faults = 0
    /\ floor = [u \in UUID |-> 0]

-------------------------------------------------------------------------------
(* Calls begin and end *)

Begin(c, op, of, uuid, first) ==
    /\ pc[c] = "idle"
    /\ call' = [call EXCEPT ![c] = [op |-> op, of |-> of]]
    /\ held' = [held EXCEPT ![c] = uuid]
    /\ pc' = [pc EXCEPT ![c] = first]
    /\ UNCHANGED <<api, cache, floor>>

Named(u) == [uuid |-> u, seen |-> 0, from |-> "name"]

StartByUUID(c) == \E u \in UUID : Begin(c, "uuid", u, Named(u), "peek")
StartByName(c) == \E a \in Name : Begin(c, "name", a, None, "name")

\* A host name is looked up by the slug in it, or if it has none as a domain.
StartByHost(c) ==
    \E s \in Slug : Begin(c, "host", s, None, "name") \/ Begin(c, "domain", s, None, "fetch")

StartInvalidate(c) == \E u \in UUID : Begin(c, "invalidate", u, Named(u), "drop")

\* A store call returns an error, or the process crashes.
Fault == faults < MaxFaults /\ faults' = faults + 1

\* A caller moves on within its call, with what it carries, or returns.
Go(c, where) ==
    /\ pc' = [pc EXCEPT ![c] = where]
    /\ UNCHANGED <<call, held>>

Carry(c, where, record) ==
    /\ pc' = [pc EXCEPT ![c] = where]
    /\ held' = [held EXCEPT ![c] = record]
    /\ UNCHANGED call

Return(c) ==
    /\ pc' = [pc EXCEPT ![c] = "idle"]
    /\ call' = [call EXCEPT ![c] = None]
    /\ held' = [held EXCEPT ![c] = None]

\* A lookup that failed: by host, it starts over with the host query.
Fail(c) ==
    IF call[c].op = "host"
    THEN /\ pc' = [pc EXCEPT ![c] = "fetch"]
         /\ call' = [call EXCEPT ![c].op = "domain"]
         /\ held' = [held EXCEPT ![c] = None]
    ELSE Return(c)

-------------------------------------------------------------------------------
(* GetWorkspaceByID and GetWorkspaceBySlug, up to the UUID *)

\* The read-locked look at the map of names; names in memory do not expire.
LookUp(c) ==
    /\ pc[c] = "name"
    /\ lock = Free
    /\ LET u == names[call[c].of] IN
          IF u = None THEN Go(c, "readName") ELSE Carry(c, "peek", Named(u))
    /\ UNCHANGED <<api, cache, floor>>

\* The store is read with no lock held; a failing store is a miss.
ReadName(c) ==
    /\ pc[c] = "readName"
    /\ LET p == lookup[call[c].of] IN
          \/ Live(p) /\ Carry(c, "peek", Named(p.uuid)) /\ UNCHANGED faults
          \/ ~Live(p) /\ Go(c, "fetch") /\ UNCHANGED faults
          \/ Fault /\ Go(c, "fetch")
    /\ UNCHANGED <<api, memory, names, stored, lookup, lock, floor>>

-------------------------------------------------------------------------------
(* GetWorkspace *)

Peek(c) ==
    /\ pc[c] = "peek"
    /\ lock = Free
    /\ LET e == memory[held[c].uuid] IN
          \/ e = None /\ Go(c, "read")
          \/ e # None /\ ~Live(e) /\ Go(c, "evict")
          \/ Live(e) /\ Return(c)
    /\ UNCHANGED <<api, cache, floor>>

Evict(c) ==
    /\ pc[c] = "evict"
    /\ lock = Free
    /\ memory' = [memory EXCEPT ![held[c].uuid] = None]
    /\ Go(c, "read")
    /\ UNCHANGED <<api, names, stored, lookup, lock, faults, floor>>

\* What the store has is put back through SetWorkspace.
ReadStored(c) ==
    /\ pc[c] = "read"
    /\ LET u == held[c].uuid
           e == stored[u]
       IN \/ /\ Live(e)
             /\ Carry(c, "set", [uuid |-> u, seen |-> e.seen, from |-> "store"])
             /\ UNCHANGED faults
          \/ ~Live(e) /\ Carry(c, "fetch", None) /\ UNCHANGED faults
          \/ Fault /\ Carry(c, "fetch", None)
    /\ UNCHANGED <<api, memory, names, stored, lookup, lock, floor>>

\* The API answers with the workspace asked for, if there is one.  (The host
\* query asks for the slug again and then for the domain, which may be any
\* workspace's: one answer here.)
Fetch(c) ==
    /\ pc[c] = "fetch"
    /\ \/ \E u \in UUID :
             /\ \/ u = call[c].of \/ call[c].of \in {Id(u), SlugOf(u)}
                \/ call[c].op = "domain"
             /\ Carry(c, "set", Current(u))
       \/ Fail(c)
    /\ UNCHANGED <<api, cache, floor>>

-------------------------------------------------------------------------------
(* SetWorkspace: forget the old names, remember the record, name it, store it *)

\* Mutant of Known: the loop over the slugs is missing.
KnownIds(u) == {a \in Ids : names[a] = u}

\* The names memory has for a workspace, in the order the loops reach them.
Known(u) ==
    LET all == {a \in Name : names[a] = u}
    IN IF all \cap Ids # {} THEN all \cap Ids ELSE all

\* Every store error ends the call: GetWorkspace takes it for a miss, the
\* Tenant method for a failure.
Refuse(c) ==
    /\ lock' = Free
    /\ Fault
    /\ IF held[c].from = "store" THEN Carry(c, "fetch", None) ELSE Fail(c)

\* A name memory knows goes, first there, then in the store.
Forget(c) ==
    /\ pc[c] = "set"
    /\ lock \in {Free, c}
    /\ \E a \in Known(held[c].uuid) :
          /\ names' = [names EXCEPT ![a] = None]
          /\ \/ /\ lookup' = [lookup EXCEPT ![a] = None]
                /\ lock' = c
                /\ UNCHANGED <<pc, call, held, faults>>
             \/ /\ Refuse(c)
                /\ UNCHANGED lookup
    /\ UNCHANGED <<api, memory, stored, floor>>

\* Mutant of Remember: the lock is let go before the names are written.
RememberUnlocks(c) ==
    /\ pc[c] = "set"
    /\ lock \in {Free, c}
    /\ LET u == held[c].uuid IN
          /\ Known(u) = {}
          /\ memory' = [memory EXCEPT ![u] = [seen |-> held[c].seen, left |-> TTL]]
          /\ Go(c, IF u \in Numbered THEN "nameId" ELSE "nameSlug")
    /\ lock' = Free
    /\ UNCHANGED <<api, names, stored, lookup, faults, floor>>

\* No name is left: the record goes to memory.
Remember(c) ==
    /\ pc[c] = "set"
    /\ lock \in {Free, c}
    /\ LET u == held[c].uuid IN
          /\ Known(u) = {}
          /\ memory' = [memory EXCEPT ![u] = [seen |-> held[c].seen, left |-> TTL]]
          /\ Go(c, IF u \in Numbered THEN "nameId" ELSE "nameSlug")
    /\ lock' = c
    /\ UNCHANGED <<api, names, stored, lookup, faults, floor>>

\* A name is pointed to the record in memory, then in the store.
Point(c, a, next) ==
    /\ names' = [names EXCEPT ![a] = held[c].uuid]
    /\ \/ /\ lookup' = [lookup EXCEPT ![a] =
                          [uuid |-> held[c].uuid, seen |-> held[c].seen, left |-> TTL]]
          /\ Go(c, next)
          /\ UNCHANGED <<lock, faults>>
       \/ /\ Refuse(c)
          /\ UNCHANGED lookup
    /\ UNCHANGED <<api, memory, stored, floor>>

PointId(c) == pc[c] = "nameId" /\ Point(c, Id(held[c].uuid), "nameSlug")
PointSlug(c) ==
    pc[c] = "nameSlug" /\ Point(c, api[held[c].uuid][held[c].seen], "persist")

\* The record goes to the store last.
Persist(c) ==
    /\ pc[c] = "persist"
    /\ \/ /\ stored' = [stored EXCEPT ![held[c].uuid] =
                          [seen |-> held[c].seen, left |-> TTL]]
          /\ lock' = Free
          /\ Return(c)
          /\ UNCHANGED faults
       \/ /\ Refuse(c)
          /\ UNCHANGED stored
    /\ UNCHANGED <<api, memory, names, lookup, floor>>

-------------------------------------------------------------------------------
(* Tenant.InvalidateWorkspace: the entitlement service's call of the cache's *)
(* InvalidateWorkspace, whose error goes nowhere, then the Tenant's own      *)

\* Mutant of Drop: the error of the second call is dropped like the first one's.
DropQuietly(c) ==
    /\ pc[c] \in {"drop", "dropAgain"}
    /\ lock = Free
    /\ lock' = c
    /\ LET u == held[c].uuid
           gone == [stored EXCEPT ![u] = None]
       IN /\ memory' = [memory EXCEPT ![u] = None]
          /\ \/ /\ stored' = gone
                /\ UNCHANGED faults
             \/ /\ Fault
                /\ stored' \in {stored, gone}
          /\ Go(c, IF pc[c] = "drop" THEN "unname" ELSE "unnameAgain")
    /\ UNCHANGED <<api, names, lookup, floor>>

\* Lock, delete the record and the other entries.  Errors do not stop the call.
Drop(c) ==
    /\ pc[c] \in {"drop", "dropAgain"}
    /\ lock = Free
    /\ lock' = c
    /\ LET u == held[c].uuid
           gone == [stored EXCEPT ![u] = None]
       IN /\ memory' = [memory EXCEPT ![u] = None]
          /\ \/ /\ stored' = gone
                /\ Go(c, IF pc[c] = "drop" THEN "unname" ELSE "unnameAgain")
                /\ UNCHANGED faults
             \/ /\ Fault
                /\ stored' \in {stored, gone}
                /\ Go(c, IF pc[c] = "drop" THEN "unname" ELSE "unnameFailed")
    /\ UNCHANGED <<api, names, lookup, floor>>

\* Mutant of Unname: the name stays in the store.
UnnameMemory(c) ==
    /\ pc[c] \in Unnaming
    /\ \E a \in Known(held[c].uuid) : names' = [names EXCEPT ![a] = None]
    /\ UNCHANGED <<api, memory, stored, lookup, lock, pc, call, held, faults, floor>>

\* Then the names memory knows, each first there, then in the store.
Unname(c) ==
    /\ pc[c] \in Unnaming
    /\ \E a \in Known(held[c].uuid) :
          /\ names' = [names EXCEPT ![a] = None]
          /\ \/ /\ lookup' = [lookup EXCEPT ![a] = None]
                /\ UNCHANGED <<pc, call, held, faults>>
             \/ /\ Fault
                /\ Go(c, IF pc[c] = "unname" THEN "unname" ELSE "unnameFailed")
                /\ UNCHANGED lookup
    /\ UNCHANGED <<api, memory, stored, lock, floor>>

Undisturbed(c) == \A d \in Caller \ {c} : pc[d] = "idle"

\* No name is left: unlock.  The second call reports; when it succeeds and
\* nobody else is in the middle of a call, nothing of before is left to read.
Dropped(c) ==
    /\ pc[c] \in Unnaming
    /\ Known(held[c].uuid) = {}
    /\ lock' = Free
    /\ IF pc[c] = "unname" THEN Go(c, "dropAgain") ELSE Return(c)
    /\ floor' = IF pc[c] = "unnameAgain" /\ Undisturbed(c)
                THEN [floor EXCEPT ![held[c].uuid] = Version(held[c].uuid)]
                ELSE floor
    /\ UNCHANGED <<api, memory, names, stored, lookup, faults>>

-------------------------------------------------------------------------------
(* What happens around the process *)

\* A workspace takes a slug nobody has: another one may have had it before.
Rename ==
    /\ \E u \in UUID, s \in Slug :
          /\ Version(u) < MaxVersion
          /\ \A v \in UUID : SlugOf(v) # s
          /\ api' = [api EXCEPT ![u] = Append(@, s)]
    /\ UNCHANGED <<cache, pc, call, held, floor>>

Aged(e) == IF Live(e) THEN [e EXCEPT !.left = @ - 1] ELSE e

\* go-store answers an expired entry like an absent one.
AgedInStore(e) == IF Live(Aged(e)) THEN Aged(e) ELSE None

Tick ==
    /\ memory' = [u \in UUID |-> Aged(memory[u])]
    /\ stored' = [u \in UUID |-> AgedInStore(stored[u])]
    /\ lookup' = [a \in Name |-> AgedInStore(lookup[a])]
    /\ UNCHANGED <<api, names, lock, pc, call, held, faults, floor>>

\* Memory is gone and every call with it; the store and the API stay.
Restart ==
    /\ Fault
    /\ memory' = [u \in UUID |-> None]
    /\ names' = [a \in Name |-> None]
    /\ lock' = Free
    /\ pc' = [c \in Caller |-> "idle"]
    /\ call' = [c \in Caller |-> None]
    /\ held' = [c \in Caller |-> None]
    /\ UNCHANGED <<api, stored, lookup, floor>>

-------------------------------------------------------------------------------
Starts(c) ==
    StartByUUID(c) \/ StartByName(c) \/ StartByHost(c) \/ StartInvalidate(c)

Steps(c) ==
    \/ LookUp(c) \/ ReadName(c) \/ Peek(c) \/ Evict(c) \/ ReadStored(c) \/ Fetch(c)
    \/ Forget(c) \/ Remember(c) \/ PointId(c) \/ PointSlug(c) \/ Persist(c)
    \/ Drop(c) \/ Unname(c) \/ Dropped(c)

Next ==
    \/ \E c \in Caller : Starts(c) \/ Steps(c)
    \/ Rename \/ Tick \/ Restart

Spec == Init /\ [][Next]_vars

-------------------------------------------------------------------------------
(* Properties *)

\* The lock is with the caller in a locked section (which SetWorkspace enters
\* at "set", with the first thing it does there), and with nobody else: each of
\* its paths, those of store errors included, unlocks.
Exclusive ==
    \A c \in Caller :
        /\ pc[c] \in Naming \cup Unnaming => lock = c
        /\ lock = c => pc[c] \in Naming \cup Unnaming \cup {"set"}

Typed ==
    /\ api \in [UUID -> Seq(Slug)]
    /\ \A u \in UUID : Version(u) > 0
    /\ memory \in [UUID -> Entry \cup {None}]
    /\ names \in [Name -> UUID \cup {None}]
    /\ stored \in [UUID -> Entry \cup {None}]
    /\ lookup \in [Name -> Pointer \cup {None}]
    /\ lock \in Caller \cup {Free}
    /\ pc \in [Caller -> Location]
    /\ call \in [Caller -> Call \cup {None}]
    /\ held \in [Caller -> Record \cup {None}]
    /\ faults \in Nat
    /\ floor \in [UUID -> Nat]

\* The values the variables take, and who may hold the lock.
TypeOK == Typed /\ Exclusive

\* A name in memory leads to a record that carries it: a request for one tenant
\* is never answered from memory with a workspace of another name, though
\* slugs move between workspaces and SetWorkspace may stop at any store error.
NamesAgree ==
    \A a \in Name :
        LET u == names[a]
        IN u # None /\ memory[u] # None => Carries(u, memory[u].seen, a)

\* Once Tenant.InvalidateWorkspace has succeeded with no other call under way,
\* no record from before it can be served again, from memory or from the store,
\* whatever failed or crashed earlier.
DroppedStaysGone ==
    \A u \in UUID : \A e \in {memory[u], stored[u]} : e # None => e.seen >= floor[u]

\* And no name it had then leads to it any more ("drops all cache entries for
\* this workspace UUID", cache.go:454).
NothingLeftBehind ==
    \A a \in Name : Live(lookup[a]) => lookup[a].seen >= floor[lookup[a].uuid]

\* Which holds as long as no write to the store fails and the process runs:
\* memory then knows every name the store has.
NamesDropped == faults = 0 => NothingLeftBehind
===============================================================================
