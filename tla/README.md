# Verification of go-tenant

TLA+ models, TLC runs and TLAPS proofs for package `tenant` (`src/go`), the Go
client side of a multi-tenant PHP application: workspaces, their packages and
boosts, usage counters, and the checks and alerts built on them.

## 1. The system

| Part | State | Operations | Talks to |
|---|---|---|---|
| `TenantCache` (cache.go) | maps in memory under one `sync.RWMutex`: workspace records, their id and slug aliases, packages, boosts, usage counts, features, users; each entry with an expiry; behind them an optional go-store with TTLs of its own | `Set…`/`Get…` per kind, `invalidateUsage`, `InvalidateWorkspace` | go-store |
| `localEntitlementService` (entitlement.go) | none | `Can`, `RecordUsage`, `GetUsageSummary`, `InvalidateWorkspace`, the `load…` functions (cache, else API, then cache the answer) | cache, client |
| cascade (entitlement.go, package.go, boost.go, feature.go) | none | `packageLimitForFeature`, the boost loops of `Can` and `summaryForFeature`, `IsUsable`, `Remaining` | |
| `Tenant` (tenant.go, alert.go) | alert state per workspace and feature, list of handlers, both under `Tenant.lock` | `GetWorkspace…`, `GetUser`, `Can`, `RecordUsage`, `CheckUsageAlerts`, `OnUsageAlert`, `InvalidateWorkspace` | service, cache, client, handlers |
| `WorkspaceScope` (scope.go) | strict flag | `Middleware`, `RequireWorkspace`, `ScopeFunc` | `Tenant` |
| `TenantClient` (client.go) | lazily built `http.Client` | one GET or POST per method, answers or fails within a timeout | PHP API |
| contexts, tiers, records, errors, registration | none | value helpers, start-up wiring | |

Interaction. A request goes to `Tenant`, from there to the entitlement service,
which asks the cache and, on a miss, the client; the answer is written to the
cache. `RecordUsage` POSTs to the API, then drops the cached count; `Tenant`
then calls `Can` with quantity 0 and compares the share of the limit with the
alert state. Everything is called from many goroutines at once. The API's
counter also moves without us: other consumers, billing cycles.

What is hard about it:

- *Unlocked stretches.* `GetUsage` looks under the read lock, deletes under the
  write lock, reads the store under none, writes under the write lock again.
  `loadUsage` puts a network call between the miss and the write. `RecordUsage`
  in `Tenant` reads a count and compares it later, under another lock.
- *Two copies.* Memory and store are written one after the other, either may
  fail, and memory is lost at a restart while the store is not.
- *Failures taken for values.* A count that cannot be loaded is 0, a list that
  cannot be loaded is empty.
- *Two clocks.* An entry in memory and its copy in the store expire separately.
- *Names under way.* One request asks the cache, a slug and a domain one after
  the other while names pass between workspaces; an answer may be a record, an
  error in either of two shapes, or neither.

What makes each part correct: the cache serves only counts the API had for that
very workspace and pool, not older than a bound, and not from before a drop that
reported success; records do not overwrite each other; calls return and the
cache converges; each alert is raised once per cycle, none is missed, and
handlers hear them in order; `Can` follows the documented cascade, agrees with
the dashboard, and fails closed but for the count; package and boost lists do not survive a drop,
and what is never dropped is at most two lifetimes old; a request is served as
the workspace its first source names, or not at all.

## 2. Modules

| Module | Models |
|---|---|
| `UsageCache` | usage counters in `TenantCache`, and `loadUsage`, `RecordUsage`, `InvalidateWorkspace` of the entitlement service on them, with clock, store failures, crashes and the API's counter |
| `ApiCopies` | what a cache of the API's counts promises, without locks, maps and stores; `UsageCache` implements it |
| `UsageCacheProofs` | theorems about `UsageCache` |
| `UsageCopiesProofs` | the proof that `UsageCache` implements `ApiCopies` |
| `WorkspaceCache` | workspace records and the names that lead to them in `TenantCache`, and the `Tenant` methods that resolve or drop a workspace |
| `MCWorkspaceCache` | symmetry of callers and of slugs for TLC |
| `WorkspaceCacheProofs` | theorems about `WorkspaceCache` |
| `EntryCache` | packages, boosts, features and users in `TenantCache`, the load functions of the entitlement service and `GetUser` around them, and the part of `InvalidateWorkspace` that drops the lists |
| `EntryCacheProofs` | theorems about `EntryCache` |
| `TenantClient` | what the client makes of an HTTP exchange, as operators on JSON values |
| `WorkspaceScope` | one request through the middleware, the `Tenant`'s resolution, the client and the handler behind them |
| `MCWorkspaceScope` | two workspaces and every body an answer can have, for TLC |
| `WorkspaceScopeProofs` | theorems about `WorkspaceScope` |
| `UsageAlerts` | `Tenant.RecordUsage`, `CheckUsageAlerts`, `OnUsageAlert`, the alert state in `InvalidateWorkspace` |
| `UsageAlertsProofs` | theorems about `UsageAlerts` |
| `EntitlementCascade` | the arithmetic of `Can` and `summaryForFeature` as operators |
| `EntitlementCheck` | one check and one summary row on top of loads that may fail; the documented cascade as reference |
| `MCEntitlementCheck` | the packages and boosts TLC puts small workspaces together from |
| `EntitlementCheckProofs` | theorems about `EntitlementCheck` and the operators of `EntitlementCascade` |
| `LoopLemmas` | left folds over lists and sums over sets: what a loop leaves and what terms add up to, for any number of turns |

`TypeOK` is in every module the invariant of its variables: their types and what
always goes with what. In the three cache modules it also says who has the lock:
a caller has it exactly between the halves of a locked section, so no other
caller is in one.

`PROJECT.json` maps every definition to the lines it stands for. Definitions
that carry the remark "Mutant of …" or "mutant: …" are plausible bugs; each
property is shown to be broken by one.

### UsageCache

A goroutine is a `pc`; a step is what runs between two points where someone else
can come in.

| Action | Code |
|---|---|
| `StartCan`, `StartRecord`, `StartInvalidate` | entry of a call; `RecordUsage` goes to the POST with a client, to `GetUsage` without |
| `Peek`, `Evict`, `ReadStore`, `Warm` | the four stretches of `GetUsage` |
| `Hit`, `Miss` | what `loadUsage` and the cache-only `RecordUsage` do with the answer |
| `FetchAnswered`, `FetchFailed` | `GetCurrentUsage` |
| `SetUsage`, `PersistUsage` | the two writes of `SetUsage`, the lock held in between |
| `PostApplied`, `PostFailed` | `client.RecordUsage`; an applied POST may still be reported as failed |
| `DropUsage`, `DropStored` | the two halves of `invalidateUsage` |
| `ClearStored`, `ClearMemory` | the usage part of `InvalidateWorkspace`: store first, then memory |
| `ExternalUse`, `Reset`, `Tick`, `Restart` | the world |

Why a locked section is two steps when it touches the store: `GetUsage` reads
the store without the lock, so the state in between is visible. Memory under
the lock is not, hence the look at the map and the expiry test after it are one
step. Ghosts: `seen` is the version of the API's counter a count was read from,
`age` the ticks since, `floor` the version at the last drop that reported
success. `Prompt` says that local steps take no time compared with a tick
(60 s / TTL): the clock moves only while everyone is idle or on the wire. Only
the bounds on age need it; the age of an answer counts from when the API
produced it. A failed store call is taken as one that changed nothing.

`ImplementsCopies` maps this to `ApiCopies`. `Served(k)` is what a read may
answer with: the live entries of memory and store, without their remaining life.
`InFlight(k)` is what callers hold in local variables. Then

| `ApiCopies` | `UsageCache` |
|---|---|
| `Change` | `PostApplied`, `ExternalUse`, `Reset` |
| `Learn` | `FetchAnswered` |
| `Lift` | `ReadStore` of a live entry |
| `Land` | `Warm`, `SetUsage`, `PersistUsage` |
| `Drop` | the step that reports the end of `invalidateUsage` or of `InvalidateWorkspace` |
| `Forget` | evictions, halves of drops, failed writes, `Restart` |
| `Age` | `Tick` |

and every other step is a stutter. The clause of `Drop` says what a caller may
rely on after an invalidation and what not: nothing is left to serve, but a copy
some other call has in its hands may land afterwards.

### WorkspaceCache

A record is a version of its workspace: `api` has the slugs each workspace has
had, so version and slug of a record are one number. A name is an id or a slug.

| Action | Code |
|---|---|
| `StartByUUID`, `StartByName`, `StartByHost`, `StartInvalidate` | entry of the `Tenant` methods |
| `LookUp`, `ReadName` | the two halves of `GetWorkspaceByID` and `GetWorkspaceBySlug`: map under the read lock, then store under none |
| `Peek`, `Evict`, `ReadStored` | the three stretches of `GetWorkspace` |
| `Fetch`, `Fail` | the client's answer; a lookup by host that fails asks a second time, and then, or for a host without a slug, any workspace may answer for the domain |
| `Forget`, `Remember`, `PointId`, `PointSlug`, `Persist` | `SetWorkspace`, store call by store call, the lock held throughout |
| `Refuse` | a store error in `SetWorkspace`: `GetWorkspace` takes it for a miss, `Tenant` for a failure |
| `Drop`, `Unname`, `Dropped` | the cache's `InvalidateWorkspace`, which `Tenant` runs twice: through the entitlement service, whose error goes nowhere, and itself |
| `Rename`, `Tick`, `Restart` | the world |

The loops over the maps of ids and slugs take their names in any order, as Go's
maps do, all ids before all slugs (`Known`). A failed deletion of the other
groups (packages, boosts, usage) is one more way for `Drop` to fail. Ghosts:
`faults` counts store errors and crashes and is bounded by `MaxFaults`; `seen`
is the version a record or a stored name is from; `floor` the version at the
last `Tenant.InvalidateWorkspace` that succeeded while nobody else was in a
call. Without that condition a late answer brings a record back, as in
`usage_late_answer`. Left out: records without a slug, and the alert state that
the same `Tenant` method clears (in `UsageAlerts`).

### EntryCache

The four kinds share one pattern of code (`GetPackages`, `GetBoosts`,
`GetFeature`, `GetUser` and their setters), hence one set of actions with the
kind as a parameter. A call is a list of kinds to load (`Loads`); the first of
them is the one the caller is at.

| Action | Code |
|---|---|
| `StartLoads`, `StartUser`, `StartDrop` | entry of `Can`, `RecordUsage`, `GetUsageSummary`, of `GetUser` with and without a user in the context, and of `InvalidateWorkspace` |
| `Peek`, `Evict`, `ReadStored`, `Warm` | the four stretches of a getter |
| `Fetch` | `loadPackages`, `loadBoosts`, `loadFeature`, `GetUser` past a miss |
| `Set`, `Persist` | the two writes of a setter, the lock held in between |
| `Loaded` (part of `Peek`, `Warm`, `Fetch`, `Persist`) | how a call goes on after a load: an empty list where a list failed, the end where `Can` or `RecordUsage` have no feature (`Ends`), and where the lists of a summary name no code (`NoRows`) |
| `Drop`, `Clear`, `Cleared` | `InvalidateWorkspace`: memory, then the stored groups one by one with the first error kept; run twice, as for workspace records |
| `Change`, `Tick`, `Restart` | the world |

The content of the API is one version number; `seen`, `age`, `floor` and
`faults` are ghosts as in `UsageCache` and `WorkspaceCache`. A user in a context
may be of any age, so its age counts from when it is handed in. One workspace,
one feature and one user: entries of different keys do not meet.

### TenantClient, WorkspaceScope

`TenantClient` has JSON values as far as the decoders tell them apart, and the
decoders as operators: `request` and `statusError` turn an exchange into a body
or an error, `decodeEnvelope` a body into a record, `decodeCount` a body into a
count: `CountHere` for a body that decides itself, and a recursive function
around it, since counts may be nested in `data` (`Onward`).

`WorkspaceScope` follows one request at a time. A step is one lookup, and names
may move (`Move`) between any two.

| Action | Code |
|---|---|
| `Arrive` | entry of `Middleware` or `ScopeFunc`; `First` is the order of sources in `resolveWorkspace` |
| `ById`, `BySlug` | the two headers; `parseInt64` wraps around beyond `MaxId`, 2^63 - 1 in the code |
| `ByHost`, `ByHostAgain`, `ByDomain` | `Tenant.GetWorkspaceBySubdomain`: the cache and the API for the slug, then the client's own two queries, for the slug and for the domain |
| `ByQuery` | the last source, asked whatever became of the host |
| `Inject` | what the middleware, `RequireWorkspace` or `ScopeFunc` make of the result |
| `Handle`, `Reply` | a handler that asks for its workspace's count; the end of the request |

The cache answers a name with any workspace that has had it (ghost `had`), or
not at all: that is `NamesAgree` of `WorkspaceCache`, which is how the two
modules fit together. `trouble` records that something failed for another reason
than absence, `vacant` which names led nowhere at some moment of the request. The
API may also answer 200 with nothing of what was asked for (`Blanks`): a bare
`null`, or `data` that is null. What was read from such an answer carries the
ghost field `blank` (`Told`).
Left out: nil scopes and handlers, and contexts that already have a workspace.

### UsageAlerts

The features of one workspace that share a pool: one counter and one limit, and
alert state per feature (`alertStateKey` uses the feature, not the pool).
`Record` is the service's `RecordUsage`, `Observe` the `Can(…, 0)` after it,
`Check` the locked section of `CheckUsageAlerts`, `Deliver` one handler call
(return or recovered panic are alike), `Finish` the return. The ghost `cycle`
numbers the stretches between billing resets and limit changes; `raised` holds
the alerts of the current alert state, `heard` what each handler was called
with. The percentage is compared in exact arithmetic, which agrees with the
code's floats at 80, 90 and 100. A limit of 0 also stands for an unlimited pool:
`UsagePercent` is nil for both, and nothing is checked.

### EntitlementCascade, EntitlementCheck

Loops are left folds whose state is the local variables; an early return is a
flag that makes the rest of the fold a stutter. A package is what it says of the
pool asked for; a boost's code is `pool`, `feature` or `other`. Sums wrap around
beyond `MaxInt`, 2^63 - 1 in the code. The reference is written over sets of positions in unbounded
integers, following RFC.md section 6.1 with the stacking rule of
`packageLimitForFeature`'s comment (highest non-stackable plus the sum of the
stackable). The documents are not of one mind, and the reference takes sides:

- Stacking. RFC.md:482 says "summed when stackable", RFC.md:484 sums the limits
  of all active packages. The code and the reference follow the first; two
  packages that do not stack are worth the higher, not the sum.
- An entry without a limit, for a feature that is counted. package.go:8
  (RFC.md:229) has "nil for unlimited", package.go:24 "nil = boolean feature",
  and RFC.md:488 denies when the total is nil. The code lets the entry add
  nothing and measures against what the other packages and boosts give, or 0:
  under the first reading it denies what is unlimited. No side is taken:
  `CanFollowsCascade` claims nothing where a package has such an entry
  (`LimitsGiven`), while the other properties of the run include it.

What the theorems suppose of the data stands there too: `KnownBoosts`, `LimitsAreCounts`,
`CountsFit` and `SumsFit`. Not in the model:
the row the summary shows for a code whose feature cannot be loaded (it is
treated as a limit; `Can` denies).

## 3. Runs

Bounds are the CONSTANTS in each `.cfg`.

| Run | Shows |
|---|---|
| `usage_sequential` | one caller, two pools, store failures and crashes anywhere: types, truth, the bound on staleness, no return of dropped counts, and `ApiCopies` |
| `usage_eventually` | two callers, the clock moving inside calls: counts are true in every interleaving, calls return, the cache converges, and `ApiCopies` with late answers |
| `workspaces` | two callers, one workspace that changes its slug, store failures and a restart: names agree with records, what was dropped stays gone, names go with it |
| `entries` | one caller, every load and drop of lists, a feature and a user, two failed store calls or crashes anywhere: lists do not survive a drop, nothing served is older than two lifetimes |
| `scope` | every request with a header, host, query and kind of scope, two moves of names, every failure and blank answer of the API: served as the right workspace or refused, unless a blank answer passed for one; absence told from failure, counts of the right workspace |
| `alerts_sequential` | one goroutine, one feature, resets, invalidations: once per cycle and none missed |
| `alerts_delivery` | two deliverers, handlers registering, other consumers, limits that change, loads failing: order and completeness |
| `cascade` | all lists of up to two of nine packages and two of seven boosts, where the feature, the lists and the count may not load: the verdict the documents agree on, in any order, summary agrees, more never denies, nothing allowed but what the API's packages and boosts cover at the count `Can` went by |

Runs that find a disagreement with what the repository says (see `findings`):

| Run | Disagreement |
|---|---|
| `usage_late_answer` | a count fetched before a record is cached after its drop (entitlement.go:402 against entitlement.go:116) |
| `workspaces_left_behind` | after a restart an invalidation leaves the names in the store (cache.go:486 against cache.go:454) |
| `alerts_out_of_order` | counts compared in the other order re-arm the thresholds (tenant.go:397) |
| `scope_blank` | `{"ok":true,"data":null}` decodes to a workspace without a UUID, as client_internal_test.go:156 expects, and a strict scope, which is to refuse requests without a resolvable workspace (scope.go:37), runs the handler with it (client.go:145) |

The same modules show more under other constants; these are not runs of their
own, and each is one line away:

- A count that cannot be loaded is 0 (entitlement.go:173), so `Can` allows any
  quantity up to the whole limit although the pool may be exhausted, against "if
  used + quantity > total_limit → Deny" (RFC.md:490). `FailsClosed` speaks of the
  count `Can` went by for that reason: with `has` in place of
  `[has EXCEPT !.used = got.used]` it fails in the run `cascade`.
- `LoadMayFail = TRUE` in `AlertsSequential.cfg` violates `NewlyCrossed`: a
  failed load counts as 0 and re-arms the thresholds (entitlement.go:173).
- `Quantity = {1, 4}` there violates `NoMissedCrossing`: a first record as large
  as the last count seen hides the reset, and the thresholds stay silent
  (tenant.go:397).
- `HasClient = FALSE` with two callers: both take the same count in `Peek` and
  the second `SetUsage` overwrites the first. Cache-only records lose updates
  (entitlement.go:253).
- `Limits = {5, 10}` in `AlertsSequential.cfg` violates `NoMissedCrossing`: thresholds crossed again
  under a raised limit stay silent (tenant.go:402).
- `MaxInt = 3` in `Cascade.cfg`, without `FitAssumption` of `MCEntitlementCheck`,
  violates `CanFollowsCascade`: used+quantity wraps around (entitlement.go:223),
  as it does in 64 bits for a quantity near 2^63.
- A boost of a type the code does not know, added to `MCBoosts`, violates
  `SummaryAgrees`: `Can` adds it, the summary does not (entitlement.go:194).
- Without `~result.blank` in `HostBeatsQuery`, a blank answer for the host's slug
  ends the search although slug and domain lead somewhere, and without
  `~count.blank` in `CountsAreItsOwn`, a bare `null` is a count of 0
  (client.go:196).
- Without `Fits` in `ServedAsNamed`, X-Workspace-ID 9 is served as workspace 1:
  digits wrap around (scope.go:146).
- Without `~trouble` in `HostBeatsQuery`, a failed lookup by host leaves the
  choice to the query parameter (scope.go:125).
- `decodeCount` says that it supports `{"count": N}` (client.go:164) but takes an
  object for an envelope only if it has `ok`, `error` or `data`; the bare form
  ends in "invalid count payload". `Counts` has this form among the answers.
- `BoundedStaleness` has two lifetimes because one would be too little: a count
  read back from the store starts a new one (cache.go:432, RFC.md:74). For
  workspace records read-back renews the stored copy too (cache.go:256), so
  their age has no bound at all.

Why the bounds are enough to be interesting. Two callers suffice for every race
above: each is between one stale step and one other operation. With a `TTL` of 1
an entry can be fresh, on its last tick, or expired, in memory and in the store
independently. Versions up to `MaxVersion` let a count be one or two records
late. In `workspaces`, two slugs and two versions let a name be lost and another
taken, and one fault is a store error at any call or a restart at any point. A
larger instance checked once (one caller, two workspaces with three slugs
between them, 4.1 million states) has slugs passing from one workspace to the
other; the theorems cover every number. For alerts, a limit of 5 puts 4 at the
warning share and 5 at the limit, and quantities 1 and 3 reach them in several
ways; in `alerts_sequential` they stay below the warning share, which is what
`NoMissedCrossing` needs. For the
cascade, the nine packages have every combination of active, stackable and kind
of limit that the loop tells apart, and two of them are enough for every pair of
cases to meet in both orders. In `entries` one caller is enough for what is claimed,
which is about failures and time and not about overlap; two faults let both
halves of an invalidation fail, or one fail and a crash follow. With two callers
and no faults, and with `Prompt = FALSE`, 16 million states showed no error, but
these instances were not exhausted; the theorems cover them. In `scope`, two
workspaces and two slugs let a name change hands and the request go to the wrong
one; ids are 1 and 2, and the headers 1, 3 and 9 are a number that exists, one
that does not, and one beyond `MaxId` that wraps around onto 1. Two moves let a
slug be vacated and taken again during a request.

Fairness. `UsageCache`: weak fairness of `Tick`, time passes; strong fairness of
each caller's steps, because `sync.RWMutex` hands the lock to waiters in turn
and a request ends within the HTTP client's timeout. Whether a fetch is
answered, a store call succeeds or a crash happens is never assumed, and no call
has to start. `WorkspaceCache`, `EntryCache` and `WorkspaceScope` have safety
properties only and no fairness.
`UsageAlerts`: weak fairness of each goroutine's steps once it has
recorded; handlers return. Deadlock is checked in the runs on `UsageCache`,
`WorkspaceCache`, `EntryCache`, `WorkspaceScope` and `UsageAlerts`;
`EntitlementCheck` is one call and ends.

## 4. Proofs

For every number of callers, keys, lifetimes, counts and every setting of the
switches:

- `UsageCacheProofs!TypeCorrect`. `TypeInv` adds to `Typed` that a caller away
  from idle has a call and that it carries a count where the code has one in a
  local variable; that no lock is left behind (`Exclusive`) follows step by step
  from there.
- `CountsAreTrue`: `CachedWasTrue`. It is inductive only together with
  `OnlyCanReads`: with an API, nobody but `Can` walks through `GetUsage`, so
  nothing is ever added to a cached count.
- `StalenessIsBounded`: `BoundedStaleness`. `AgeInv` bounds age plus remaining
  life by one TTL in the store and two in memory, and the age of a count a
  caller is about to write by what is left in between; `Prompt` keeps the clock
  from moving there.
- `SequentialReadsAreFresh`: `FreshReads`, assuming `Sequential` (no two calls
  overlap). `FreshInv` also covers counts on their way into the cache, and the
  half-done drops of the one running call. `usage_late_answer` shows that the
  assumption is needed.
- `UsageAlertsProofs!TypeCorrect`.
- `HandlersInOrder`: `RegistrationOrder`, for any number of goroutines.
  `OrderInv` relates what a goroutine still has to call to what each handler has
  heard.
- `AlertsAreNew`: `NewlyCrossed`, assuming one goroutine and loads that do not
  fail. `OnceInv`: an alert of this cycle that has been raised is covered by the
  tracker's level, and the last count seen is not above the counter unless a
  reset came in between. `alerts_out_of_order` and the setting `LoadMayFail`
  above show that both assumptions are needed.
- `WorkspaceCacheProofs!TypeCorrect`. `TypeInv` adds to `Typed` what a caller's
  place says of its local variables and of the lock (`Placed`), which is what
  keeps `SetWorkspace` and `InvalidateWorkspace` from overlapping.
- `NamesLeadHome`: `NamesAgree`. `NameInv` adds `Remembered`: a caller that
  points names to a record still has that record in memory.
- `InvalidationIsFinal`: `DroppedStaysGone`. `FloorInv` also keeps callers from
  carrying a record of before the drop, and says of a caller about to report a
  drop that nothing of the workspace is left.
- `NamesGoWithTheRecord`: `NamesDropped`. `MirrorInv`: while nothing has failed,
  memory knows every name the store has. `workspaces_left_behind` shows that the
  condition is needed.

- `UsageCopiesProofs!CacheImplementsCopies`: `ImplementsCopies`, with an API
  and any number of callers, by a step simulation under `CopiesInv`. The age
  bound comes from `AgeInv`, that nobody computes a count from `OnlyCanReads`;
  `DropInv` says what is left of the counts a drop under way has already passed,
  so that its last step leaves nothing to serve.
- `CrossingsAreRaised`: `NoMissedCrossing`, assuming `Steady`: one goroutine,
  one feature, nobody else on the counter, loads that do not fail, a limit that
  stays, and records below the warning share. `MissInv`: the level triggered is
  one the last count seen reached, and either all of it was raised in this
  cycle or the next count re-arms it. The settings above show that the size of
  records and the limit matter.
- `EntryCacheProofs!TypeCorrect`, `DropsAreComplete`: `ListsAfterDrop`, and
  `ServedYoung`: `NoneServedTooOld`. `ListInv` has the lock (`Exclusive`, part of
  `TypeOK`) and that what a drop has passed is gone (`Emptied`);
  `AgeInv` is the argument of `BoundedStaleness` for each kind of entry.
- `WorkspaceScopeProofs!TypeCorrect`, `ScopedByName`: `ServedAsNamed`,
  `ScopedAlways`: `UnscopedOnlyByBlank`, `HostGoesFirst`: `HostBeatsQuery`, and
  `AbsenceIsReal`: `OutageIsNotAbsence`, whatever the API answers.
  `ScopedAlways` is the exact promise of a strict scope: one kind of answer lets a
  request through without a workspace (`scope_blank` shows it), and no other
  answer, failure or absence does. The lemmas up to `LookedOutcome` work out the
  decoders on every answer; `ScopeInv` then says at each point of the request
  which source it goes by, how far the host has been given up (`HostInv`), and
  that a result or a workspace in the context is rightly there (`Rightly`).

- `CountsAreOwn`: `CountsAreItsOwn`, for every answer but a blank one (a bare `null`
  with status 200 is a count of 0). It is inductive as it stands; the work is in the
  decoder. `DecodeCount` is the equation of the recursive function, which tlapm
  knows only as a choice among the solutions of that equation. That there is one
  needs no induction on the nesting: `Ends(b)` are the bodies that can be reached
  from `b` and do not lead on, and it is the same set for the body nested in `b`.
  `CountDecoded` then goes through the seven forms a count comes in.
- `EntitlementCheckProofs!InvHolds`, for `Inv`: what has been loaded is what the API
  holds or nothing, and verdict and row are made of what has been loaded. The
  theorems that follow are this and a statement about the operators:
  - `TypeCorrect`: `TypeOK`, and `Unordered`: `OrderIsIrrelevant`, both without a
    condition. `AnyOrder` says more than the run can: the same verdict, limit and
    count for any reordering of lists of any length, wrap-around included.
  - `SummaryFollowsCan`: `SummaryAgrees`, if there are only boosts of known types
    (`KnownBoosts`); `Can` adds up the others, the summary does not.
  - `CanIsTheCascade`: `CanFollowsCascade`, if moreover counts and pools fit an int
    (`CountsFit`, `SumsFit`), where every entry has its limit (`LimitsGiven`, see
    above). Sums that wrap around on the way and come back do no
    harm, so only the total of a pool must fit (`Int64OfInt64`).
  - `DeniesWhatItCannotLoad`: `FailsClosed`, under the same conditions on boosts and
    sums (`LimitsGiven` is not needed), whichever loads fail.
  - `MoreIsNeverDenied`: `MoreNeverDenies`, if limits are counts or say that there is
    none (`LimitsAreCounts`; a limit of -2 that stacks takes away) and the larger
    pools fit.

  The argument: `Gathered` and `BoostsGathered` say in sets of positions what a
  loop has gathered after the turns so far, and that one more turn keeps them is
  the heart of it (`GatheredOneMore`, `BoostsGatheredOneMore`); once unlimited, a
  loop keeps its flag and nothing else matters, which is what an early return
  comes to. From there `Can` and the row are written without loops (`CanIs`,
  `SummaryIs`), `Allows` is the documented cascade on the same terms, and both
  are compared on other lists.

Folds and sums are recursive functions of the library, and its induction theorems
cannot be used. `LoopLemmas` does without: numbers, and subsets of a finite set,
that are not in `T` would have a least member (`RangeInduction`,
`SubsetInduction`), and the equation of a fold or a sum has a solution because
the solutions on smaller sets can be continued (`LoopExists`,
`PartialSumsExist`). `SumFunctionOnSet` takes its members in an order nobody
knows; `PartialSumsTake` shows that it does not matter, and `SumMoved` that only
the terms do.

Only model-checked: liveness (`CallsReturn`, `EventuallyFresh`,
`EveryHandlerHears`), which is beyond the prover. The conditions the theorems
about the cascade name are no assumptions of the model: `FitAssumption` in
`MCEntitlementCheck` evaluates them for the run's packages and boosts, one more
of each included, so the run is one of the instances the theorems speak of.

Assumptions on constants are the named ASSUMEs of the modules, evaluated by TLC
in every run.

## 5. Not modelled

Request bodies and payloads (usage.go), tiers and the value helpers of users and
workspaces, errors and registration keep no state and decide nothing that a
property is about. Of the client, URLs, headers, options and the lazily built
`http.Client` are left out; of the usage summary, which codes it lists, names,
reset types and the sorting. Wording, logging and layout are left out
throughout. The data races on lazily initialised fields (tenant.go:305,
client.go:212) are listed as a hazard: all writers write the same value, so no
state tells the outcomes apart.

Hazards without a property have a note in `PROJECT.json`. Most are steps that a
model takes and about which the code promises nothing: retrying a POST that may
have been applied, `Can` and `RecordUsage` as two calls, records that live on by
being read.

## 6. What could follow

1. A composition of cache invalidation with the alert state: today
   `UsageAlerts` has a count as what `Observe` reads, `UsageCache` where it
   comes from.
2. An abstract view of workspace resolution that `WorkspaceCache` implements and
   `WorkspaceScope` uses, in place of the ghost `had`.
3. What the theorems about two callers assume away: which of the properties of
   `UsageCache` hold for the calls that do not overlap another one, in runs where
   some do.
4. The alerts under several goroutines: how many crossings can be raised twice,
   now that `NewlyCrossed` is proved for one.
