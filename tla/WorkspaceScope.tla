----------------------------- MODULE WorkspaceScope -----------------------------
(***************************************************************************)
(* One request through WorkspaceScope (scope.go): which workspace it is    *)
(* resolved to, through the Tenant's methods (tenant.go) and TenantClient  *)
(* (client.go), what the handler finds in its context (workspace.go), and  *)
(* the count it then asks the API for.  Names move between workspaces and  *)
(* answers fail while the request is under way.  The Tenant's cache        *)
(* answers a name with a workspace that has had it, or not at all: that is *)
(* NamesAgree of WorkspaceCache.                                           *)
(***************************************************************************)
EXTENDS TenantClient

CONSTANTS
    UUID,         \* workspaces
    Slug,         \* slugs
    Host,         \* host names
    SlugIn,       \* the slug in each host name (workspaceSlugFromHost)
    IdOf,         \* the integer ID of each workspace
    CountOf,      \* the API's count of each workspace's usage
    HeaderId,     \* numbers sent as X-Workspace-ID
    Bogus,        \* an X-Workspace-ID that is not a number
    MaxId,        \* the largest integer ID: 2^63 - 1 in the code
    MaxMoves      \* bound: names that move

Mode == {"strict", "lenient", "guarded", "func"}
Id(n) == <<"id", n>>
Name == Slug \cup Host \cup {Id(IdOf[u]) : u \in UUID}

\* "guarded" is a lenient scope with RequireWorkspace behind it; ScopeFunc
\* ("func") is given a slug.
Request == [mode: Mode, id: HeaderId \cup {Bogus, None}, slug: Slug \cup {None},
            host: Host \cup {None}, query: Slug \cup {None}]

ASSUME NoneAssumption ==
    /\ None \notin Name /\ None \notin UUID /\ None \notin HeaderId /\ None \notin Request
    /\ None \notin Int
ASSUME BlankAssumption == "" \notin UUID
ASSUME NumberAssumption ==
    /\ HeaderId \subseteq Nat /\ MaxId \in Nat /\ MaxMoves \in Nat
    /\ CountOf \in [UUID -> Int]
ASSUME BogusAssumption == Bogus \notin HeaderId \cup {None}
ASSUME NameAssumption ==
    /\ \A u \in UUID : Id(IdOf[u]) \notin Slug \cup Host
    /\ \A u, v \in UUID : IdOf[u] = IdOf[v] => u = v
    /\ Slug \cap Host = {}
    /\ SlugIn \in [Host -> Slug]

VARIABLES
    api,       \* the workspace each name leads to
    had,       \* ghost: the workspaces each name has led to
    req,       \* the request under way
    pc,        \* where it is
    result,    \* what the last lookup returned
    ctx,       \* the UUID of the workspace in the request's context
    count,     \* the count the handler got, as a result
    trouble,   \* ghost: something failed for another reason than absence
    vacant,    \* ghost: the names that led nowhere at some moment of the request
    moves      \* ghost: names that have moved

vars == <<api, had, req, pc, result, ctx, count, trouble, vacant, moves>>
world == <<api, had, moves>>

Vacant == {a \in Name : api[a] = None}

\* A workspace has one slug at most.
OneSlug(names) ==
    \A a, b \in Slug : names[a] = names[b] /\ names[a] # None => a = b

Init ==
    /\ \E owner \in [Slug \cup Host -> UUID \cup {None}] :
          /\ OneSlug(owner)
          /\ api = [a \in Name |-> IF a \in Slug \cup Host THEN owner[a]
                                   ELSE CHOOSE u \in UUID : a = Id(IdOf[u])]
    /\ had = [a \in Name |-> {api[a]} \ {None}]
    /\ req = None
    /\ pc = "idle"
    /\ result = None
    /\ ctx = None
    /\ count = None
    /\ trouble = FALSE
    /\ vacant = {}
    /\ moves = 0

-------------------------------------------------------------------------------
(* The PHP API *)

\* The forms a record, a count and a refusal come in.
Record(u) == Object([uuid |-> Text(u)])
Records(u) == {Record(u), Object([ok |-> Bool(TRUE), data |-> Record(u)]),
               Object([data |-> Record(u)])}
Counts(n) == {Number(n), Object([ok |-> Bool(TRUE), count |-> Number(n)]),
              Object([ok |-> Bool(TRUE), usage |-> Digits(n), value |-> Number(0)]),
              Object([data |-> Number(n)]), Object([data |-> Digits(n)]),
              Object([data |-> Object([ok |-> Bool(TRUE), value |-> Number(n)])]),
              Object([count |-> Number(n)])}
Refusals == {Object([ok |-> Bool(FALSE), error |-> Text("message")]),
             Object([error |-> Text("message"), count |-> Number(0)])}
\* Bodies that are well and have nothing of what was asked for.
Blanks == {Null, Object([ok |-> Bool(TRUE), data |-> Null])}

\* The decoder of counts is given no other bodies than these.
ASSUME AnswerAssumption ==
    Refusals \cup Blanks \cup {Empty, Junk} \cup UNION {Counts(CountOf[u]) : u \in UUID} \subseteq Body

Blanked == {Answer(200, b) : b \in Blanks}

\* What goes wrong whatever was asked for.
Failures ==
    {Silence, Broken, Answer(200, Empty), Answer(200, Junk)}
        \cup {Answer(status, b) : status \in {200, 422, 500}, b \in Refusals}
        \cup Blanked

Answers(a) ==
    Failures \cup IF a \in Name /\ api[a] # None
                  THEN {Answer(200, b) : b \in Records(api[a])}
                  ELSE {Answer(404, Empty)}

\* A name passes to another workspace, or to none.
Move ==
    /\ moves < MaxMoves
    /\ \E a \in Slug \cup Host, u \in UUID \cup {None} :
          /\ api' = [api EXCEPT ![a] = u]
          /\ OneSlug(api')
          /\ had' = [had EXCEPT ![a] = @ \cup ({u} \ {None})]
          /\ vacant' = IF u = None THEN vacant \cup {a} ELSE vacant
    /\ moves' = moves + 1
    /\ UNCHANGED <<req, pc, result, ctx, count, trouble>>

-------------------------------------------------------------------------------
(* Lookups *)

\* A result, and (ghost) whether it was read from a blank body.
Told(r, blank) == [ok |-> r.ok, value |-> r.value, blank |-> blank]

\* The query of one name through the client; the record that comes back is
\* cached, and a cache that refuses it is a failure.
Queried(a) ==
    {Told(GetWorkspaceRecord(answer), answer \in Blanked) : answer \in Answers(a)}
        \cup {Told(Fail("store error"), FALSE)}

\* Tenant.GetWorkspace and GetWorkspaceByID: the cache, then the client.
Looked(a) ==
    {Told(Ok(u), FALSE) : u \in IF a \in Name THEN had[a] ELSE {}} \cup Queried(a)

Absent(r) == ~r.ok /\ r.value = "workspace not found"

\* A lookup of a name ends in r, and the request goes on elsewhere.
Step(r, to) ==
    /\ result' = r
    /\ pc' = to
    /\ trouble' = (trouble \/ ~(r.ok \/ Absent(r)))
    /\ UNCHANGED <<world, req, ctx, count, vacant>>

-------------------------------------------------------------------------------
(* resolveWorkspace *)

Wraps(n) == ((n + MaxId + 1) % (2 * (MaxId + 1))) - (MaxId + 1)
Fits(n) == n <= MaxId

\* Digits are added up in an int64, which wraps around.
parseInt64(digits) ==
    IF digits = Bogus THEN Fail("no workspace in context") ELSE Ok(Wraps(digits))

\* The first source that is there.
First(r) ==
    CASE r.mode = "func"                  -> "slug"
      [] r.mode # "func" /\ r.id # None   -> "id"
      [] r.mode # "func" /\ r.id = None   ->
            IF r.slug # None THEN "slug" ELSE IF r.host # None THEN "host" ELSE "query"

Arrive ==
    /\ pc = "idle"
    /\ req' \in {r \in Request : r.mode = "func" =>
                    r.slug # None /\ r.id = None /\ r.host = None /\ r.query = None}
    /\ pc' = First(req')
    /\ vacant' = Vacant
    /\ UNCHANGED <<world, result, ctx, count, trouble>>

\* X-Workspace-ID decides alone: if it is no number, or the lookup fails,
\* nothing else is asked.
ById ==
    /\ pc = "id"
    /\ LET parsed == Told(parseInt64(req.id), FALSE) IN
          \/ ~parsed.ok /\ Step(parsed, "resolved")
          \/ parsed.ok /\ \E r \in Looked(Id(parsed.value)) : Step(r, "resolved")

\* Mutant of BySlug: a slug that cannot be resolved gives way to the host.
BySlugElseHost ==
    /\ pc = "slug"
    /\ \E r \in Looked(req.slug) :
          Step(r, IF r.ok \/ req.host = None THEN "resolved" ELSE "host")

\* So does X-Workspace-Slug.
BySlug ==
    /\ pc = "slug"
    /\ \E r \in Looked(req.slug) : Step(r, "resolved")

\* The host's slug through the Tenant; any failure goes on to the client.
ByHost ==
    /\ pc = "host"
    /\ \E r \in Looked(SlugIn[req.host]) : Step(r, IF r.ok THEN "resolved" ELSE "hostAgain")

\* Mutant of ByHostAgain: a slug that leads nowhere leaves the host at once.
ByHostAgainOnce ==
    /\ pc = "hostAgain"
    /\ \E r \in Queried(SlugIn[req.host]) : Step(r, IF r.ok THEN "resolved" ELSE "query")

\* The client asks for the slug itself, and only where it leads nowhere for the
\* domain; every other failure leaves the host.
ByHostAgain ==
    /\ pc = "hostAgain"
    /\ \E r \in Queried(SlugIn[req.host]) :
          Step(r, CASE r.ok      -> "resolved"
                    [] Absent(r) -> "domain"
                    [] OTHER     -> "query")

ByDomain ==
    /\ pc = "domain"
    /\ \E r \in Queried(req.host) : Step(r, IF r.ok THEN "resolved" ELSE "query")

\* Whatever became of the host, the query is asked last.
ByQuery ==
    /\ pc = "query"
    /\ IF req.query # None
       THEN \E r \in Looked(req.query) : Step(r, "resolved")
       ELSE /\ result' = Told(Fail("no workspace in context"), FALSE)
            /\ pc' = "resolved"
            /\ UNCHANGED <<world, req, ctx, count, trouble, vacant>>

-------------------------------------------------------------------------------
(* Middleware, RequireWorkspace, ScopeFunc, and the handler behind them *)

\* A strict scope refuses, a lenient one goes on without a workspace, and
\* RequireWorkspace refuses if there is none in the context; any workspace will
\* do, one without a UUID too.  ScopeFunc runs its function or returns the error,
\* absence under a name of its own.
Inject ==
    /\ pc = "resolved"
    /\ IF result.ok
       THEN pc' = "handler" /\ ctx' = result.value
       ELSE /\ pc' = IF req.mode = "lenient" THEN "handler" ELSE "refused"
            /\ UNCHANGED ctx
    /\ result' = IF req.mode = "func" /\ Absent(result)
                 THEN [result EXCEPT !.value = "no workspace in context"] ELSE result
    /\ UNCHANGED <<world, req, count, trouble, vacant>>

\* The handler asks how much its workspace has used.
Handle ==
    /\ pc = "handler"
    /\ \E answer \in Failures \cup {Answer(404, Empty)} \cup
                     {Answer(200, b) : b \in IF ctx \in UUID THEN Counts(CountOf[ctx]) ELSE {}} :
          count' = IF ctx = None THEN None
                   ELSE Told(GetCurrentUsage(answer), answer \in Blanked)
    /\ pc' = "served"
    /\ UNCHANGED <<world, req, result, ctx, trouble, vacant>>

\* Mutant of Reply: the workspace stays behind in the context.
ReplyKeepsContext ==
    /\ pc \in {"served", "refused"}
    /\ pc' = "idle"
    /\ req' = None
    /\ result' = None
    /\ count' = None
    /\ trouble' = FALSE
    /\ vacant' = {}
    /\ UNCHANGED <<world, ctx>>

\* The answer goes out; context and request are gone.
Reply ==
    /\ pc \in {"served", "refused"}
    /\ pc' = "idle"
    /\ req' = None
    /\ result' = None
    /\ ctx' = None
    /\ count' = None
    /\ trouble' = FALSE
    /\ vacant' = {}
    /\ UNCHANGED world

Next ==
    \/ Move \/ Arrive \/ ById \/ BySlug \/ ByHost \/ ByHostAgain \/ ByDomain
    \/ ByQuery \/ Inject \/ Handle \/ Reply

Spec == Init /\ [][Next]_vars

-------------------------------------------------------------------------------
(* Properties *)

Location == {"idle", "id", "slug", "host", "hostAgain", "domain", "query",
             "resolved", "handler", "served", "refused"}

\* The values the variables take.
TypeOK ==
    /\ api \in [Name -> UUID \cup {None}]
    /\ had \in [Name -> SUBSET UUID]
    /\ req \in Request \cup {None}
    /\ pc \in Location
    /\ ctx \in UUID \cup {None, ""}
    /\ pc = "idle" => req = None /\ ctx = None
    /\ trouble \in BOOLEAN
    /\ vacant \subseteq Name
    /\ moves \in 0..MaxMoves

Handling == pc \in {"handler", "served"}

\* The names a request may be resolved by: a header decides alone.
Sources ==
    CASE First(req) = "id"   -> {Id(req.id)}
      [] First(req) = "slug" -> {req.slug}
      [] OTHER -> {SlugIn[h] : h \in {req.host} \ {None}} \cup ({req.host, req.query} \ {None})

\* A request is served as a workspace that has had the name it came with, by the
\* source that comes first, though names move and queries fail in between: it
\* never reaches another tenant (scope.go:111).  A number beyond int64 does.
ServedAsNamed ==
    Handling /\ ctx \in UUID /\ (First(req) = "id" => Fits(req.id))
        => \E a \in Sources \cap Name : ctx \in had[a]

\* Behind a strict scope, RequireWorkspace or ScopeFunc nothing runs without a
\* workspace that has a UUID, whatever the API answered (scope.go:37, 68 and 85).
\* Not so: {"ok":true,"data":null} is read as a workspace with nothing in it.
NeverUnscoped == Handling /\ req.mode # "lenient" => ctx \in UUID

\* A blank answer is the only way there: no refusal, whatever its status, no
\* failure, no absence and no request without a name leaves anything to run behind
\* a scope that demands a workspace (client.go:112 and 141, scope.go:52).
UnscopedOnlyByBlank ==
    Handling /\ req.mode # "lenient" /\ ctx \notin UUID => result.blank

\* The query decides only where the host could not: its slug and its domain both
\* led nowhere at some moment of the request, or something failed, or a blank
\* answer passed for the workspace (scope.go:124).
HostBeatsQuery ==
    Handling /\ First(req) = "host" /\ ~trouble /\ ~result.blank
        /\ ctx \notin had[SlugIn[req.host]] \cup had[req.host]
        => {SlugIn[req.host], req.host} \subseteq vacant

\* ScopeFunc says that there is no such workspace only if there was none: not
\* when the API was down or the cache failed (scope.go:98, client.go:113).
OutageIsNotAbsence ==
    pc = "refused" /\ req.mode = "func" /\ result.value = "no workspace in context"
        => req.slug \in vacant

\* A count the handler gets is the count of its own workspace: no refusal or
\* stray body is taken for one, but for a bare null, which counts as 0
\* (client.go:165).
CountsAreItsOwn ==
    pc = "served" /\ count # None =>
        (count.ok /\ ~count.blank => ctx \in UUID /\ count.value = CountOf[ctx])
================================================================================
