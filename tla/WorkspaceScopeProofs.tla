-------------------------- MODULE WorkspaceScopeProofs --------------------------
(***************************************************************************)
(* Theorems about WorkspaceScope, for every set of workspaces, slugs, hosts*)
(* and numbers, any number of names that move, and every answer, the blank *)
(* ones included.                                                          *)
(***************************************************************************)
EXTENDS WorkspaceScope, TLAPS

-------------------------------------------------------------------------------
(* What the client makes of an answer *)

LEMMA Fields ==
    ASSUME NEW b, NEW fields, b = Object(fields), NEW field
    PROVE  /\ b.kind = "object" /\ b.at = fields
           /\ Has(b, field) <=> field \in DOMAIN fields
BY DEF Object, Has

\* A bare record is one, and not an envelope.
LEMMA RecordPlain ==
    ASSUME NEW u
    PROVE  /\ Record(u).kind = "object" /\ ~looksLikeEnvelope(Record(u))
           /\ ~Nested(Record(u)) /\ Unmarshal(Record(u)) = Ok(u)
<1> DEFINE b == Record(u)
           fields == [uuid |-> Text(u)]
<1>1. b = Object(fields) BY DEF Record
<1>2. DOMAIN fields = {"uuid"} /\ fields["uuid"] = Text(u) OBVIOUS
<1> HIDE DEF b, fields
<1>3. b.kind = "object" /\ b.at["uuid"] = Text(u) /\ Has(b, "uuid") BY <1>1, <1>2, Fields
<1>4. ~Has(b, "data") /\ ~Has(b, "ok") /\ ~Has(b, "error") BY <1>1, <1>2, Fields
<1>5. Text(u).kind = "text" /\ Text(u).text = u BY DEF Text
<1>6. stringField(b, "uuid") = u BY <1>3, <1>5 DEF stringField
<1>7. Unmarshal(b) = Ok(u) BY <1>3, <1>5, <1>6 DEF Unmarshal
<1>8. ~looksLikeEnvelope(b) /\ ~Nested(b) BY <1>4 DEF looksLikeEnvelope, Nested
<1> QED BY <1>3, <1>7, <1>8 DEF b

LEMMA RecordDecoded ==
    ASSUME NEW u, NEW b \in Records(u) PROVE decodeEnvelope(b) = Ok(u)
<1>1. CASE b = Record(u)
  <2>1. b.kind # "empty" /\ ~Refused(b) /\ ~Nested(b) /\ Unmarshal(b) = Ok(u)
    BY <1>1, RecordPlain DEF Refused
  <2> QED BY <2>1 DEF decodeEnvelope
<1>2. ASSUME NEW fields, b = Object(fields), "data" \in DOMAIN fields,
             fields["data"] = Record(u), "error" \notin DOMAIN fields
      PROVE  decodeEnvelope(b) = Ok(u)
  <2>1. /\ b.kind = "object" /\ b.at["data"] = Record(u)
        /\ Has(b, "data") /\ ~Has(b, "error")
    BY <1>2, Fields
  <2>2. ~Refused(b) BY <2>1 DEF Refused, stringField
  <2>3. Nested(b) BY <2>1, RecordPlain DEF Nested
  <2> QED BY <2>1, <2>2, <2>3, RecordPlain DEF decodeEnvelope
<1>3. CASE b = Object([data |-> Record(u)])
  <2>1. DOMAIN [data |-> Record(u)] = {"data"} /\ [data |-> Record(u)]["data"] = Record(u) OBVIOUS
  <2> QED BY <1>2, <1>3, <2>1
<1>4. CASE b = Object([ok |-> Bool(TRUE), data |-> Record(u)])
  <2> DEFINE fields == [ok |-> Bool(TRUE), data |-> Record(u)]
  <2>1. DOMAIN fields = {"ok", "data"} /\ fields["data"] = Record(u) OBVIOUS
  <2> HIDE DEF fields
  <2>2. b = Object(fields) BY <1>4 DEF fields
  <2> QED BY <1>2, <2>1, <2>2
<1> QED BY <1>1, <1>3, <1>4 DEF Records

\* A refusal names an error and does not say that it is well.
LEMMA RefusalIs ==
    ASSUME NEW b \in Refusals PROVE b.kind = "object" /\ Refused(b)
<1>1. ASSUME NEW fields, b = Object(fields), "error" \in DOMAIN fields,
             fields["error"] = Text("message"),
             "ok" \in DOMAIN fields => fields["ok"] = Bool(FALSE)
      PROVE  b.kind = "object" /\ Refused(b)
  <2>1. /\ b.kind = "object" /\ b.at = fields /\ Has(b, "error")
        /\ Has(b, "ok") => b.at["ok"] = Bool(FALSE)
    BY <1>1, Fields
  <2>2. stringField(b, "error") # ""
    <3>1. Text("message").kind = "text" /\ Text("message").text = "message" BY DEF Text
    <3>2. stringField(b, "error") = "message" BY <1>1, <2>1, <3>1 DEF stringField
    <3> QED BY <3>2
  <2>3. ~boolField(b, "ok") BY <2>1 DEF boolField, Bool
  <2> QED BY <2>1, <2>2, <2>3 DEF Refused, looksLikeEnvelope
<1>2. CASE b = Object([ok |-> Bool(FALSE), error |-> Text("message")])
  <2> DEFINE fields == [ok |-> Bool(FALSE), error |-> Text("message")]
  <2>1. DOMAIN fields = {"ok", "error"} /\ fields["ok"] = Bool(FALSE)
        /\ fields["error"] = Text("message")
    OBVIOUS
  <2> HIDE DEF fields
  <2>2. b = Object(fields) BY <1>2 DEF fields
  <2> QED BY <1>1, <2>1, <2>2
<1>3. CASE b = Object([error |-> Text("message"), count |-> Number(0)])
  <2> DEFINE fields == [error |-> Text("message"), count |-> Number(0)]
  <2>1. DOMAIN fields = {"error", "count"} /\ fields["error"] = Text("message") OBVIOUS
  <2> HIDE DEF fields
  <2>2. b = Object(fields) BY <1>3 DEF fields
  <2> QED BY <1>1, <2>1, <2>2
<1> QED BY <1>2, <1>3 DEF Refusals

LEMMA RefusalDecoded ==
    ASSUME NEW b \in Refusals PROVE decodeEnvelope(b) = Fail("api error")
BY RefusalIs DEF decodeEnvelope

\* What request makes of an answer, by its status.
LEMMA Accepted ==
    ASSUME NEW status \in Int, status < 400, NEW b, NEW answer, answer = Answer(status, b)
    PROVE  request(answer, "workspaces") = Ok(b)
<1>1. answer.wire = "answered" /\ answer.status = status /\ answer.body = b BY DEF Answer
<1>2. ~(answer.status >= 400) BY <1>1
<1> QED BY <1>1, <1>2 DEF request

LEMMA Rejected ==
    ASSUME NEW status \in Int, status >= 400, NEW b, NEW answer, answer = Answer(status, b)
    PROVE  request(answer, "workspaces") = statusError(status, "workspaces")
<1>1. answer.wire = "answered" /\ answer.status = status BY DEF Answer
<1>2. answer.status >= 400 BY <1>1
<1> QED BY <1>1, <1>2 DEF request

LEMMA StatusErrors ==
    \A status \in Int :
        statusError(status, "workspaces") =
            Fail(IF status = 404 THEN "workspace not found" ELSE "api error")
BY DEF statusError

-------------------------------------------------------------------------------
(* What a lookup returns *)

(* A success is the workspace the name leads to; an error never passes for   *)
(* "no workspace in context", and absence is absence.                        *)
Outcome(r, a) ==
    /\ r.ok \in BOOLEAN
    /\ r.ok => a \in Name /\ api[a] # None /\ r.value = api[a]
    /\ ~r.ok => r.value # "no workspace in context"
    /\ Absent(r) /\ a \in Name => api[a] = None

LEMMA Results ==
    ASSUME NEW v
    PROVE  /\ Ok(v).ok = TRUE /\ Ok(v).value = v
           /\ Fail(v).ok = FALSE /\ Fail(v).value = v
BY DEF Ok, Fail

LEMMA Failing ==
    ASSUME NEW a, NEW r, NEW e, r = Fail(e), e # "workspace not found", e # "no workspace in context"
    PROVE  Outcome(r, a)
BY Results DEF Outcome, Absent

LEMMA AnswerRead ==
    ASSUME NEW a, NEW answer \in Answers(a) \ Blanked
    PROVE  Outcome(GetWorkspaceRecord(answer), a)
<1> DEFINE r == GetWorkspaceRecord(answer)
           error == {"EOF", "api error", "api client timeout", "api request failed",
                     "invalid api payload"}
<1>e. ASSUME NEW e \in error, r = Fail(e) PROVE Outcome(r, a)
  <2>1. e # "workspace not found" /\ e # "no workspace in context" BY <1>e
  <2> HIDE DEF r
  <2> QED BY <1>e, <2>1, Failing
<1>a. ASSUME NEW status \in Int, status < 400, NEW b, answer = Answer(status, b)
      PROVE  r = decodeEnvelope(b)
  <2>1. request(answer, "workspaces") = Ok(b) BY <1>a, Accepted
  <2> QED BY <2>1, Results DEF GetWorkspaceRecord
<1>b. ASSUME request(answer, "workspaces").ok = FALSE PROVE r = request(answer, "workspaces")
  BY <1>b DEF GetWorkspaceRecord
<1>c. ASSUME NEW status \in Int, status >= 400, NEW b, answer = Answer(status, b), NEW e,
             statusError(status, "workspaces") = Fail(e)
      PROVE  r = Fail(e)
  <2>1. request(answer, "workspaces") = Fail(e) BY <1>c, Rejected
  <2>2. request(answer, "workspaces").ok = FALSE BY <2>1, Results
  <2> QED BY <2>1, <2>2, <1>b
<1>1. CASE answer = Silence
  <2>1. request(answer, "workspaces") = Fail("api client timeout") BY <1>1 DEF request, Silence
  <2> QED BY <2>1, <1>b, <1>e, Results
<1>2. CASE answer = Broken
  <2>1. request(answer, "workspaces") = Fail("api request failed") BY <1>2 DEF request, Broken
  <2> QED BY <2>1, <1>b, <1>e, Results
<1>3. ASSUME NEW status \in Int, status < 400, answer = Answer(status, Empty) PROVE Outcome(r, a)
  <2>1. Empty.kind = "empty" BY DEF Empty
  <2>2. decodeEnvelope(Empty) = Fail("EOF") BY <2>1 DEF decodeEnvelope
  <2>3. r = Fail("EOF") BY <2>2, <1>3, <1>a
  <2> QED BY <2>3, <1>e
<1>4. ASSUME NEW status \in Int, status < 400, answer = Answer(status, Junk) PROVE Outcome(r, a)
  <2>1. Junk.kind = "junk" BY DEF Junk
  <2>2. ~looksLikeEnvelope(Junk) /\ ~Nested(Junk) BY <2>1 DEF looksLikeEnvelope, Nested, Has
  <2>3. decodeEnvelope(Junk) = Fail("invalid api payload")
    BY <2>1, <2>2 DEF decodeEnvelope, Refused, Unmarshal
  <2>4. r = Fail("invalid api payload") BY <2>3, <1>4, <1>a
  <2> QED BY <2>4, <1>e
<1>5. ASSUME NEW status \in Int, status # 404, NEW b \in Refusals, answer = Answer(status, b)
      PROVE  Outcome(r, a)
  <2>1. CASE status < 400
    <3>1. decodeEnvelope(b) = Fail("api error") BY RefusalDecoded
    <3>2. r = Fail("api error") BY <1>5, <2>1, <3>1, <1>a
    <3> QED BY <3>2, <1>e
  <2>2. CASE status >= 400
    <3>1. statusError(status, "workspaces") = Fail("api error") BY <1>5, StatusErrors
    <3>2. r = Fail("api error") BY <1>5, <2>2, <3>1, <1>c
    <3> QED BY <3>2, <1>e
  <2> QED BY <2>1, <2>2
<1>6. ASSUME a \in Name, api[a] # None, NEW b \in Records(api[a]),
             NEW status \in Int, status < 400, answer = Answer(status, b)
      PROVE  Outcome(r, a)
  <2>1. decodeEnvelope(b) = Ok(api[a]) BY <1>6, RecordDecoded
  <2>2. r = Ok(api[a]) BY <2>1, <1>6, <1>a
  <2> HIDE DEF r
  <2> QED BY <2>2, <1>6, Results DEF Outcome, Absent
<1>7. ASSUME ~(a \in Name /\ api[a] # None), NEW status \in Int, status >= 400,
             statusError(status, "workspaces") = Fail("workspace not found"),
             answer = Answer(status, Empty)
      PROVE  Outcome(r, a)
  <2>1. r = Fail("workspace not found") BY <1>7, <1>c
  <2> HIDE DEF r
  <2>2. r.ok = FALSE /\ r.value = "workspace not found" BY <2>1, Results
  <2> QED BY <2>2, <1>7 DEF Outcome
<1>8. \/ answer \in {Silence, Broken, Answer(200, Empty), Answer(200, Junk)}
      \/ \E status \in {200, 422, 500}, b \in Refusals : answer = Answer(status, b)
      \/ a \in Name /\ api[a] # None /\ \E b \in Records(api[a]) : answer = Answer(200, b)
      \/ ~(a \in Name /\ api[a] # None) /\ answer = Answer(404, Empty)
  BY DEF Answers, Failures
<1> HIDE DEF r
<1>9. /\ 200 \in Int /\ 200 < 400 /\ 404 \in Int /\ 404 >= 400
      /\ \A status \in {200, 422, 500} : status \in Int /\ status # 404
  OBVIOUS
<1>10. CASE answer \in {Silence, Broken}
  BY <1>10, <1>1, <1>2 DEF r
<1>11. CASE answer = Answer(200, Empty)
  <2>1. Outcome(r, a) BY <1>3, <1>9, <1>11
  <2> QED BY <2>1 DEF r
<1>12. CASE answer = Answer(200, Junk)
  <2>1. Outcome(r, a) BY <1>4, <1>9, <1>12
  <2> QED BY <2>1 DEF r
<1>13. CASE \E status \in {200, 422, 500}, b \in Refusals : answer = Answer(status, b)
  <2>1. PICK status \in {200, 422, 500}, b \in Refusals : answer = Answer(status, b) BY <1>13
  <2>2. status \in Int /\ status # 404 BY <1>9
  <2>3. Outcome(r, a) BY <1>5, <2>1, <2>2
  <2> QED BY <2>3 DEF r
<1>14. CASE a \in Name /\ api[a] # None /\ \E b \in Records(api[a]) : answer = Answer(200, b)
  <2>1. PICK b \in Records(api[a]) : answer = Answer(200, b) BY <1>14
  <2>2. Outcome(r, a) BY <1>6, <1>9, <1>14, <2>1
  <2> QED BY <2>2 DEF r
<1>15. CASE ~(a \in Name /\ api[a] # None) /\ answer = Answer(404, Empty)
  <2>1. PICK status \in Int : status = 404 /\ answer = Answer(status, Empty) BY <1>9, <1>15
  <2>2. statusError(status, "workspaces") = Fail("workspace not found") BY <2>1, StatusErrors
  <2>3. status >= 400 BY <2>1
  <2>4. answer = Answer(status, Empty) BY <2>1
  <2>5. Outcome(r, a) BY <1>7, <1>15, <2>2, <2>3, <2>4
  <2> QED BY <2>5 DEF r
<1> QED BY <1>8, <1>10, <1>11, <1>12, <1>13, <1>14, <1>15

\* A blank body decodes to a workspace with no UUID.
LEMMA BlankDecoded == ASSUME NEW b \in Blanks PROVE decodeEnvelope(b) = Ok("")
<1>1. CASE b = Null
  <2>1. b.kind = "null" BY <1>1 DEF Null
  <2>2. ~Refused(b) /\ ~Nested(b) BY <2>1 DEF Refused, looksLikeEnvelope, Nested, Has
  <2>3. Unmarshal(b) = Ok("") BY <2>1 DEF Unmarshal, stringField, Has
  <2> QED BY <2>1, <2>2, <2>3 DEF decodeEnvelope
<1>2. CASE b = Object([ok |-> Bool(TRUE), data |-> Null])
  <2> DEFINE fields == [ok |-> Bool(TRUE), data |-> Null]
  <2>1. DOMAIN fields = {"ok", "data"} /\ fields["data"] = Null OBVIOUS
  <2>2. b = Object(fields) BY <1>2
  <2> HIDE DEF fields
  <2>3. /\ b.kind = "object" /\ Has(b, "data") /\ b.at["data"] = Null
        /\ ~Has(b, "error") /\ ~Has(b, "uuid")
    BY <2>1, <2>2, Fields
  <2>4. ~Refused(b) BY <2>3 DEF Refused, stringField
  <2>5. Null.kind = "null" BY DEF Null
  <2>6. ~Nested(b) BY <2>3, <2>5 DEF Nested
  <2>7. Unmarshal(b) = Ok("") BY <2>3 DEF Unmarshal, stringField
  <2> QED BY <2>3, <2>4, <2>6, <2>7 DEF decodeEnvelope
<1> QED BY <1>1, <1>2 DEF Blanks

LEMMA BlankRead == ASSUME NEW answer \in Blanked PROVE GetWorkspaceRecord(answer) = Ok("")
<1>1. PICK b \in Blanks : answer = Answer(200, b) BY DEF Blanked
<1>2. request(answer, "workspaces") = Ok(b)
  <2>1. 200 \in Int /\ 200 < 400 OBVIOUS
  <2> QED BY <1>1, <2>1, Accepted
<1> QED BY <1>2, Results, BlankDecoded DEF GetWorkspaceRecord

\* A success is a workspace that has had the name, or a blank.
Found(r, a) == IF r.blank THEN r.value = "" ELSE a \in Name /\ r.value \in had[a]

\* The cache may answer with a workspace that has had the name, the API with the one
\* that has it now.
LEMMA LookedOutcome ==
    ASSUME NEW a, NEW r \in Looked(a), a \in Name /\ api[a] # None => api[a] \in had[a]
    PROVE  /\ r.ok \in BOOLEAN
           /\ r.ok => Found(r, a)
           /\ ~r.ok => r.value # "no workspace in context"
           /\ Absent(r) /\ a \in Name => api[a] = None
<1>1. ASSUME NEW s, Outcome(s, a), r = Told(s, FALSE)
      PROVE  /\ r.ok \in BOOLEAN
             /\ r.ok => Found(r, a)
             /\ ~r.ok => r.value # "no workspace in context"
             /\ Absent(r) /\ a \in Name => api[a] = None
  <2>1. r.ok = s.ok /\ r.value = s.value /\ r.blank = FALSE BY <1>1 DEF Told
  <2> QED BY <1>1, <2>1 DEF Outcome, Found, Absent
<1>2. CASE r = Told(Fail("store error"), FALSE)
  <2>1. Outcome(Fail("store error"), a) BY Failing
  <2> QED BY <1>1, <1>2, <2>1
<1>3. CASE \E answer \in Answers(a) : r = Told(GetWorkspaceRecord(answer), answer \in Blanked)
  <2>1. PICK answer \in Answers(a) : r = Told(GetWorkspaceRecord(answer), answer \in Blanked)
    BY <1>3
  <2>2. CASE answer \in Blanked
    <3>1. GetWorkspaceRecord(answer) = Ok("") BY <2>2, BlankRead
    <3>2. r = Told(Ok(""), TRUE) BY <2>1, <2>2, <3>1
    <3>3. r.ok = TRUE /\ r.value = "" /\ r.blank = TRUE BY <3>2, Results DEF Told
    <3> QED BY <3>3 DEF Found, Absent
  <2>3. CASE answer \notin Blanked
    <3>1. Outcome(GetWorkspaceRecord(answer), a) BY <2>3, AnswerRead
    <3>2. (answer \in Blanked) = FALSE BY <2>3
    <3>3. r = Told(GetWorkspaceRecord(answer), FALSE) BY <2>1, <3>2
    <3> QED BY <1>1, <3>1, <3>3
  <2> QED BY <2>2, <2>3
<1>4. CASE \E u \in IF a \in Name THEN had[a] ELSE {} : r = Told(Ok(u), FALSE)
  <2>1. PICK u \in IF a \in Name THEN had[a] ELSE {} : r = Told(Ok(u), FALSE) BY <1>4
  <2>2. r.ok = TRUE /\ r.value = u /\ r.blank = FALSE BY <2>1, Results DEF Told
  <2>3. a \in Name /\ u \in had[a] BY <2>1
  <2> QED BY <2>2, <2>3 DEF Absent, Found
<1> QED BY <1>2, <1>3, <1>4 DEF Looked, Queried

-------------------------------------------------------------------------------
(* The inductive invariant *)

\* A request has a source, and the names an integer and a header stand for.
RequestInv ==
    pc # "idle" => req \in Request /\ (req.mode = "func" => req.slug # None)

TypeInv ==
    /\ api \in [Name -> UUID \cup {None}]
    /\ had \in [Name -> SUBSET UUID]
    /\ req \in Request \cup {None}
    /\ pc \in Location
    /\ ctx \in UUID \cup {None, ""}
    /\ pc = "idle" => req = None
    /\ pc \notin {"handler", "served"} => ctx = None
    /\ trouble \in BOOLEAN
    /\ vacant \subseteq Name
    /\ moves \in 0..MaxMoves

\* What a name leads to, it has led to; what leads nowhere is marked as vacant.
WorldInv ==
    /\ \A a \in Name : api[a] # None => api[a] \in had[a]
    /\ pc # "idle" => \A a \in Name : api[a] = None => a \in vacant

\* Where a request stands says which source came first.
RouteInv ==
    /\ pc \in {"id", "slug"} => First(req) = pc
    /\ pc \in {"host", "hostAgain", "domain"} => First(req) = "host"
    /\ pc = "query" => First(req) \in {"host", "query"}

HostVacant == {SlugIn[req.host], req.host} \subseteq vacant

\* How far the host has been given up.
HostInv ==
    /\ pc = "domain" => SlugIn[req.host] \in vacant
    /\ pc = "query" /\ First(req) = "host" /\ ~trouble => HostVacant

Named(u) == (First(req) = "id" => Fits(req.id)) => \E a \in Sources \cap Name : u \in had[a]
HostFirst(u) ==
    First(req) = "host" /\ ~trouble /\ u \notin had[SlugIn[req.host]] \cup had[req.host] => HostVacant

\* A result to serve a request by: the right workspace, or a blank.
Rightly(r) ==
    IF r.blank THEN r.value = ""
    ELSE r.value \in UUID /\ Named(r.value) /\ HostFirst(r.value)

ResultInv ==
    /\ pc = "resolved" => result.ok \in BOOLEAN /\ (result.ok => Rightly(result))
    /\ pc = "resolved" /\ req.mode = "func" /\ ~result.ok =>
          /\ result.value # "no workspace in context"
          /\ result.value = "workspace not found" => req.slug \in vacant
    /\ pc = "resolved" /\ ~result.ok /\ First(req) = "host" /\ ~trouble => HostVacant

\* What is served is what was found, and only a lenient scope serves nothing.
ServedInv ==
    /\ Handling /\ result.ok => ctx = result.value /\ Rightly(result)
    /\ Handling /\ ~result.ok =>
          /\ ctx = None /\ req.mode = "lenient"
          /\ First(req) = "host" /\ ~trouble => HostVacant

ScopeInv ==
    /\ TypeInv /\ RequestInv /\ WorldInv /\ RouteInv /\ HostInv
    /\ ResultInv /\ ServedInv /\ OutageIsNotAbsence

LEMMA Wrapped == ASSUME NEW n \in Nat, Fits(n) PROVE Wraps(n) = n
<1>1. MaxId \in Nat /\ n <= MaxId BY NumberAssumption DEF Fits
<1>2. (n + MaxId + 1) % (2 * (MaxId + 1)) = n + MaxId + 1
  <2> DEFINE x == n + MaxId + 1
             y == 2 * (MaxId + 1)
  <2>1. x \in Nat /\ y \in Nat /\ y > 0 /\ x < y BY <1>1
  <2> HIDE DEF x, y
  <2>2. x % y = x BY <2>1
  <2> QED BY <2>2 DEF x, y
<1> QED BY <1>1, <1>2 DEF Wraps

LEMMA FirstIs ==
    ASSUME NEW r \in Request
    PROVE  /\ First(r) \in {"id", "slug", "host", "query"}
           /\ First(r) = "id" <=> r.mode # "func" /\ r.id # None
           /\ First(r) = "slug" <=> r.mode = "func" \/ (r.id = None /\ r.slug # None)
           /\ First(r) = "host" =>
                 r.mode # "func" /\ r.id = None /\ r.slug = None /\ r.host \in Host
           /\ First(r) = "query" => r.mode # "func"
<1>1. r.host \in Host \cup {None} /\ r.slug \in Slug \cup {None} BY DEF Request
<1>2. CASE r.mode = "func" BY <1>2 DEF First
<1>3. CASE r.mode # "func" /\ r.id # None BY <1>3 DEF First
<1>4. CASE r.mode # "func" /\ r.id = None
  <2>1. First(r) = IF r.slug # None THEN "slug" ELSE IF r.host # None THEN "host" ELSE "query"
    BY <1>4 DEF First
  <2> QED BY <2>1, <1>1, <1>4
<1> QED BY <1>2, <1>3, <1>4

\* The names each source stands for.
LEMMA SourcesAre ==
    ASSUME req \in Request
    PROVE  /\ First(req) = "id" => Sources = {Id(req.id)}
           /\ First(req) = "slug" => Sources = {req.slug}
           /\ First(req) = "host" => SlugIn[req.host] \in Sources /\ req.host \in Sources
           /\ First(req) \in {"host", "query"} /\ req.query # None => req.query \in Sources
<1>1. CASE First(req) = "id" BY <1>1 DEF Sources
<1>2. CASE First(req) = "slug" BY <1>2 DEF Sources
<1>3. CASE First(req) \in {"host", "query"}
  <2>1. Sources = {SlugIn[h] : h \in {req.host} \ {None}} \cup ({req.host, req.query} \ {None})
    BY <1>3 DEF Sources
  <2>2. First(req) = "host" => req.host # None BY FirstIs, NoneAssumption DEF Name
  <2> QED BY <1>3, <2>1, <2>2
<1> QED BY <1>1, <1>2, <1>3, FirstIs

LEMMA NamesAre ==
    /\ Slug \subseteq Name /\ Host \subseteq Name
    /\ \A h \in Host : SlugIn[h] \in Slug /\ SlugIn[h] \in Name
BY NameAssumption DEF Name

-------------------------------------------------------------------------------
(* Every step preserves it *)

LEMMA Initial == Init => ScopeInv
<1> SUFFICES ASSUME Init PROVE ScopeInv OBVIOUS
<1> USE DEF Init
<1>1. api \in [Name -> UUID \cup {None}]
  <2>1. PICK owner \in [Slug \cup Host -> UUID \cup {None}] :
           api = [a \in Name |-> IF a \in Slug \cup Host THEN owner[a]
                                 ELSE CHOOSE u \in UUID : a = Id(IdOf[u])]
    OBVIOUS
  <2>2. ASSUME NEW a \in Name, a \notin Slug \cup Host
        PROVE  (CHOOSE u \in UUID : a = Id(IdOf[u])) \in UUID
    <3>1. \E u \in UUID : a = Id(IdOf[u]) BY <2>2 DEF Name
    <3> QED BY <3>1
  <2>3. \A a \in Slug \cup Host : owner[a] \in UUID \cup {None} BY <2>1
  <2> QED BY <2>1, <2>2, <2>3
<1>2. had \in [Name -> SUBSET UUID]
  <2>1. \A a \in Name : {api[a]} \ {None} \subseteq UUID BY <1>1
  <2> QED BY <2>1
<1>3. TypeInv
  <2>1. /\ req = None /\ pc = "idle" /\ ctx = None /\ trouble = FALSE
        /\ vacant = {} /\ moves = 0
    OBVIOUS
  <2>2. moves \in 0..MaxMoves BY <2>1, NumberAssumption
  <2> HIDE DEF Init
  <2> QED BY <1>1, <1>2, <2>1, <2>2 DEF TypeInv, Location
<1>4. WorldInv BY <1>1 DEF WorldInv
<1> QED BY <1>3, <1>4 DEF ScopeInv, RequestInv, RouteInv, HostInv, ResultInv, ServedInv,
                          Handling, OutageIsNotAbsence

\* What a lookup's result must satisfy where the request goes on.
LEMMA Stepped ==
    ASSUME ScopeInv, NEW r, NEW to \in {"resolved", "hostAgain", "domain", "query"}, Step(r, to),
           pc \in Location \ {"idle", "handler", "served"}, r.ok \in BOOLEAN,
           to = "resolved" /\ r.ok => Rightly(r),
           to = "resolved" /\ req.mode = "func" /\ ~r.ok =>
              /\ r.value # "no workspace in context"
              /\ r.value = "workspace not found" => req.slug \in vacant,
           to # "resolved" => First(req) = "host",
           to = "domain" => SlugIn[req.host] \in vacant,
           to = "query" /\ ~trouble /\ (r.ok \/ Absent(r)) => HostVacant,
           to = "resolved" /\ ~r.ok /\ First(req) = "host" /\ ~trouble => HostVacant
    PROVE  ScopeInv'
<1> USE DEF ScopeInv, Step, world
<1>1. /\ pc' = to /\ result' = r /\ trouble' = (trouble \/ ~(r.ok \/ Absent(r)))
      /\ UNCHANGED <<api, had, moves, req, ctx, count, vacant>>
  OBVIOUS
<1>2. TypeInv'
  <2>1. trouble \in BOOLEAN /\ trouble' \in BOOLEAN BY <1>1 DEF TypeInv
  <2>2. ctx = None BY DEF TypeInv
  <2> QED BY <1>1, <2>1, <2>2 DEF TypeInv, Location
<1>3. RequestInv' BY <1>1 DEF RequestInv
<1>4. WorldInv' BY <1>1 DEF WorldInv
<1>5. Sources' = Sources /\ First(req)' = First(req) BY <1>1 DEF Sources, First
<1>6. RouteInv' BY <1>1, <1>5 DEF RouteInv
<1>7. HostInv' BY <1>1, <1>5 DEF HostInv, HostVacant
<1>8. ASSUME r.ok, to = "resolved" PROVE Rightly(result)'
  <2>1. trouble' = trouble BY <1>1, <1>8 DEF TypeInv
  <2> QED BY <1>1, <1>5, <1>8, <2>1 DEF Rightly, Named, HostFirst, HostVacant
<1>9. ResultInv' BY <1>1, <1>5, <1>8 DEF ResultInv, HostVacant
<1>10. ServedInv' /\ OutageIsNotAbsence' BY <1>1 DEF ServedInv, OutageIsNotAbsence, Handling
<1> QED BY <1>2, <1>3, <1>4, <1>6, <1>7, <1>9, <1>10

\* A workspace found by a name that the request came with is the right one.
LEMMA FoundByName ==
    ASSUME ScopeInv, pc # "idle", NEW a \in Sources, NEW r, r.ok, a \in Name,
           Found(r, a), ~(First(req) = "host" /\ a \notin {SlugIn[req.host], req.host})
    PROVE  Rightly(r)
<1>1. had[a] \subseteq UUID BY DEF ScopeInv, TypeInv
<1> QED BY <1>1 DEF Found, Rightly, Named, HostFirst

\* The lookups of a name, in a state of the system.
LEMMA Lookups ==
    ASSUME ScopeInv, pc # "idle", NEW a
    PROVE  \A r \in Looked(a) \cup Queried(a) :
              /\ r.ok \in BOOLEAN
              /\ r.ok => Found(r, a)
              /\ ~r.ok => r.value # "no workspace in context"
              /\ Absent(r) /\ a \in Name => a \in vacant
<1>1. a \in Name /\ api[a] # None => api[a] \in had[a] BY DEF ScopeInv, WorldInv
<1>2. a \in Name /\ api[a] = None => a \in vacant BY DEF ScopeInv, WorldInv
<1>3. Queried(a) \subseteq Looked(a) BY DEF Looked
<1> QED BY <1>1, <1>2, <1>3, LookedOutcome

LEMMA ByIdStep == ASSUME ScopeInv, ById PROVE ScopeInv'
<1>1. pc = "id" /\ First(req) = "id" /\ req \in Request BY DEF ById, ScopeInv, RouteInv, RequestInv
<1>2. req.mode # "func" /\ req.id # None BY <1>1, FirstIs
<1>3. pc \in Location \ {"idle", "handler", "served"} BY <1>1 DEF Location
<1>4. req.id \in HeaderId \cup {Bogus} BY <1>1, <1>2 DEF Request
<1> DEFINE parsed == Told(parseInt64(req.id), FALSE)
<1>5. CASE req.id = Bogus
  <2>1. parsed.ok = FALSE BY <1>5, Results DEF parseInt64, Told
  <2>2. Step(parsed, "resolved") BY <2>1 DEF ById
  <2> HIDE DEF parsed
  <2> QED BY <2>1, <2>2, <1>1, <1>2, <1>3, Stepped
<1>6. CASE req.id # Bogus
  <2>1. req.id \in Nat BY <1>4, <1>6, NumberAssumption
  <2>2. parsed.ok = TRUE /\ parsed.value = Wraps(req.id) BY <1>6, Results DEF parseInt64, Told
  <2>3. PICK r \in Looked(Id(Wraps(req.id))) : Step(r, "resolved") BY <2>2 DEF ById
  <2> DEFINE a == Id(Wraps(req.id))
  <2>4. r.ok \in BOOLEAN /\ (r.ok => Found(r, a)) BY <1>1, <2>3, Lookups
  <2>5. ASSUME r.ok, ~r.blank PROVE Rightly(r)
    <3>0. a \in Name /\ r.value \in had[a] BY <2>4, <2>5 DEF Found
    <3>1. had[a] \subseteq UUID BY <3>0 DEF ScopeInv, TypeInv
    <3>2. Named(r.value)
      <4> SUFFICES ASSUME Fits(req.id) PROVE \E b \in Sources \cap Name : r.value \in had[b]
        BY <1>1 DEF Named
      <4>1. a = Id(req.id) BY <2>1, Wrapped
      <4>2. a \in Sources BY <4>1, <1>1, SourcesAre
      <4> QED BY <4>2, <3>0
    <3> QED BY <3>0, <3>1, <3>2, <2>5, <1>1 DEF Rightly, HostFirst
  <2>6. r.ok => Rightly(r) BY <2>4, <2>5 DEF Found, Rightly
  <2> QED BY <2>3, <2>4, <2>6, <1>1, <1>2, <1>3, Stepped
<1> QED BY <1>5, <1>6

LEMMA BySlugStep == ASSUME ScopeInv, BySlug PROVE ScopeInv'
<1>1. pc = "slug" /\ First(req) = "slug" /\ req \in Request /\ (req.mode = "func" => req.slug # None)
  BY DEF BySlug, ScopeInv, RouteInv, RequestInv
<1>2. req.slug # None BY <1>1, FirstIs
<1>3. req.slug \in Name BY <1>1, <1>2, NamesAre DEF Request
<1>4. pc \in Location \ {"idle", "handler", "served"} BY <1>1 DEF Location
<1>5. PICK r \in Looked(req.slug) : Step(r, "resolved") BY DEF BySlug
<1>6. /\ r.ok \in BOOLEAN /\ (r.ok => Found(r, req.slug))
      /\ ~r.ok => r.value # "no workspace in context"
      /\ Absent(r) => req.slug \in vacant
  BY <1>1, <1>3, <1>5, Lookups
<1>7. r.ok => Rightly(r) BY <1>1, <1>3, <1>6, SourcesAre, FoundByName
<1>8. ~r.ok /\ r.value = "workspace not found" => req.slug \in vacant BY <1>6 DEF Absent
<1> QED BY <1>1, <1>4, <1>5, <1>6, <1>7, <1>8, Stepped

\* The names of a request that goes by its host.
LEMMA HostNames ==
    ASSUME ScopeInv, pc # "idle", First(req) = "host"
    PROVE  /\ req \in Request /\ req.mode # "func" /\ req.host \in Host
           /\ SlugIn[req.host] \in Sources \cap Name /\ req.host \in Sources \cap Name
<1>1. req \in Request BY DEF ScopeInv, RequestInv
<1> QED BY <1>1, FirstIs, SourcesAre, NamesAre

\* A workspace found by the host's slug or by its domain comes first.
LEMMA FoundByHost ==
    ASSUME ScopeInv, pc # "idle", First(req) = "host", NEW a \in {SlugIn[req.host], req.host},
           NEW r, Found(r, a)
    PROVE  Rightly(r)
<1>1. a \in Sources \cap Name BY HostNames
<1>2. had[a] \subseteq UUID BY <1>1 DEF ScopeInv, TypeInv
<1> QED BY <1>1, <1>2 DEF Found, Rightly, Named, HostFirst

LEMMA ByHostStep == ASSUME ScopeInv, ByHost PROVE ScopeInv'
<1>1. pc = "host" /\ First(req) = "host" BY DEF ByHost, ScopeInv, RouteInv
<1>2. pc \in Location \ {"idle", "handler", "served"} BY <1>1 DEF Location
<1> DEFINE a == SlugIn[req.host]
<1>3. PICK r \in Looked(a) : Step(r, IF r.ok THEN "resolved" ELSE "hostAgain") BY DEF ByHost
<1>4. r.ok \in BOOLEAN /\ (r.ok => Found(r, a)) BY <1>1, <1>3, Lookups
<1>5. r.ok => Rightly(r) BY <1>1, <1>4, FoundByHost
<1>6. CASE r.ok BY <1>1, <1>2, <1>3, <1>5, <1>6, <1>4, Stepped
<1>7. CASE ~r.ok
  <2>1. Step(r, "hostAgain") BY <1>3, <1>7
  <2> QED BY <1>1, <1>2, <1>4, <1>7, <2>1, Stepped
<1> QED BY <1>6, <1>7

LEMMA ByHostAgainStep == ASSUME ScopeInv, ByHostAgain PROVE ScopeInv'
<1>1. pc = "hostAgain" /\ First(req) = "host" BY DEF ByHostAgain, ScopeInv, RouteInv
<1>2. pc \in Location \ {"idle", "handler", "served"} BY <1>1 DEF Location
<1> DEFINE a == SlugIn[req.host]
<1>3. PICK r \in Queried(a) : Step(r, CASE r.ok      -> "resolved"
                                       [] Absent(r) -> "domain"
                                       [] OTHER     -> "query")
  BY DEF ByHostAgain
<1>4. /\ r.ok \in BOOLEAN /\ (r.ok => Found(r, a))
      /\ Absent(r) => a \in vacant
  BY <1>1, <1>3, Lookups, HostNames
<1>5. r.ok => Rightly(r) BY <1>1, <1>4, FoundByHost
<1>6. CASE r.ok
  <2>1. Step(r, "resolved") BY <1>3, <1>6 DEF Absent
  <2> QED BY <1>1, <1>2, <1>4, <1>5, <1>6, <2>1, HostNames, Stepped
<1>7. CASE ~r.ok /\ Absent(r)
  <2>1. Step(r, "domain") BY <1>3, <1>7
  <2> QED BY <1>1, <1>2, <1>4, <1>7, <2>1, Stepped
<1>8. CASE ~r.ok /\ ~Absent(r)
  <2>1. Step(r, "query") BY <1>3, <1>8
  <2> QED BY <1>1, <1>2, <1>4, <1>8, <2>1, Stepped
<1> QED BY <1>6, <1>7, <1>8

LEMMA ByDomainStep == ASSUME ScopeInv, ByDomain PROVE ScopeInv'
<1>1. pc = "domain" /\ First(req) = "host" /\ SlugIn[req.host] \in vacant
  BY DEF ByDomain, ScopeInv, RouteInv, HostInv
<1>2. pc \in Location \ {"idle", "handler", "served"} BY <1>1 DEF Location
<1>3. PICK r \in Queried(req.host) : Step(r, IF r.ok THEN "resolved" ELSE "query") BY DEF ByDomain
<1>4. /\ r.ok \in BOOLEAN /\ (r.ok => Found(r, req.host))
      /\ Absent(r) => req.host \in vacant
  BY <1>1, <1>3, Lookups, HostNames
<1>5. r.ok => Rightly(r) BY <1>1, <1>4, FoundByHost
<1>6. CASE r.ok
  <2>1. Step(r, "resolved") BY <1>3, <1>6 DEF Absent
  <2> QED BY <1>1, <1>2, <1>4, <1>5, <1>6, <2>1, HostNames, Stepped
<1>7. CASE ~r.ok
  <2>1. Step(r, "query") BY <1>3, <1>7
  <2>2. Absent(r) => HostVacant BY <1>1, <1>4 DEF HostVacant
  <2> QED BY <1>1, <1>2, <1>4, <1>7, <2>1, <2>2, Stepped
<1> QED BY <1>6, <1>7

LEMMA ByQueryStep == ASSUME ScopeInv, ByQuery PROVE ScopeInv'
<1>1. pc = "query" /\ First(req) \in {"host", "query"} /\ req \in Request
  BY DEF ByQuery, ScopeInv, RouteInv, RequestInv
<1>2. pc \in Location \ {"idle", "handler", "served"} BY <1>1 DEF Location
<1>3. req.mode # "func" BY <1>1, FirstIs
<1>4. First(req) = "host" /\ ~trouble => HostVacant BY <1>1 DEF ScopeInv, HostInv
<1>5. CASE req.query # None
  <2>1. PICK r \in Looked(req.query) : Step(r, "resolved") BY <1>5 DEF ByQuery
  <2>2. req.query \in Name /\ req.query \in Sources
    BY <1>1, <1>5, NamesAre, SourcesAre DEF Request
  <2>3. r.ok \in BOOLEAN /\ (r.ok => Found(r, req.query)) BY <1>1, <2>1, <2>2, Lookups
  <2>4. ASSUME r.ok PROVE Rightly(r)
    <3>1. had[req.query] \subseteq UUID BY <2>2 DEF ScopeInv, TypeInv
    <3> QED BY <2>2, <2>3, <2>4, <3>1, <1>4 DEF Found, Rightly, Named, HostFirst
  <2> QED BY <1>1, <1>2, <1>3, <1>4, <2>1, <2>3, <2>4, Stepped
<1>6. CASE req.query = None
  <2>1. /\ result' = Told(Fail("no workspace in context"), FALSE) /\ pc' = "resolved"
        /\ UNCHANGED <<api, had, moves, req, ctx, count, trouble, vacant>>
    BY <1>6 DEF ByQuery, world
  <2>2. result'.ok = FALSE BY <2>1, Results DEF Told
  <2>3. TypeInv' BY <1>1, <2>1 DEF ScopeInv, TypeInv, Location
  <2>4. RequestInv' /\ WorldInv' BY <1>1, <2>1 DEF ScopeInv, RequestInv, WorldInv
  <2>5. RouteInv' /\ HostInv' BY <2>1 DEF RouteInv, HostInv
  <2>6. First(req)' = First(req) BY <2>1 DEF First
  <2>7. ResultInv' BY <1>3, <1>4, <2>1, <2>2, <2>6 DEF ResultInv, HostVacant
  <2>8. ServedInv' /\ OutageIsNotAbsence' BY <2>1 DEF ServedInv, OutageIsNotAbsence, Handling
  <2> QED BY <2>3, <2>4, <2>5, <2>7, <2>8 DEF ScopeInv
<1> QED BY <1>5, <1>6

LEMMA InjectStep == ASSUME ScopeInv, Inject PROVE ScopeInv'
<1>1. /\ pc = "resolved" /\ UNCHANGED <<api, had, moves, req, count, trouble, vacant>>
      /\ req \in Request /\ result.ok \in BOOLEAN /\ ctx = None
  BY DEF Inject, world, ScopeInv, RequestInv, ResultInv, TypeInv
<1>2. Sources' = Sources /\ First(req)' = First(req) BY <1>1 DEF Sources, First
<1>3. CASE result.ok
  <2>1. pc' = "handler" /\ ctx' = result.value /\ result' = result BY <1>3 DEF Inject, Absent
  <2>2. Rightly(result) BY <1>1, <1>3 DEF ScopeInv, ResultInv
  <2>3. Rightly(result)' BY <1>1, <1>2, <2>1, <2>2 DEF Rightly, Named, HostFirst, HostVacant
  <2>4. ctx' \in UUID \cup {""} BY <2>1, <2>2 DEF Rightly
  <2>5. TypeInv' BY <1>1, <2>1, <2>4 DEF ScopeInv, TypeInv, Location
  <2>6. RequestInv' /\ WorldInv' BY <1>1, <2>1 DEF ScopeInv, RequestInv, WorldInv
  <2>7. RouteInv' /\ HostInv' /\ ResultInv' /\ OutageIsNotAbsence'
    BY <2>1 DEF RouteInv, HostInv, ResultInv, OutageIsNotAbsence
  <2>8. ServedInv' BY <1>3, <2>1, <2>3 DEF ServedInv
  <2> QED BY <2>5, <2>6, <2>7, <2>8 DEF ScopeInv
<1>4. CASE ~result.ok
  <2>1. /\ pc' = IF req.mode = "lenient" THEN "handler" ELSE "refused"
        /\ ctx' = None
    BY <1>1, <1>4 DEF Inject
  <2>2. TypeInv' BY <1>1, <2>1 DEF ScopeInv, TypeInv, Location
  <2>3. RequestInv' /\ WorldInv' BY <1>1, <2>1 DEF ScopeInv, RequestInv, WorldInv
  <2>4. RouteInv' /\ HostInv' /\ ResultInv' BY <2>1 DEF RouteInv, HostInv, ResultInv
  <2>5. ServedInv'
    <3>1. First(req) = "host" /\ ~trouble => HostVacant BY <1>1, <1>4 DEF ScopeInv, ResultInv
    <3>2. req.mode = "lenient" => result' = result BY DEF Inject
    <3> QED BY <1>1, <1>2, <1>4, <2>1, <3>1, <3>2 DEF ServedInv, Handling, HostVacant
  <2>6. OutageIsNotAbsence'
    <3> SUFFICES ASSUME req.mode = "func", result'.value = "no workspace in context"
                 PROVE  req.slug \in vacant
      BY <1>1 DEF OutageIsNotAbsence
    <3>1. /\ result.value # "no workspace in context"
          /\ result.value = "workspace not found" => req.slug \in vacant
      BY <1>1, <1>4 DEF ScopeInv, ResultInv
    <3>2. Absent(result) BY <3>1 DEF Inject
    <3> QED BY <3>1, <3>2 DEF Absent
  <2> QED BY <2>2, <2>3, <2>4, <2>5, <2>6 DEF ScopeInv
<1> QED BY <1>1, <1>3, <1>4

LEMMA HandleStep == ASSUME ScopeInv, Handle PROVE ScopeInv'
<1>1. /\ pc = "handler" /\ pc' = "served"
      /\ UNCHANGED <<api, had, moves, req, result, ctx, trouble, vacant>>
  BY DEF Handle, world
<1>2. Sources' = Sources /\ First(req)' = First(req) BY <1>1 DEF Sources, First
<1>3. TypeInv' BY <1>1 DEF ScopeInv, TypeInv, Location
<1>4. RequestInv' /\ WorldInv' BY <1>1 DEF ScopeInv, RequestInv, WorldInv
<1>5. RouteInv' /\ HostInv' /\ ResultInv' /\ OutageIsNotAbsence'
  BY <1>1 DEF RouteInv, HostInv, ResultInv, OutageIsNotAbsence
<1>6. ServedInv'
  BY <1>1, <1>2 DEF ScopeInv, ServedInv, Handling, Rightly, Named, HostFirst, HostVacant
<1> QED BY <1>3, <1>4, <1>5, <1>6 DEF ScopeInv

LEMMA ReplyStep == ASSUME ScopeInv, Reply PROVE ScopeInv'
<1>1. /\ pc' = "idle" /\ req' = None /\ ctx' = None /\ trouble' = FALSE /\ vacant' = {}
      /\ UNCHANGED <<api, had, moves>>
  BY DEF Reply, world
<1>2. TypeInv' BY <1>1 DEF ScopeInv, TypeInv, Location
<1>3. WorldInv' BY <1>1 DEF ScopeInv, WorldInv
<1> QED BY <1>1, <1>2, <1>3 DEF ScopeInv, RequestInv, RouteInv, HostInv, ResultInv, ServedInv,
                               Handling, OutageIsNotAbsence

LEMMA ArriveStep == ASSUME ScopeInv, Arrive PROVE ScopeInv'
<1>1. /\ pc = "idle" /\ req' \in Request /\ (req'.mode = "func" => req'.slug # None)
      /\ pc' = First(req') /\ vacant' = Vacant
      /\ UNCHANGED <<api, had, moves, result, ctx, count, trouble>>
  BY DEF Arrive, world
<1>2. pc' \in {"id", "slug", "host", "query"} BY <1>1, FirstIs
<1>3. ctx = None BY <1>1 DEF ScopeInv, TypeInv
<1>4. Vacant \subseteq Name BY DEF Vacant
<1>5. TypeInv' BY <1>1, <1>2, <1>3, <1>4 DEF ScopeInv, TypeInv, Location
<1>6. RequestInv' BY <1>1 DEF RequestInv
<1>7. WorldInv' BY <1>1 DEF ScopeInv, WorldInv, Vacant
<1>8. RouteInv' BY <1>1, <1>2 DEF RouteInv
<1>9. HostInv' BY <1>1, <1>2 DEF HostInv
<1>10. ResultInv' /\ ServedInv' /\ OutageIsNotAbsence'
  BY <1>2 DEF ResultInv, ServedInv, OutageIsNotAbsence, Handling
<1> QED BY <1>5, <1>6, <1>7, <1>8, <1>9, <1>10 DEF ScopeInv

LEMMA MoveStep == ASSUME ScopeInv, Move PROVE ScopeInv'
<1>1. PICK a \in Slug \cup Host, u \in UUID \cup {None} :
         /\ api' = [api EXCEPT ![a] = u]
         /\ had' = [had EXCEPT ![a] = @ \cup ({u} \ {None})]
         /\ vacant' = IF u = None THEN vacant \cup {a} ELSE vacant
  BY DEF Move
<1>2. /\ moves < MaxMoves /\ moves' = moves + 1
      /\ UNCHANGED <<req, pc, result, ctx, count, trouble>>
  BY DEF Move
<1>3. a \in Name BY NamesAre
<1>4. had \in [Name -> SUBSET UUID] /\ api \in [Name -> UUID \cup {None}] BY DEF ScopeInv, TypeInv
<1>5. \A b \in Name : had[b] \subseteq had'[b] BY <1>1, <1>3, <1>4
<1>6. vacant \subseteq vacant' BY <1>1
<1>7. TypeInv'
  <2>1. api' \in [Name -> UUID \cup {None}] BY <1>1, <1>3, <1>4
  <2>2. had' \in [Name -> SUBSET UUID] BY <1>1, <1>3, <1>4
  <2>3. vacant' \subseteq Name BY <1>1, <1>3 DEF ScopeInv, TypeInv
  <2>4. moves' \in 0..MaxMoves
    <3>1. moves \in 0..MaxMoves BY DEF ScopeInv, TypeInv
    <3>2. MaxMoves \in Nat BY NumberAssumption
    <3> QED BY <1>2, <3>1, <3>2
  <2> QED BY <1>2, <2>1, <2>2, <2>3, <2>4 DEF ScopeInv, TypeInv
<1>8. RequestInv' BY <1>2 DEF ScopeInv, RequestInv
<1>9. WorldInv' BY <1>1, <1>2, <1>3, <1>4 DEF ScopeInv, WorldInv
<1>10. Sources' = Sources /\ First(req)' = First(req) BY <1>2 DEF Sources, First
<1>11. RouteInv' BY <1>2, <1>10 DEF ScopeInv, RouteInv
<1>12. HostInv' BY <1>2, <1>6, <1>10 DEF ScopeInv, HostInv, HostVacant
<1>13. ASSUME pc # "idle", Rightly(result) PROVE Rightly(result)'
  <2> DEFINE v == result.value
  <2> SUFFICES ASSUME ~result.blank PROVE v \in UUID /\ Named(v)' /\ HostFirst(v)'
    BY <1>2, <1>13 DEF Rightly
  <2>0. v \in UUID /\ Named(v) /\ HostFirst(v) BY <1>13 DEF Rightly
  <2>v. v' = v BY <1>2
  <2> HIDE DEF v
  <2>1. Named(v)' BY <1>2, <1>5, <1>10, <2>0, <2>v DEF Named
  <2>2. HostFirst(v)'
    <3> SUFFICES ASSUME First(req) = "host", ~trouble, v \notin had'[SlugIn[req.host]] \cup had'[req.host]
                 PROVE  HostVacant'
      BY <1>2, <1>10, <2>v DEF HostFirst
    <3>1. SlugIn[req.host] \in Name /\ req.host \in Name BY <1>13, HostNames
    <3>2. v \notin had[SlugIn[req.host]] \cup had[req.host] BY <1>5, <3>1
    <3>3. HostVacant BY <2>0, <3>2 DEF HostFirst
    <3> QED BY <1>2, <1>6, <3>3 DEF HostVacant
  <2> QED BY <2>0, <2>1, <2>2
<1>14. ResultInv'
  <2>1. pc = "resolved" /\ result.ok => Rightly(result)' BY <1>2, <1>13 DEF ScopeInv, ResultInv
  <2> QED BY <1>2, <1>6, <1>10, <2>1 DEF ScopeInv, ResultInv, HostVacant
<1>15. ServedInv'
  <2>1. Handling /\ result.ok => Rightly(result)' BY <1>2, <1>13 DEF ScopeInv, ServedInv, Handling
  <2> QED BY <1>2, <1>6, <1>10, <2>1 DEF ScopeInv, ServedInv, Handling, HostVacant
<1>16. OutageIsNotAbsence' BY <1>2, <1>6 DEF ScopeInv, OutageIsNotAbsence
<1> QED BY <1>7, <1>8, <1>9, <1>11, <1>12, <1>14, <1>15, <1>16 DEF ScopeInv

LEMMA Kept == ASSUME ScopeInv, [Next]_vars PROVE ScopeInv'
<1>1. CASE UNCHANGED vars
  <2>1. UNCHANGED <<api, had, req, pc, result, ctx, count, trouble, vacant, moves>> BY <1>1 DEF vars
  <2>2. Sources' = Sources /\ First(req)' = First(req) BY <2>1 DEF Sources, First
  <2>3. TypeInv' /\ RequestInv' /\ WorldInv' BY <2>1 DEF ScopeInv, TypeInv, RequestInv, WorldInv
  <2>4. RouteInv' /\ HostInv' BY <2>1, <2>2 DEF ScopeInv, RouteInv, HostInv, HostVacant
  <2>5. ASSUME Rightly(result) PROVE Rightly(result)'
    BY <2>1, <2>2, <2>5 DEF Rightly, Named, HostFirst, HostVacant
  <2>6. ResultInv'
    <3>1. pc = "resolved" /\ result.ok => Rightly(result)' BY <2>1, <2>5 DEF ScopeInv, ResultInv
    <3> QED BY <2>1, <2>2, <3>1 DEF ScopeInv, ResultInv, HostVacant
  <2>7. ServedInv'
    <3>1. Handling /\ result.ok => Rightly(result)' BY <2>1, <2>5 DEF ScopeInv, ServedInv
    <3> QED BY <2>1, <2>2, <3>1 DEF ScopeInv, ServedInv, Handling, HostVacant
  <2>8. OutageIsNotAbsence' BY <2>1 DEF ScopeInv, OutageIsNotAbsence
  <2> QED BY <2>3, <2>4, <2>6, <2>7, <2>8 DEF ScopeInv
<1>2. CASE Next
  BY <1>2, MoveStep, ArriveStep, ByIdStep, BySlugStep, ByHostStep, ByHostAgainStep, ByDomainStep,
     ByQueryStep, InjectStep, HandleStep, ReplyStep DEF Next
<1> QED BY <1>1, <1>2

LEMMA ScopeInvariant == Spec => []ScopeInv
BY Initial, Kept, PTL DEF Spec

-------------------------------------------------------------------------------
(* Theorems *)

\* The variables keep their types: nothing else ever stands in the context, and
\* there is no workspace in it between two requests.
THEOREM TypeCorrect == Spec => []TypeOK
<1>1. ScopeInv => TypeOK BY DEF ScopeInv, TypeInv, TypeOK
<1> QED BY <1>1, ScopeInvariant, PTL

\* A request is served as a workspace that has had the name it came with, however
\* names move and lookups fail under way: scope.go:111.
THEOREM ScopedByName == Spec => []ServedAsNamed
<1>1. ScopeInv => ServedAsNamed
  BY BlankAssumption, NoneAssumption
     DEF ScopeInv, ServedInv, Rightly, Named, ServedAsNamed
<1> QED BY <1>1, ScopeInvariant, PTL

\* Behind a strict scope, RequireWorkspace or ScopeFunc nothing runs without a
\* workspace unless a blank answer passed for one, whatever else is refused, fails or
\* is missing: scope.go:37, 68 and 85.
THEOREM ScopedAlways == Spec => []UnscopedOnlyByBlank
<1>1. ScopeInv => UnscopedOnlyByBlank
  BY DEF ScopeInv, ServedInv, Rightly, UnscopedOnlyByBlank
<1> QED BY <1>1, ScopeInvariant, PTL

\* The host goes before the query unless it leads nowhere, something failed or a
\* blank answer passed for a workspace: scope.go:124.
THEOREM HostGoesFirst == Spec => []HostBeatsQuery
<1>1. ScopeInv => HostBeatsQuery
  <2> SUFFICES ASSUME ScopeInv, Handling, First(req) = "host", ~trouble,
                      ~result.blank, ctx \notin had[SlugIn[req.host]] \cup had[req.host]
               PROVE  HostVacant
    BY DEF HostBeatsQuery, HostVacant
  <2>1. CASE result.ok BY <2>1 DEF ScopeInv, ServedInv, Rightly, HostFirst
  <2>2. CASE ~result.ok BY <2>2 DEF ScopeInv, ServedInv
  <2> QED BY <2>1, <2>2
<1> QED BY <1>1, ScopeInvariant, PTL

\* ScopeFunc tells absence from failure: scope.go:98 and client.go:113.
THEOREM AbsenceIsReal == Spec => []OutageIsNotAbsence
<1>1. ScopeInv => OutageIsNotAbsence BY DEF ScopeInv
<1> QED BY <1>1, ScopeInvariant, PTL

-------------------------------------------------------------------------------
(* The count *)

(* decodeCount follows "data" until it comes to a body it can answer for.  The *)
(* equation that defines it has a solution without any induction: what can be  *)
(* reached from a body and is not left again is the same for the body nested   *)
(* in it.                                                                      *)
Closed(C) == \A x \in C : Onward(x) => x.at["data"] \in C
Reach(b) == {x \in Body : \A C \in SUBSET Body : b \in C /\ Closed(C) => x \in C}
Ends(b) == {x \in Reach(b) : ~Onward(x)}

LEMMA EndsHere == ASSUME NEW b \in Body, ~Onward(b) PROVE Ends(b) = {b}
<1>1. Closed({b}) /\ {b} \in SUBSET Body BY DEF Closed
<1>2. b \in Reach(b) BY DEF Reach
<1>3. \A x \in Reach(b) : x = b BY <1>1 DEF Reach
<1> QED BY <1>2, <1>3 DEF Ends

LEMMA EndsFurtherOn ==
    ASSUME NEW b \in Body, Onward(b)
    PROVE  b.at["data"] \in Body /\ Ends(b) = Ends(b.at["data"])
<1> DEFINE c == b.at["data"]
<1>1. c \in Body BY BodyAssumption DEF Onward, Nested
<1>2. ASSUME NEW C \in SUBSET Body, b \in C, Closed(C) PROVE c \in C BY <1>2 DEF Closed
<1>3. ASSUME NEW C \in SUBSET Body, c \in C, Closed(C)
      PROVE  C \cup {b} \in SUBSET Body /\ Closed(C \cup {b})
  BY <1>3 DEF Closed
<1> HIDE DEF c
<1>4. ASSUME NEW x \in Reach(c) PROVE x \in Reach(b) BY <1>2 DEF Reach
<1>5. ASSUME NEW x \in Reach(b), ~Onward(x) PROVE x \in Reach(c)
  <2> SUFFICES ASSUME NEW C \in SUBSET Body, c \in C, Closed(C) PROVE x \in C BY DEF Reach
  <2>1. x \in C \cup {b} BY <1>3 DEF Reach
  <2>2. x # b BY <1>5
  <2> QED BY <2>1, <2>2
<1> QED BY <1>1, <1>4, <1>5 DEF Ends, c

LEMMA DecodeCount ==
    ASSUME NEW b \in Body
    PROVE  decodeCount[b] = IF Onward(b) THEN decodeCount[b.at["data"]] ELSE CountHere(b)
<1> DEFINE Solves(g) ==
               g = [x \in Body |-> IF Onward(x) THEN g[x.at["data"]] ELSE CountHere(x)]
           f == [x \in Body |-> IF Ends(x) = {} THEN None
                                ELSE CountHere(CHOOSE y \in Ends(x) : TRUE)]
<1>1. ASSUME NEW x \in Body PROVE f[x] = IF Onward(x) THEN f[x.at["data"]] ELSE CountHere(x)
  <2>1. CASE Onward(x) BY <2>1, EndsFurtherOn
  <2>2. CASE ~Onward(x)
    <3>1. Ends(x) = {x} BY <2>2, EndsHere
    <3>2. (CHOOSE y \in {x} : TRUE) = x OBVIOUS
    <3> QED BY <2>2, <3>1, <3>2
  <2> QED BY <2>1, <2>2
<1>2. f = [x \in Body |-> f[x]] OBVIOUS
<1> HIDE DEF f
<1>3. Solves(f) BY <1>1, <1>2
<1>4. decodeCount = CHOOSE g : Solves(g) BY DEF decodeCount
<1>5. Solves(decodeCount)
  <2> HIDE DEF Solves
  <2>1. Solves(CHOOSE g : Solves(g)) BY <1>3, Zenon
  <2> QED BY <1>4, <2>1
<1> HIDE DEF f
<1> QED BY <1>5

\* Only an object is an envelope.
LEMMA EnvelopeIs == ASSUME NEW b, b.kind # "object" PROVE ~looksLikeEnvelope(b) /\ ~Onward(b)
BY DEF looksLikeEnvelope, Has, Onward

LEMMA IntFields ==
    ASSUME NEW b, NEW fields, b = Object(fields), NEW field, NEW n
    PROVE  /\ field \notin DOMAIN fields => intField(b, field) = None
           /\ field \in DOMAIN fields /\ fields[field] \in {Number(n), Digits(n)}
                => intField(b, field) = n
<1>1. /\ b.kind = "object" /\ b.at = fields
      /\ Has(b, field) <=> field \in DOMAIN fields
  BY Fields
<1>2. Number(n).kind = "number" /\ Number(n).number = n BY DEF Number
<1>3. Digits(n).kind = "digits" /\ Digits(n).digits = n BY DEF Digits
<1> QED BY <1>1, <1>2, <1>3 DEF intField

LEMMA CountFieldIs ==
    ASSUME NEW b
    PROVE  CountField(b) = IF intField(b, "count") # None THEN intField(b, "count")
                           ELSE IF intField(b, "usage") # None THEN intField(b, "usage")
                           ELSE intField(b, "value")
<1> DEFINE counts == {i \in 1..3 : intField(b, CountFields[i]) # None}
           first == CHOOSE i \in counts : \A j \in counts : i <= j
<1>1. CountFields[1] = "count" /\ CountFields[2] = "usage" /\ CountFields[3] = "value"
  BY DEF CountFields
<1>2. ASSUME NEW i \in counts, \A j \in counts : i <= j PROVE first = i
  <2>1. first \in counts /\ \A j \in counts : first <= j BY <1>2
  <2>2. counts \subseteq Int OBVIOUS
  <2> HIDE DEF counts, first
  <2> QED BY <1>2, <2>1, <2>2
<1>3. CountField(b) = IF counts = {} THEN None ELSE intField(b, CountFields[first]) BY DEF CountField
<1>4. CASE intField(b, "count") # None
  <2>1. 1 \in counts /\ \A j \in counts : 1 <= j BY <1>1, <1>4
  <2>2. first = 1 BY <2>1, <1>2
  <2> QED BY <1>1, <1>3, <1>4, <2>1, <2>2
<1>5. CASE intField(b, "count") = None /\ intField(b, "usage") # None
  <2>1. 2 \in counts /\ \A j \in counts : 2 <= j BY <1>1, <1>5
  <2>2. first = 2 BY <2>1, <1>2
  <2> QED BY <1>1, <1>3, <1>5, <2>1, <2>2
<1>6. CASE /\ intField(b, "count") = None /\ intField(b, "usage") = None
           /\ intField(b, "value") # None
  <2>1. 3 \in counts /\ \A j \in counts : 3 <= j BY <1>1, <1>6
  <2>2. first = 3 BY <2>1, <1>2
  <2> QED BY <1>1, <1>3, <1>6, <2>1, <2>2
<1>7. CASE /\ intField(b, "count") = None /\ intField(b, "usage") = None
           /\ intField(b, "value") = None
  <2>1. counts = {} BY <1>1, <1>7
  <2> QED BY <1>3, <1>7, <2>1
<1> QED BY <1>4, <1>5, <1>6, <1>7

LEMMA NotRefused ==
    ASSUME NEW b, NEW fields, b = Object(fields), "error" \notin DOMAIN fields PROVE ~Refused(b)
BY Fields DEF Refused, stringField

LEMMA NumberCounted ==
    ASSUME NEW n, Number(n) \in Body PROVE decodeCount[Number(n)] = Ok(n)
<1>1. Number(n).kind = "number" /\ Number(n).number = n BY DEF Number
<1>2. ~Onward(Number(n)) /\ ~looksLikeEnvelope(Number(n)) BY <1>1, EnvelopeIs
<1>3. CountHere(Number(n)) = Ok(n) BY <1>1, <1>2 DEF CountHere
<1> QED BY <1>2, <1>3, DecodeCount

LEMMA CountFails ==
    ASSUME NEW b \in Body, ~Onward(b), NEW e, CountHere(b) = Fail(e)
    PROVE  decodeCount[b].ok = FALSE
<1>1. decodeCount[b] = Fail(e) BY DecodeCount
<1> QED BY <1>1, Results

LEMMA DigitsFail ==
    ASSUME NEW n, Digits(n) \in Body PROVE decodeCount[Digits(n)].ok = FALSE
<1>1. Digits(n).kind = "digits" BY DEF Digits
<1>2. ~Onward(Digits(n)) /\ ~looksLikeEnvelope(Digits(n)) BY <1>1, EnvelopeIs
<1>3. CountHere(Digits(n)) = Fail("invalid count payload") BY <1>1, <1>2 DEF CountHere
<1> QED BY <1>2, <1>3, CountFails

\* A field's count is the body's, before anything nested is looked at.
LEMMA FieldCounted ==
    ASSUME NEW b \in Body, b.kind = "object", looksLikeEnvelope(b), ~Refused(b),
           NEW n, n # None, CountField(b) = n
    PROVE  decodeCount[b] = Ok(n)
<1>1. ~Onward(b) BY DEF Onward
<1>2. CountHere(b) = Ok(n) BY DEF CountHere
<1> QED BY <1>1, <1>2, DecodeCount

LEMMA NestedCounted ==
    ASSUME NEW b \in Body, NEW fields, b = Object(fields), DOMAIN fields = {"data"},
           fields["data"].kind # "null"
    PROVE  fields["data"] \in Body /\ decodeCount[b] = decodeCount[fields["data"]]
<1>1. b.kind = "object" /\ b.at = fields /\ Has(b, "data") BY Fields
<1>2. fields["data"] \in Body BY <1>1, BodyAssumption
<1>3. intField(b, "count") = None /\ intField(b, "usage") = None /\ intField(b, "value") = None
  BY IntFields
<1>4. CountField(b) = None BY <1>3, CountFieldIs
<1>5. ~Refused(b) BY NotRefused
<1>6. Onward(b) BY <1>1, <1>4, <1>5 DEF Onward, looksLikeEnvelope, Nested
<1> QED BY <1>1, <1>2, <1>6, DecodeCount

\* What is decoded from the API's count of a workspace is that count, if it is
\* decoded at all.
LEMMA CountDecoded ==
    ASSUME NEW n \in Int, NEW b \in Counts(n), b \in Body
    PROVE  decodeCount[b].ok => decodeCount[b].value = n
<1> DEFINE Own(x) == decodeCount[x].ok => decodeCount[x].value = n
<1> SUFFICES Own(b) OBVIOUS
<1>0. n # None BY NoneAssumption
<1>a. ASSUME decodeCount[b] = Ok(n) PROVE Own(b) BY <1>a, Results
<1>c. ASSUME decodeCount[b].ok = FALSE PROVE Own(b) BY <1>c
<1> HIDE DEF Own
<1>b. ASSUME NEW fields, b = Object(fields), "error" \notin DOMAIN fields, "ok" \in DOMAIN fields,
             \/ "count" \in DOMAIN fields /\ fields["count"] \in {Number(n), Digits(n)}
             \/ /\ "count" \notin DOMAIN fields
                /\ "usage" \in DOMAIN fields /\ fields["usage"] \in {Number(n), Digits(n)}
      PROVE  Own(b)
  <2>1. b.kind = "object" /\ Has(b, "ok") BY <1>b, Fields
  <2>2. looksLikeEnvelope(b) BY <2>1 DEF looksLikeEnvelope
  <2>3. ~Refused(b) BY <1>b, NotRefused
  <2>4. intField(b, "count") = n \/ (intField(b, "count") = None /\ intField(b, "usage") = n)
    BY <1>b, IntFields
  <2>5. CountField(b) = n BY <1>0, <2>4, CountFieldIs
  <2> QED BY <1>0, <1>a, <2>1, <2>2, <2>3, <2>5, FieldCounted
<1>1. CASE b = Number(n) BY <1>1, <1>a, NumberCounted
<1>2. CASE b = Object([ok |-> Bool(TRUE), count |-> Number(n)])
  <2> DEFINE fields == [ok |-> Bool(TRUE), count |-> Number(n)]
  <2>1. DOMAIN fields = {"ok", "count"} /\ fields["count"] = Number(n) OBVIOUS
  <2> HIDE DEF fields
  <2>2. b = Object(fields) BY <1>2 DEF fields
  <2>3. /\ "error" \notin DOMAIN fields /\ "ok" \in DOMAIN fields
        /\ "count" \in DOMAIN fields /\ fields["count"] \in {Number(n), Digits(n)}
    BY <2>1
  <2> QED BY <2>2, <2>3, <1>b
<1>3. CASE b = Object([ok |-> Bool(TRUE), usage |-> Digits(n), value |-> Number(0)])
  <2> DEFINE fields == [ok |-> Bool(TRUE), usage |-> Digits(n), value |-> Number(0)]
  <2>1. DOMAIN fields = {"ok", "usage", "value"} /\ fields["usage"] = Digits(n) OBVIOUS
  <2> HIDE DEF fields
  <2>2. b = Object(fields) BY <1>3 DEF fields
  <2>3. /\ "error" \notin DOMAIN fields /\ "ok" \in DOMAIN fields
        /\ "count" \notin DOMAIN fields
        /\ "usage" \in DOMAIN fields /\ fields["usage"] \in {Number(n), Digits(n)}
    BY <2>1
  <2> QED BY <2>2, <2>3, <1>b
<1>4. CASE b = Object([data |-> Number(n)])
  <2> DEFINE fields == [data |-> Number(n)]
  <2>1. DOMAIN fields = {"data"} /\ fields["data"] = Number(n) OBVIOUS
  <2> HIDE DEF fields
  <2>2. b = Object(fields) BY <1>4 DEF fields
  <2>3. Number(n).kind # "null" BY DEF Number
  <2>4. Number(n) \in Body /\ decodeCount[b] = decodeCount[Number(n)]
    BY <2>1, <2>2, <2>3, NestedCounted
  <2> QED BY <2>4, <1>a, NumberCounted
<1>5. CASE b = Object([data |-> Digits(n)])
  <2> DEFINE fields == [data |-> Digits(n)]
  <2>1. DOMAIN fields = {"data"} /\ fields["data"] = Digits(n) OBVIOUS
  <2> HIDE DEF fields
  <2>2. b = Object(fields) BY <1>5 DEF fields
  <2>3. Digits(n).kind # "null" BY DEF Digits
  <2>4. Digits(n) \in Body /\ decodeCount[b] = decodeCount[Digits(n)]
    BY <2>1, <2>2, <2>3, NestedCounted
  <2>5. decodeCount[Digits(n)].ok = FALSE BY <2>4, DigitsFail
  <2> QED BY <2>4, <2>5, <1>c
<1>6. CASE b = Object([data |-> Object([ok |-> Bool(TRUE), value |-> Number(n)])])
  <2> DEFINE inner == [ok |-> Bool(TRUE), value |-> Number(n)]
             fields == [data |-> Object(inner)]
  <2>1. DOMAIN inner = {"ok", "value"} /\ inner["value"] = Number(n) OBVIOUS
  <2>2. DOMAIN fields = {"data"} /\ fields["data"] = Object(inner) OBVIOUS
  <2>3. b = Object(fields) BY <1>6
  <2> HIDE DEF fields, inner
  <2> DEFINE c == Object(inner)
  <2>4. c.kind = "object" /\ Has(c, "ok") BY <2>1, Fields
  <2>5. c \in Body /\ decodeCount[b] = decodeCount[c] BY <2>2, <2>3, <2>4, NestedCounted
  <2>6. looksLikeEnvelope(c) BY <2>4 DEF looksLikeEnvelope
  <2>7. ~Refused(c) BY <2>1, NotRefused
  <2>8. intField(c, "count") = None /\ intField(c, "usage") = None /\ intField(c, "value") = n
    BY <2>1, IntFields
  <2> HIDE DEF c
  <2>9. CountField(c) = n BY <2>8, CountFieldIs
  <2>10. decodeCount[c] = Ok(n) BY <1>0, <2>4, <2>5, <2>6, <2>7, <2>9, FieldCounted
  <2> QED BY <2>5, <2>10, <1>a
<1>7. CASE b = Object([count |-> Number(n)])
  <2> DEFINE fields == [count |-> Number(n)]
  <2>1. DOMAIN fields = {"count"} OBVIOUS
  <2>2. b = Object(fields) BY <1>7
  <2> HIDE DEF fields
  <2>3. b.kind = "object" /\ ~looksLikeEnvelope(b) BY <2>1, <2>2, Fields DEF looksLikeEnvelope
  <2>4. ~Onward(b) BY <2>3 DEF Onward
  <2>5. CountHere(b) = Fail("invalid count payload") BY <2>3 DEF CountHere
  <2>6. decodeCount[b].ok = FALSE BY <2>4, <2>5, CountFails
  <2> QED BY <2>6, <1>c
<1> QED BY <1>1, <1>2, <1>3, <1>4, <1>5, <1>6, <1>7 DEF Counts

\* No refusal and no stray body is taken for a count.
LEMMA NothingCounted ==
    ASSUME NEW b \in Refusals \cup {Empty, Junk}
    PROVE  b \in Body /\ ~decodeCount[b].ok
<1>1. b \in Body BY AnswerAssumption
<1>2. CASE b \in Refusals
  <2>1. b.kind = "object" /\ Refused(b) /\ looksLikeEnvelope(b) BY <1>2, RefusalIs DEF Refused
  <2>2. ~Onward(b) BY <2>1 DEF Onward
  <2>3. CountHere(b) = Fail("api error") BY <2>1 DEF CountHere
  <2> QED BY <1>1, <2>2, <2>3, CountFails
<1>3. CASE b = Empty
  <2>1. b.kind = "empty" BY <1>3 DEF Empty
  <2>2. ~Onward(b) /\ ~looksLikeEnvelope(b) BY <2>1, EnvelopeIs
  <2>3. CountHere(b) = Fail("EOF") BY <2>1, <2>2 DEF CountHere
  <2> QED BY <1>1, <2>2, <2>3, CountFails
<1>4. CASE b = Junk
  <2>1. b.kind = "junk" BY <1>4 DEF Junk
  <2>2. ~Onward(b) /\ ~looksLikeEnvelope(b) BY <2>1, EnvelopeIs
  <2>3. CountHere(b) = Fail("invalid count payload") BY <2>1, <2>2 DEF CountHere
  <2> QED BY <1>1, <2>2, <2>3, CountFails
<1> QED BY <1>1, <1>2, <1>3, <1>4

\* What is no body to decode has no count.
LEMMA UsageFails ==
    ASSUME NEW answer, NEW e, request(answer, "workspaces") = Fail(e)
    PROVE  ~GetCurrentUsage(answer).ok
<1>1. request(answer, "workspaces").ok = FALSE BY Results
<1> QED BY <1>1 DEF GetCurrentUsage

LEMMA UsageDecoded ==
    ASSUME NEW b, NEW answer, answer = Answer(200, b)
    PROVE  GetCurrentUsage(answer) = decodeCount[b]
<1>1. request(answer, "workspaces") = Ok(b)
  <2>1. 200 \in Int /\ 200 < 400 OBVIOUS
  <2> QED BY <2>1, Accepted
<1>2. request(answer, "workspaces").ok = TRUE /\ request(answer, "workspaces").value = b
  BY <1>1, Results
<1> QED BY <1>2 DEF GetCurrentUsage

LEMMA FailuresCountNothing ==
    ASSUME NEW answer \in (Failures \cup {Answer(404, Empty)}) \ Blanked
    PROVE  ~GetCurrentUsage(answer).ok
<1>1. CASE answer = Silence
  <2>1. request(answer, "workspaces") = Fail("api client timeout") BY <1>1 DEF request, Silence
  <2> QED BY <2>1, UsageFails
<1>2. CASE answer = Broken
  <2>1. request(answer, "workspaces") = Fail("api request failed") BY <1>2 DEF request, Broken
  <2> QED BY <2>1, UsageFails
<1>3. ASSUME NEW status \in Int, status >= 400, NEW b, answer = Answer(status, b)
      PROVE  ~GetCurrentUsage(answer).ok
  <2>1. request(answer, "workspaces") = statusError(status, "workspaces") BY <1>3, Rejected
  <2> DEFINE e == IF status = 404 THEN "workspace not found" ELSE "api error"
  <2>2. statusError(status, "workspaces") = Fail(e) BY StatusErrors
  <2> HIDE DEF e
  <2> QED BY <2>1, <2>2, UsageFails
<1>4. ASSUME NEW b \in Refusals \cup {Empty, Junk}, answer = Answer(200, b)
      PROVE  ~GetCurrentUsage(answer).ok
  BY <1>4, UsageDecoded, NothingCounted
<1>5. CASE answer \in {Answer(200, Empty), Answer(200, Junk)} BY <1>4, <1>5
<1>6. CASE answer = Answer(404, Empty) BY <1>3, <1>6
<1>7. CASE answer \in {Answer(status, b) : status \in {200, 422, 500}, b \in Refusals}
  <2>1. PICK status \in {200, 422, 500}, b \in Refusals : answer = Answer(status, b) BY <1>7
  <2>2. CASE status = 200 BY <2>1, <2>2, <1>4
  <2>3. CASE status \in {422, 500} BY <2>1, <2>3, <1>3
  <2> QED BY <2>2, <2>3
<1> QED BY <1>1, <1>2, <1>5, <1>6, <1>7 DEF Failures

\* A count the handler gets is the count of the workspace in its context, whatever
\* the API answers and in whatever form, since no body but a blank one is taken for
\* a count that is not there: client.go:165 and 331.
THEOREM CountsAreOwn == Spec => []CountsAreItsOwn
<1>1. Init => CountsAreItsOwn BY DEF Init, CountsAreItsOwn
<1>2. ASSUME CountsAreItsOwn, [Next]_vars PROVE CountsAreItsOwn'
  <2>1. CASE Handle
    <3>1. CASE ctx = None
      <4>1. count' = None BY <2>1, <3>1 DEF Handle
      <4> QED BY <4>1 DEF CountsAreItsOwn
    <3>2. CASE ctx # None
      <4>1. PICK answer \in Failures \cup {Answer(404, Empty)} \cup
                     {Answer(200, b) : b \in IF ctx \in UUID THEN Counts(CountOf[ctx]) ELSE {}} :
               count' = Told(GetCurrentUsage(answer), answer \in Blanked)
        BY <2>1, <3>2 DEF Handle
      <4>0. /\ count'.ok = GetCurrentUsage(answer).ok
            /\ count'.value = GetCurrentUsage(answer).value
            /\ count'.blank = (answer \in Blanked)
        BY <4>1 DEF Told
      <4>2. ctx' = ctx BY <2>1 DEF Handle
      <4>3. CASE answer \in Failures \cup {Answer(404, Empty)}
        BY <4>0, <4>3, FailuresCountNothing DEF CountsAreItsOwn
      <4>4. ASSUME ctx \in UUID, NEW b \in Counts(CountOf[ctx]), answer = Answer(200, b)
            PROVE  CountsAreItsOwn'
        <5>1. CountOf[ctx] \in Int BY <4>4, NumberAssumption
        <5>2. b \in Body BY <4>4, AnswerAssumption
        <5>3. GetCurrentUsage(answer) = decodeCount[b] BY <4>4, UsageDecoded
        <5>4. count'.ok => count'.value = CountOf[ctx]
          BY <4>0, <4>4, <5>1, <5>2, <5>3, CountDecoded
        <5> QED BY <4>2, <4>4, <5>4 DEF CountsAreItsOwn
      <4> QED BY <4>1, <4>3, <4>4
    <3> QED BY <3>1, <3>2
  <2>2. CASE UNCHANGED vars BY <1>2, <2>2 DEF vars, CountsAreItsOwn
  <2>3. CASE Move BY <1>2, <2>3 DEF Move, CountsAreItsOwn
  <2>4. CASE Arrive
    <3>1. pc' # "served" BY <2>4 DEF Arrive, First
    <3> QED BY <3>1 DEF CountsAreItsOwn
  <2>5. CASE ById \/ BySlug \/ ByHost \/ ByHostAgain \/ ByDomain \/ ByQuery
    <3>1. pc' \in {"resolved", "hostAgain", "domain", "query"}
      BY <2>5 DEF ById, BySlug, ByHost, ByHostAgain, ByDomain, ByQuery, Step
    <3> QED BY <3>1 DEF CountsAreItsOwn
  <2>6. CASE Inject
    <3>1. pc' \in {"handler", "refused"} BY <2>6 DEF Inject
    <3> QED BY <3>1 DEF CountsAreItsOwn
  <2>7. CASE Reply
    <3>1. pc' = "idle" BY <2>7 DEF Reply
    <3> QED BY <3>1 DEF CountsAreItsOwn
  <2> QED BY <1>2, <2>1, <2>2, <2>3, <2>4, <2>5, <2>6, <2>7 DEF Next
<1> QED BY <1>1, <1>2, PTL DEF Spec
===============================================================================
