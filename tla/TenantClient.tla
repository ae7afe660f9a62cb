------------------------------ MODULE TenantClient ------------------------------
(***************************************************************************)
(* What TenantClient (client.go) makes of an HTTP exchange with the PHP    *)
(* API: from an answer, or the lack of one, to a value or an error.  A     *)
(* body is a JSON value as far as the decoders tell such values apart.     *)
(***************************************************************************)
EXTENDS Integers, FiniteSets

CONSTANTS
    Body,   \* the bodies answers can have, and the values nested in them
    None    \* no field, no count

\* JSON values.  "empty" is no bytes at all, "junk" is not JSON.
Empty == [kind |-> "empty"]
Junk == [kind |-> "junk"]
Null == [kind |-> "null"]
Bool(b) == [kind |-> "bool", bool |-> b]
Text(t) == [kind |-> "text", text |-> t]
Number(n) == [kind |-> "number", number |-> n]
Digits(n) == [kind |-> "digits", digits |-> n]  \* a number in quotes
Object(at) == [kind |-> "object", at |-> at]

Has(b, field) == b.kind = "object" /\ field \in DOMAIN b.at

ASSUME BodyAssumption == \A b \in Body : Has(b, "data") => b.at["data"] \in Body

Ok(value) == [ok |-> TRUE, value |-> value]
Fail(error) == [ok |-> FALSE, value |-> error]

-------------------------------------------------------------------------------
(* Fields of a decoded object *)

stringField(b, field) ==
    IF Has(b, field) /\ b.at[field].kind = "text" THEN b.at[field].text ELSE ""

boolField(b, field) ==
    Has(b, field) /\ b.at[field].kind = "bool" /\ b.at[field].bool

intField(b, field) ==
    CASE Has(b, field) /\ b.at[field].kind = "number" -> b.at[field].number
      [] Has(b, field) /\ b.at[field].kind = "digits" -> b.at[field].digits
      [] OTHER                                         -> None

looksLikeEnvelope(b) == \E field \in {"ok", "error", "data"} : Has(b, field)

\* Mutant of Refused: an error counts only where "ok" says FALSE.
RefusedAloud(b) ==
    /\ looksLikeEnvelope(b)
    /\ stringField(b, "error") # ""
    /\ Has(b, "ok") /\ ~boolField(b, "ok")

\* An envelope that names an error and does not say it is well.
Refused(b) ==
    /\ looksLikeEnvelope(b)
    /\ stringField(b, "error") # ""
    /\ ~boolField(b, "ok")

Nested(b) == Has(b, "data") /\ b.at["data"].kind # "null"

-------------------------------------------------------------------------------
(* The decoders *)

\* A JSON object becomes a record whatever fields it has; a missing or null
\* "uuid" stays empty, one of another type is refused.
Unmarshal(b) ==
    IF \/ b.kind = "null"
       \/ b.kind = "object" /\ (Has(b, "uuid") => b.at["uuid"].kind \in {"text", "null"})
    THEN Ok(stringField(b, "uuid"))
    ELSE Fail("invalid api payload")

decodeEnvelope(b) ==
    CASE b.kind = "empty" -> Fail("EOF")
      [] b.kind # "empty" /\ Refused(b) -> Fail("api error")
      [] b.kind # "empty" /\ ~Refused(b) ->
            Unmarshal(IF Nested(b) THEN b.at["data"] ELSE b)

\* Mutant of CountFields: the other way round.
CountFieldsReversed == <<"value", "usage", "count">>

CountFields == <<"count", "usage", "value">>

\* The first of the fields that has a count.
CountField(b) ==
    LET counts == {i \in 1..3 : intField(b, CountFields[i]) # None}
        first == CHOOSE i \in counts : \A j \in counts : i <= j
    IN IF counts = {} THEN None ELSE intField(b, CountFields[first])

\* An envelope with no error and no count of its own: what is nested in it
\* decides.
Onward(b) == looksLikeEnvelope(b) /\ ~Refused(b) /\ CountField(b) = None /\ Nested(b)

\* Fields count in an envelope only; what is left must be a bare number, and
\* null is 0.
CountHere(b) ==
    CASE b.kind = "number" -> Ok(b.number)
      [] b.kind = "null"   -> Ok(0)
      [] looksLikeEnvelope(b) ->
            IF Refused(b) THEN Fail("api error")
            ELSE IF CountField(b) # None THEN Ok(CountField(b))
            ELSE Fail("invalid count payload")
      [] b.kind = "empty"  -> Fail("EOF")
      [] OTHER             -> Fail("invalid count payload")

\* Nested data is decoded like a body of its own.
decodeCount[b \in Body] ==
    IF Onward(b) THEN decodeCount[b.at["data"]] ELSE CountHere(b)

-------------------------------------------------------------------------------
(* The exchange *)

Answer(status, body) == [wire |-> "answered", status |-> status, body |-> body]
Silence == [wire |-> "timeout"]     \* no answer within the client's timeout
Broken == [wire |-> "broken"]       \* refused, reset, or cut off in the body

\* Mutant of statusError: every refusal says that there is no such thing.
statusErrorAbsent(status, path) ==
    Fail(IF path = "features" THEN "feature not found" ELSE "workspace not found")

\* 404 says what is missing by the path; of any other status the message of
\* the body's "error" or the status text is the error.
statusError(status, path) ==
    CASE status = 404 /\ path = "features" -> Fail("feature not found")
      [] status = 404 /\ path # "features" -> Fail("workspace not found")
      [] status # 404                      -> Fail("api error")

request(answer, path) ==
    CASE answer.wire = "timeout" -> Fail("api client timeout")
      [] answer.wire = "broken"  -> Fail("api request failed")
      [] answer.wire = "answered" ->
            IF answer.status >= 400 THEN statusError(answer.status, path)
            ELSE Ok(answer.body)

\* GetWorkspaceBySlug, -ByUUID, -ByID and the two halves of -BySubdomain.
GetWorkspaceRecord(answer) ==
    LET r == request(answer, "workspaces")
    IN IF r.ok THEN decodeEnvelope(r.value) ELSE r

GetCurrentUsage(answer) ==
    LET r == request(answer, "workspaces")
    IN IF r.ok THEN decodeCount[r.value] ELSE r
================================================================================
