--------------------------- MODULE EntitlementCheck ---------------------------
(***************************************************************************)
(* One entitlement check of package tenant and the usage-summary row of    *)
(* the same feature (entitlement.go): each load answers or fails, what     *)
(* fails is taken for nothing, and the cascade is evaluated on what came.  *)
(***************************************************************************)
EXTENDS EntitlementCascade, FiniteSetsExt

CONSTANTS
    Packages,     \* packages a workspace may have
    Boosts,       \* boosts a workspace may have
    MaxPackages,  \* bound: packages of a workspace
    MaxBoosts,    \* bound: boosts of a workspace
    Types,        \* types the feature may have
    Counts,       \* counts the pool may have
    Quantities,   \* quantities asked for
    MayFail       \* loads that may fail

ASSUME DataAssumption ==
    /\ Packages \subseteq Package
    /\ Boosts \subseteq Boost
    /\ Types \subseteq FeatureType
    /\ Counts \subseteq Nat
    /\ Quantities \subseteq Int
    /\ MaxPackages \in Nat /\ MaxBoosts \in Nat
    /\ MayFail \subseteq {"feature", "packages", "boosts", "usage"}

VARIABLES
    has,      \* what the API holds of the workspace, the feature and the pool
    asked,    \* the quantity asked for
    got,      \* what has been loaded
    pc,       \* the load that comes next
    verdict,  \* what Can returns
    row       \* what the summary shows of the feature

vars == <<has, asked, got, pc, verdict, row>>

Nothing == [type |-> Nil, packages |-> <<>>, boosts |-> <<>>, used |-> 0]

Init ==
    /\ has \in [type: Types, packages: BoundedSeq(Packages, MaxPackages),
                boosts: BoundedSeq(Boosts, MaxBoosts), used: Counts]
    /\ asked \in Quantities
    /\ got = Nothing
    /\ pc = "feature"
    /\ verdict = Nil
    /\ row = Nil

-----------------------------------------------------------------------------

LoadFeature ==
    /\ pc = "feature"
    /\ got' = [got EXCEPT !.type = has.type]
    /\ pc' = "packages"
    /\ UNCHANGED <<has, asked, verdict, row>>

\* Mutant of NoFeature: a feature nobody can look up is open to everyone.
NoFeatureAllows ==
    /\ pc = "feature" /\ "feature" \in MayFail
    /\ verdict' = Allow(Nil, Nil)
    /\ pc' = "done"
    /\ UNCHANGED <<has, asked, got, row>>

\* Without the feature Can denies.
NoFeature ==
    /\ pc = "feature" /\ "feature" \in MayFail
    /\ verdict' = Deny(Nil, Nil)
    /\ pc' = "done"
    /\ UNCHANGED <<has, asked, got, row>>

\* A load that fails leaves the empty list, or 0.
Load(part, next) ==
    /\ pc = part
    /\ pc' = next
    /\ UNCHANGED <<has, asked, verdict, row>>

LoadPackages ==
    /\ Load("packages", "boosts")
    /\ \/ got' = [got EXCEPT !.packages = has.packages]
       \/ "packages" \in MayFail /\ UNCHANGED got

LoadBoosts ==
    /\ Load("boosts", "usage")
    /\ \/ got' = [got EXCEPT !.boosts = has.boosts]
       \/ "boosts" \in MayFail /\ UNCHANGED got

LoadUsage ==
    /\ Load("usage", "decide")
    /\ \/ got' = [got EXCEPT !.used = has.used]
       \/ "usage" \in MayFail /\ UNCHANGED got

Decide ==
    /\ pc = "decide"
    /\ verdict' = Can(got.type, got.packages, got.boosts, got.used, asked)
    /\ pc' = "summary"
    /\ UNCHANGED <<has, asked, got, row>>

Summarise ==
    /\ pc = "summary"
    /\ row' = SummaryForFeature(got.type, got.packages, got.boosts, got.used)
    /\ pc' = "done"
    /\ UNCHANGED <<has, asked, got, verdict>>

Next ==
    \/ LoadFeature \/ NoFeature
    \/ LoadPackages \/ LoadBoosts \/ LoadUsage
    \/ Decide \/ Summarise

Spec == Init /\ [][Next]_vars

-----------------------------------------------------------------------------
\* The cascade as the documents describe it, over sets of positions instead of
\* loops and without a width: the reference the loops are compared with.  Of
\* packages that do not stack the highest limit counts (entitlement.go:471,
\* "summed when stackable" in RFC.md:482; the formula of RFC.md:484 sums all).

Listing(packages) == {i \in DOMAIN packages : packages[i].active /\ packages[i].limit # Unlisted}
Usable(boosts, type) ==
    {i \in DOMAIN boosts : /\ boosts[i].code # "other" /\ boosts[i].current
                           /\ boosts[i].type = type
                           /\ type = "add_limit" => boosts[i].left > 0}

UnlimitedBy(w) ==
    \/ \E i \in Listing(w.packages) : w.packages[i].limit = -1
    \/ Usable(w.boosts, "unlimited") # {}
    \/ w.type = "unlimited" /\ Listing(w.packages) # {}

Numbered(packages) == {i \in Listing(packages) : packages[i].limit # Nil}
Stacked(packages) == {i \in Numbered(packages) : packages[i].stackable}
Base(packages) == {packages[i].limit : i \in Numbered(packages) \ Stacked(packages)}

PackageTotal(packages) ==
    (IF Base(packages) = {} THEN 0 ELSE Max(Base(packages)))
    + SumFunctionOnSet([i \in DOMAIN packages |-> packages[i].limit], Stacked(packages))

BoostTotal(boosts) ==
    SumFunctionOnSet([i \in DOMAIN boosts |-> boosts[i].left], Usable(boosts, "add_limit"))

TotalLimit(w) == PackageTotal(w.packages) + BoostTotal(w.boosts)

Entitled(w, quantity) ==
    \/ UnlimitedBy(w)
    \/ w.type = "boolean" /\ (Listing(w.packages) # {} \/ Usable(w.boosts, "enable") # {})
    \/ /\ w.type \notin {"boolean", "unlimited"}
       /\ Listing(w.packages) # {}
       /\ w.used + quantity <= TotalLimit(w)

Decided == pc = "summary"

\* Can asks for at least 1 of a negative quantity.
Asked(quantity) == IF quantity < 0 THEN 1 ELSE quantity

\* The documents disagree about an entry without a limit: "nil for unlimited"
\* (package.go:8), "nil = boolean feature" (package.go:24), and "total_limit ==
\* nil", which denies (RFC.md:488).  The code lets it add nothing to the total.
LimitsGiven(w) ==
    w.type \in {"boolean", "unlimited"} \/ Listing(w.packages) = Numbered(w.packages)

\* What the theorems about the cascade suppose of the data.  No boost has a type
\* the documents do not name; the limits are counts, or the entry says that there
\* is none; and the sums of p packages and b boosts stay within an int.
KnownBoosts == \A boost \in Boosts : boost.type # "unknown"
LimitsAreCounts == \A pkg \in Packages : pkg.limit \in Nat \cup {Unlisted, Nil, -1}

Ints == -(MaxInt + 1)..MaxInt

CountsFit == \A used \in Counts \cup {0}, quantity \in Quantities \cup {1} : used + quantity \in Ints
SumsFit(p, b) ==
    \A packages \in BoundedSeq(Packages, p), boosts \in BoundedSeq(Boosts, b) :
        LET w == [type |-> "limit", packages |-> packages, boosts |-> boosts]
        IN UnlimitedBy(w) \/ TotalLimit(w) \in Ints

-----------------------------------------------------------------------------
\* Types; a verdict carries a limit and a count together or neither, and none
\* when it is unlimited (UsagePercent and CheckUsageAlerts rely on it).
TypeOK ==
    /\ pc \in {"feature", "packages", "boosts", "usage", "decide", "summary", "done"}
    /\ asked \in Quantities
    /\ got.type \in Types \cup {Nil}
    /\ verdict # Nil => verdict \in [allowed: BOOLEAN, unlimited: BOOLEAN,
                                     limit: Int \cup {Nil}, used: Int \cup {Nil}]
    /\ verdict # Nil => /\ (verdict.limit = Nil) = (verdict.used = Nil)
                        /\ verdict.unlimited => verdict.limit = Nil

\* Can's two loops with their early returns decide as the documented cascade
\* does: pool total, boosts, unlimited first, booleans without a count.  Where a
\* package lists a counted feature without a limit the documents say no one
\* thing, and nothing is claimed.
CanFollowsCascade ==
    Decided /\ LimitsGiven(got) =>
        /\ verdict.allowed = Entitled(got, Asked(asked))
        /\ verdict.unlimited = UnlimitedBy(got)
        /\ verdict.limit # Nil => verdict.limit = TotalLimit(got)

\* The dashboard and the gate agree: the row of the usage summary has a limit
\* exactly when Can measured against one, and then the same limit and count.
SummaryAgrees ==
    row # Nil => /\ row.unlimited = verdict.unlimited
                 /\ row.limit = verdict.limit
                 /\ row.limit # Nil => row.used = verdict.used

\* Nothing hangs on the order in which the API lists packages and boosts.
OrderIsIrrelevant ==
    Decided => verdict = Can(got.type, Reverse(got.packages), Reverse(got.boosts), got.used, asked)

\* More never denies: whatever Can allows it still allows with one more package
\* or boost, or with a smaller quantity.
MoreNeverDenies ==
    Decided /\ verdict.allowed =>
        /\ \A pkg \in Packages :
             Can(got.type, Append(got.packages, pkg), got.boosts, got.used, asked).allowed
        /\ \A boost \in Boosts :
             Can(got.type, got.packages, Append(got.boosts, boost), got.used, asked).allowed
        /\ asked > 0 => Can(got.type, got.packages, got.boosts, got.used, asked - 1).allowed

\* Loads fail closed, whichever of them fail together: Can allows nothing that
\* the packages and boosts the API holds do not cover, at the count it was told.
\* Only a count fails open: one that cannot be loaded is 0 (entitlement.go:173).
FailsClosed ==
    verdict # Nil /\ verdict.allowed => Entitled([has EXCEPT !.used = got.used], Asked(asked))
=============================================================================
