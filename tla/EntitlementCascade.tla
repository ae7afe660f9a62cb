-------------------------- MODULE EntitlementCascade --------------------------
(***************************************************************************)
(* The entitlement arithmetic of package tenant (entitlement.go,           *)
(* package.go, boost.go, feature.go): what a workspace's packages and      *)
(* boosts give the pool of a feature, and what Can and the usage summary   *)
(* make of it.  Everything is an operator on the lists the code loops over;*)
(* a loop is a left fold over what it keeps between two turns.             *)
(*                                                                         *)
(* A package is what it says of the pool asked about.  A boost's code says *)
(* how it matches: the pool's code, the feature's own, or another one.     *)
(***************************************************************************)
EXTENDS Integers, SequencesExt

CONSTANTS
    Unlisted,  \* a package without an entry for the pool
    Nil,       \* a nil *int: an entry without a limit, a result without a number
    MaxInt     \* the largest int, 2^63 - 1 in the code

ASSUME IntAssumption == MaxInt \in Nat
ASSUME NilAssumption == Nil \notin Int /\ Unlisted \notin Int /\ Unlisted # Nil

Package == [active: BOOLEAN, stackable: BOOLEAN, limit: Int \cup {Unlisted, Nil}]
Boost == [code: {"pool", "feature", "other"}, current: BOOLEAN,
          type: {"add_limit", "enable", "unlimited", "unknown"}, left: Int]
FeatureType == {"boolean", "limit", "unlimited", "unknown"}

\* Signed wrap-around of an int.
Int64(n) == ((n + MaxInt + 1) % (2 * (MaxInt + 1))) - (MaxInt + 1)

AtLeast0(n) == IF n < 0 THEN 0 ELSE n

-----------------------------------------------------------------------------
\* What packageLimitForFeature gathers.

IncludesFeature(pkg) == pkg.limit # Unlisted

NoPackage == [limit |-> 0, assigned |-> FALSE, unlimited |-> FALSE, highest |-> Nil]

Skips(sum, pkg) == sum.unlimited \/ ~pkg.active \/ ~IncludesFeature(pkg)

NeverUnlimited(pkg) == FALSE  \* mutant: -1 is summed like any other limit
IsUnlimited(pkg) == pkg.limit = -1

Latest(highest, limit) == limit  \* mutant: a later package replaces a higher one
Highest(highest, limit) == IF highest = Nil \/ limit > highest THEN limit ELSE highest

\* One turn of the loop; an unlimited package returns at once.
AddPackage(sum, pkg) ==
    LET on == [sum EXCEPT !.assigned = TRUE] IN
    IF Skips(sum, pkg) THEN sum
    ELSE IF pkg.limit = Nil THEN on
    ELSE IF IsUnlimited(pkg) THEN [on EXCEPT !.unlimited = TRUE, !.limit = 0]
    ELSE IF pkg.stackable THEN [on EXCEPT !.limit = Int64(@ + pkg.limit)]
    ELSE [on EXCEPT !.highest = Highest(@, pkg.limit)]

PackageLimit(packages) ==
    LET sum == FoldLeft(AddPackage, NoPackage, packages) IN
    [assigned |-> sum.assigned,
     unlimited |-> sum.unlimited,
     limit |-> IF sum.unlimited \/ sum.highest = Nil
               THEN sum.limit ELSE Int64(sum.limit + sum.highest)]

-----------------------------------------------------------------------------
\* Boosts: left is LimitValue - ConsumedQuantity, current says that the status
\* is active and now is between StartsAt and ExpiresAt.

Remaining(boost) ==
    CASE boost.type = "unlimited" -> -1
      [] boost.type = "enable" -> 0
      [] OTHER -> AtLeast0(boost.left)

IsUsable(boost) ==
    boost.current /\ (boost.type = "add_limit" => Remaining(boost) > 0)

AppliesToPool(boost) == boost.code = "pool" /\ IsUsable(boost)  \* mutant: the feature's own code is not matched
Applies(boost) == boost.code \in {"pool", "feature"} /\ IsUsable(boost)

\* One turn of the boost loop; Counted are the types whose remainder is added.
AddBoost(sum, boost, Counted) ==
    IF sum.unlimited \/ ~Applies(boost) THEN sum
    ELSE IF boost.type = "unlimited" THEN [sum EXCEPT !.unlimited = TRUE]
    ELSE IF boost.type = "enable" THEN [sum EXCEPT !.enabled = TRUE]
    ELSE IF sum.assigned /\ boost.type \in Counted /\ Remaining(boost) > 0
         THEN [sum EXCEPT !.limit = Int64(@ + Remaining(boost))]
    ELSE sum

WithBoosts(packages, boosts, Counted) ==
    LET limit == PackageLimit(packages)
        start == [limit |-> limit.limit, assigned |-> limit.assigned,
                  unlimited |-> limit.unlimited, enabled |-> FALSE]
    IN FoldLeft(LAMBDA sum, boost: AddBoost(sum, boost, Counted), start, boosts)

-----------------------------------------------------------------------------
\* The verdict of Can, and the row of the usage summary.

AllowUnlimited == [allowed |-> TRUE, unlimited |-> TRUE, limit |-> Nil, used |-> Nil]
Allow(limit, used) == [allowed |-> TRUE, unlimited |-> FALSE, limit |-> limit, used |-> used]
\* mutant: the count is left out of the denial
DenyWithoutCount(limit, used) == [allowed |-> FALSE, unlimited |-> FALSE, limit |-> limit, used |-> Nil]
Deny(limit, used) == [allowed |-> FALSE, unlimited |-> FALSE, limit |-> limit, used |-> used]

\* Can's switch adds what is left of a boost of any other type in its default.
CountedByCan == {"add_limit", "unknown"}

Can(type, packages, boosts, used, quantity) ==
    LET sum == WithBoosts(packages, boosts, CountedByCan)
        granted == sum.assigned \/ (type = "boolean" /\ sum.enabled)
        asked == IF quantity < 0 THEN 1 ELSE quantity
    IN IF sum.unlimited \/ (type = "unlimited" /\ sum.assigned) THEN AllowUnlimited
       ELSE IF ~granted THEN Deny(Nil, Nil)
       ELSE IF type = "boolean" THEN Allow(Nil, Nil)
       ELSE IF Int64(used + asked) > sum.limit THEN Deny(sum.limit, used)
       ELSE Allow(sum.limit, used)

CountedBySummary == {"add_limit"}

\* mutant: a feature in no package has a limit of 0
HasLimitUnassigned(type, sum) == ~sum.unlimited /\ type \notin {"boolean", "unlimited"}
HasLimit(type, sum) == sum.assigned /\ ~sum.unlimited /\ type \notin {"boolean", "unlimited"}

SummaryForFeature(type, packages, boosts, used) ==
    LET sum == WithBoosts(packages, boosts, CountedBySummary)
        unlimited == sum.unlimited \/ (type = "unlimited" /\ sum.assigned)
    IN [unlimited |-> unlimited,
        limit |-> IF HasLimit(type, sum) THEN sum.limit ELSE Nil,
        used |-> IF type = "boolean" /\ ~unlimited THEN Nil ELSE used]
=============================================================================
