-------------------------- MODULE MCEntitlementCheck --------------------------
(* The packages and boosts small workspaces are put together from. *)
EXTENDS EntitlementCheck

Pkg(active, stackable, limit) == [active |-> active, stackable |-> stackable, limit |-> limit]
Bst(code, current, type, left) == [code |-> code, current |-> current, type |-> type, left |-> left]

MCPackages ==
    {Pkg(TRUE, FALSE, limit) : limit \in {Unlisted, Nil, -1, 1, 2}}
        \cup {Pkg(TRUE, TRUE, 1), Pkg(TRUE, TRUE, -1), Pkg(FALSE, FALSE, -1), Pkg(FALSE, TRUE, 1)}

MCBoosts ==
    {Bst(code, TRUE, "add_limit", 1) : code \in {"pool", "feature", "other"}}
        \cup {Bst("pool", TRUE, "add_limit", -1), Bst("pool", FALSE, "unlimited", 0)}
        \cup {Bst("feature", TRUE, type, 0) : type \in {"enable", "unlimited"}}

MCQuantities == {-1, 0, 2}

\* The theorems about the cascade are not empty: these workspaces are as they suppose.
ASSUME FitAssumption ==
    /\ KnownBoosts /\ LimitsAreCounts /\ CountsFit
    /\ SumsFit(MaxPackages + 1, MaxBoosts) /\ SumsFit(MaxPackages, MaxBoosts + 1)
=============================================================================
