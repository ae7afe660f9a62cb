---------------------------- MODULE MCWorkspaceScope ----------------------------
(***************************************************************************)
(* Two workspaces, the host names and the numbers they go by, and every    *)
(* body an answer can have, for TLC.                                       *)
(***************************************************************************)
EXTENDS WorkspaceScope, TLC

CONSTANTS u1, u2, s1, s2, h1

MCSlugIn == [h \in {h1} |-> s1]
MCIdOf == u1 :> 1 @@ u2 :> 2
MCCountOf == u1 :> 5 @@ u2 :> 7

MCBody ==
    LET top == UNION {Records(u) \cup Counts(CountOf[u]) : u \in UUID}
                   \cup Refusals \cup Blanks \cup {Empty, Junk}
    IN top \cup {b.at["data"] : b \in {t \in top : Has(t, "data")}}
================================================================================
