--------------------------- MODULE MCWorkspaceCache ---------------------------
(* WorkspaceCache on small instances. *)
EXTENDS WorkspaceCache, TLC

\* Callers are interchangeable in every definition, and so are slugs.
Symmetry == Permutations(Caller) \cup Permutations(Slug)
===============================================================================
