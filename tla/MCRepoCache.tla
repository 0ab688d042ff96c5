---------------------------- MODULE MCRepoCache ----------------------------
(* RepoCache for TLC: the symmetry of callers, handles and tags.           *)
EXTENDS RepoCache, TLC

Symmetry == Permutations(Callers) \cup Permutations(Handles) \cup Permutations(Tags)
=============================================================================
