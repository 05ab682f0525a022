---------------------------- MODULE MCRepoLease ----------------------------
(* RepoLease for model checking: two processes, symmetric in tasks and      *)
(* repositories.                                                            *)
EXTENDS RepoLease, TLC

Symmetry == Permutations(Procs) \cup Permutations(Tasks) \cup Permutations(Repos)

=============================================================================
