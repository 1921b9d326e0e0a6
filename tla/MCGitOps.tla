------------------------------- MODULE MCGitOps -------------------------------
(* GitOps for TLC: the parameters are given in the configurations.         *)
EXTENDS GitOps, TLC

\* Operations, request handlers and jobs are interchangeable.
Symmetry == Permutations(Ops) \cup Permutations(Clients) \cup Permutations(Jobs)

=============================================================================
