---------------------------- MODULE MCTaskLifecycle ----------------------------
(* TaskLifecycle for TLC: the parameters are given in the configurations.  *)
EXTENDS TaskLifecycle, TLC

\* Request handlers and tasks are interchangeable.
Symmetry == Permutations(Clients) \cup Permutations(Tasks)

=============================================================================
