----------------------------- MODULE MCEventStream -----------------------------
(* EventStream for TLC: the parameters are given in the configurations.    *)
EXTENDS EventStream, TLC

\* Instances are interchangeable, and so are the appends when a job makes all
\* of them or none, and the end of the task is not among them.
Symmetry == Permutations(Instances) \cup Permutations(Appends)

=============================================================================
