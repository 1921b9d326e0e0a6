------------------------------- MODULE MCAccount -------------------------------
(* Account for TLC: the parameters are given in the configurations.        *)
EXTENDS Account, TLC

\* Clients are interchangeable.
Symmetry == Permutations(Phones)

=============================================================================
