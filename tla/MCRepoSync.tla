------------------------------ MODULE MCRepoSync ------------------------------
(* RepoSync for TLC: the parameters are given in the configurations.       *)
EXTENDS RepoSync, TLC
=============================================================================
