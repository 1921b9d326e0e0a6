--------------------------- MODULE MCCloudWorkspaces ---------------------------
(* CloudWorkspaces for TLC: the parameters are given in the configurations. *)
EXTENDS CloudWorkspaces, TLC
=============================================================================
