------------------------------ MODULE MCFakeWorker ------------------------------
(* FakeWorker for TLC: the parameters are given in the configurations.     *)
EXTENDS FakeWorker

=============================================================================
