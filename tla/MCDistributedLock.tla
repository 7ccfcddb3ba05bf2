-------------------------- MODULE MCDistributedLock --------------------------
(***************************************************************************)
(* A small instance of DistributedLock: calls that wait, one of them in a  *)
(* process that may have been switched to the legacy service.              *)
(***************************************************************************)
EXTENDS DistributedLock, TLC

CONSTANTS c1, c2, c3
=============================================================================
