---------------------------- MODULE MCWorkerBridge ----------------------------
(* Small instances of WorkerBridge for TLC: a call with a timeout and two  *)
(* without.                                                                *)
EXTENDS WorkerBridge, TLC

CONSTANTS t1, u1, u2

=============================================================================
