-------------------------- MODULE MCWorkerDispatch --------------------------
(* Small instances of WorkerDispatch for TLC.                              *)
EXTENDS WorkerDispatch, TLC

CONSTANTS r1, r2, r3, c1, i1, i2

\* r3 reuses the run id of r1; the Stop request names that id.
Ids == (r1 :> i1) @@ (r2 :> i2) @@ (r3 :> i1)
OneTarget == c1 :> i1

=============================================================================
