-------------------------- MODULE MCEntityDialogs --------------------------
(* A small instance of EntityDialogs for TLC.                              *)
EXTENDS EntityDialogs
CONSTANTS q, r
\* The queue q requires sessions in one namespace and r in another.
Sessions == {<<1, q>>, <<2, r>>}
=============================================================================
