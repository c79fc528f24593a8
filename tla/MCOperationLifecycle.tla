------------------------ MODULE MCOperationLifecycle ------------------------
(* Small instances of OperationLifecycle for TLC.                          *)
EXTENDS OperationLifecycle, TLC

CONSTANTS a1, b1, o1, k1, m1

\* A single-message operation and a bulk one on the same connection.
AtomicAndBulk == (a1 :> "atomic") @@ (b1 :> "bulk")
OneConnection == (a1 :> k1) @@ (b1 :> k1)
BulkHasNone == (a1 :> m1) @@ (b1 :> None)

\* The other logged operation: the creation of an entity.
CreateKinds == o1 :> "Create"

=============================================================================
