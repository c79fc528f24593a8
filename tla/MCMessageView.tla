--------------------------- MODULE MCMessageView ---------------------------
(* A small instance of MessageView for TLC.                                *)
EXTENDS MessageView, TLC

CONSTANTS a, b, q, r

M(k, e, d, n) == [at |-> <<k, e>>, dlq |-> d, seq |-> n, run |-> 0]

\* Numbers repeat across sources, queues and namespaces.
Few == {M(a, q, TRUE, 1), M(a, q, TRUE, 2), M(a, q, FALSE, 2), M(a, r, TRUE, 1), M(b, q, TRUE, 1)}

=============================================================================
