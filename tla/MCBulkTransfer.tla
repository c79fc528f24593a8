--------------------------- MODULE MCBulkTransfer ---------------------------
(* Small instances of BulkTransfer for TLC.                                *)
EXTENDS BulkTransfer, TLC

CONSTANTS m1, m2, m3, d1, w1, w2

\* A drain of a dead-letter subqueue: affinities do not matter.
DlqHome == (m1 :> "dlq") @@ (m2 :> "dlq") @@ (m3 :> "dlq")
OneAffinity == (m1 :> "a") @@ (m2 :> "a") @@ (m3 :> "a")

NoneDies == <<>>

\* Mode both: two messages of two affinities in the entity, one in its
\* dead-letter subqueue, where the broker may move the first one.
BothHome == (m1 :> "normal") @@ (m2 :> "normal") @@ (m3 :> "dlq") @@ (d1 :> "dlq")
BothAffinities == (m1 :> "a") @@ (m2 :> "b") @@ (m3 :> "a") @@ (d1 :> "a")
OneDies == m1 :> d1

WorkerSymmetry == Permutations(Workers)

=============================================================================
