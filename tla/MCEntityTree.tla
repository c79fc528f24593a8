--------------------------- MODULE MCEntityTree ---------------------------
(* A small instance of EntityTree for TLC.                                 *)
EXTENDS EntityTree, TLC

CONSTANTS a, b, q, t, s

\* One queue and one topic with one subscription.
OneTopic == s :> t

\* Both namespaces have the topic; the queue may be created.
TwoNamespaces == (a :> {t, s}) @@ (b :> {t, s})

=============================================================================
