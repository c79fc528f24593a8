---------------------------- MODULE LatestAnswers ----------------------------
(***************************************************************************)
(* What the interface promises about values it asks for and displays: the  *)
(* value of a key is the answer to the request that was the latest for     *)
(* this key when it was filled in.  A late answer never replaces a later   *)
(* one, and no answer survives a reset of what was asked.                  *)
(***************************************************************************)
EXTENDS Naturals

CONSTANT Keys

VARIABLES
    last,    \* requests so far; a request is its number
    latest,  \* for each key, the latest request, 0 without one
    shown    \* for each key, the request whose answer is displayed, 0 without one

Nothing == [k \in Keys |-> 0]

Init == last = 0 /\ latest = Nothing /\ shown = Nothing

\* One request for several keys.
Ask(K) ==
    /\ last' = last + 1
    /\ latest' = [k \in Keys |-> IF k \in K THEN last + 1 ELSE latest[k]]
    /\ UNCHANGED shown

\* The answers are those of the latest request of each of the keys.
Answer(K) ==
    /\ \A k \in K : latest[k] # 0
    /\ shown' = [k \in Keys |-> IF k \in K THEN latest[k] ELSE shown[k]]
    /\ UNCHANGED <<last, latest>>

\* Some values are no longer displayed.
Forget(K) ==
    /\ shown' = [k \in Keys |-> IF k \in K THEN 0 ELSE shown[k]]
    /\ UNCHANGED <<last, latest>>

\* Nothing is displayed any more, and no answer is expected.
Reset == shown' = Nothing /\ latest' = Nothing /\ UNCHANGED last

Next ==
    \/ \E K \in SUBSET Keys : Ask(K) \/ Answer(K) \/ Forget(K)
    \/ Reset

Spec == Init /\ [][Next]_<<last, latest, shown>>

=============================================================================
