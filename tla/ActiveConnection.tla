-------------------------- MODULE ActiveConnection --------------------------
(***************************************************************************)
(* What the rest of the interface may rely on about connections: the one   *)
(* in use is always one that is listed, and it changes only when the store *)
(* sets it, which also resets everything displayed about it.  Connections  *)
(* implements this; EntityDialogs is composed with it.                     *)
(***************************************************************************)
EXTENDS Naturals

CONSTANT MaxIds

VARIABLES
    listed, \* the identifiers of the connections listed
    conn    \* the connection in use, 0 without one

ViewInit == listed = {} /\ conn = 0

\* The list is replaced, and the connection in use stays.
Relist(ids) == conn \in ids \cup {0} /\ listed' = ids /\ UNCHANGED conn

\* The connection in use is set, possibly to the one it was.
Switch(ids, id) == id \in ids \cup {0} /\ listed' = ids /\ conn' = id

ViewNext == \E ids \in SUBSET (1..MaxIds) :
    Relist(ids) \/ \E id \in 0..MaxIds : Switch(ids, id)

ViewSpec == ViewInit /\ [][ViewNext]_<<listed, conn>>

=============================================================================
