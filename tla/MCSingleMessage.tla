-------------------------- MODULE MCSingleMessage --------------------------
(***************************************************************************)
(* SingleMessage for TLC: the target and one other message of its source.  *)
(***************************************************************************)
EXTENDS SingleMessage

CONSTANTS t, a

MCOthers == {a}

=============================================================================
