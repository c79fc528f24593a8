---------------------------- MODULE MCSourceGate ----------------------------
(* Small instances of SourceGate for TLC: three goroutines, two sources.   *)
EXTENDS SourceGate, TLC

=============================================================================
