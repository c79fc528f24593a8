-------------------------- MODULE OperationOutcome --------------------------
(***************************************************************************)
(* The outcome tracker of one worker run                                   *)
(* (src-tauri/worker-go/operation_outcome.go).  The tracker keeps four     *)
(* counters per source subqueue; finish() turns them, with the error the   *)
(* handler returned, into the status the desktop application reports.      *)
(***************************************************************************)
EXTENDS Integers

\* The source labels a bulk operation records under: the entity itself and
\* its dead-letter subqueue.
SourceModes == {"normal", "dlq"}

\* How a handler ended: without error, with one that errors.Is recognises as
\* context.Canceled, or with any other.
ErrorClass == {"none", "cancelled", "failed"}

Statuses == {"success", "stopped", "error", "unknown"}
ErrorCodes == {"none", "cancelled", "operation_failed", "broker_acknowledgment_unknown"}

SourceOutcome == [Sent : Int, Settled : Int,
                  SendUnconfirmed : Int, SettlementUnconfirmed : Int]

\* A source the tracker has not recorded yet reads as the zero value.
ZeroOutcome == [Sent |-> 0, Settled |-> 0,
                SendUnconfirmed |-> 0, SettlementUnconfirmed |-> 0]

NewTracker == [s \in SourceModes |-> ZeroOutcome]

\* recordOperation: the four deltas are added under the tracker's lock.
Record(tracker, s, sent, settled, sendUnc, settleUnc) ==
    [tracker EXCEPT ![s] =
        [Sent                  |-> @.Sent + sent,
         Settled               |-> @.Settled + settled,
         SendUnconfirmed       |-> @.SendUnconfirmed + sendUnc,
         SettlementUnconfirmed |-> @.SettlementUnconfirmed + settleUnc]]

\* snapshot: the totals over both sources.
Snapshot(tracker) ==
    LET n == tracker["normal"]
        d == tracker["dlq"]
    IN  [Sent                  |-> n.Sent + d.Sent,
         Settled               |-> n.Settled + d.Settled,
         SendUnconfirmed       |-> n.SendUnconfirmed + d.SendUnconfirmed,
         SettlementUnconfirmed |-> n.SettlementUnconfirmed + d.SettlementUnconfirmed]

\* Mutant: forgets the sends whose acknowledgment was lost.
UnresolvedAcceptedOnly(total) ==
    total.SettlementUnconfirmed > 0 \/ total.Sent > total.Settled

\* finish's condition for work whose effect at the broker is not known, or for
\* accepted messages still at their source.
Unresolved(total) ==
    \/ total.SendUnconfirmed > 0
    \/ total.SettlementUnconfirmed > 0
    \/ total.Sent > total.Settled

FinishStatus(tracker, err) ==
    IF err = "none" THEN "success"
    ELSE IF Unresolved(Snapshot(tracker)) THEN "unknown"
    ELSE IF err = "cancelled" THEN "stopped" ELSE "error"

FinishCode(tracker, err) ==
    IF err = "none" THEN "none"
    ELSE IF err = "cancelled" THEN "cancelled"
    ELSE IF Unresolved(Snapshot(tracker)) THEN "broker_acknowledgment_unknown"
    ELSE "operation_failed"

\* finish(runID, err).
Finish(tracker, err) ==
    [status |-> FinishStatus(tracker, err), code |-> FinishCode(tracker, err)]

Outcomes == [status : Statuses, code : ErrorCodes]

=============================================================================
