---------------------------- MODULE BulkTransfer ----------------------------
(***************************************************************************)
(* One bulk run of the Go worker: Move/Replay/Republish (Transfer = TRUE,  *)
(* handlers_move.go) or Drain (Transfer = FALSE, handlers_drain.go), over  *)
(* one or both subqueues of a source entity.                               *)
(*                                                                         *)
(* Every source runs the loop runOne in a goroutine of its own: receive a  *)
(* batch under lock, send it to the destination in compatible chunks,      *)
(* remove each accepted chunk from the source with a pool of settlement    *)
(* goroutines, and start over until the source is idle.  The broker is     *)
(* external: it accepts a send or removes a message at any time between    *)
(* the request and forever, answers or not, lets message locks expire, and *)
(* may move a message to the dead-letter subqueue by itself, where the     *)
(* same run may meet it again.                                             *)
(*                                                                         *)
(* Order within a batch is abstracted: batches are sets, and a chunk of a  *)
(* transfer is any set of messages of one affinity.                        *)
(***************************************************************************)
EXTENDS FiniteSets, OperationOutcome

CONSTANTS
    Msgs,       \* the messages that may come to be in a subqueue of the source
    Home,       \* the subqueue each message is in
    DeadForm,   \* what a message the broker may dead-letter becomes there
    Affinity,   \* the batch affinity of each outbound message
    Sources,    \* the subqueues the run consumes (mode normal, dlq or both)
    Workers,    \* the settlement goroutines of each source
    BatchSize,  \* RECEIVE_MESSAGES_COUNT
    Transfer    \* TRUE: move to a destination; FALSE: drain

ASSUME BulkAssumption ==
    /\ IsFiniteSet(Msgs)
    /\ Home \in [Msgs -> SourceModes]
    /\ DeadForm \in [DOMAIN DeadForm -> Msgs] /\ DOMAIN DeadForm \subseteq Msgs
    /\ \A m \in DOMAIN DeadForm : Home[m] = "normal" /\ Home[DeadForm[m]] = "dlq"
    /\ \A m, n \in DOMAIN DeadForm : DeadForm[m] = DeadForm[n] => m = n
    /\ DOMAIN Affinity = Msgs
    /\ Sources \subseteq SourceModes /\ Sources # {}
    /\ IsFiniteSet(Workers) /\ Workers # {}
    /\ BatchSize \in Nat \ {0}
    /\ Transfer \in BOOLEAN

VARIABLES
    stopped,    \* requestCtx is cancelled: the user pressed Stop
    tracker,    \* the run's operationTracker
    outcome,    \* {} until the terminal response, then the set of that response
    pc,         \* where runOne is, for each source
    result,     \* the class of the error each source's runOne returned
    batch,      \* received and not yet sent (transfer) messages of each source
    chunk,      \* the chunk a source is sending or settling
    todo,       \* messages of the chunk not yet handed to a settlement goroutine
    closed,     \* the jobs channel of the settlement pool is closed
    schedStop,  \* stopScheduling was called: some completion failed
    wpc, wmsg,  \* each settlement goroutine's place and message
    sendReq, settleReq, \* what the worker knows of each message's two requests
    avail, locked, removed, \* broker: where each source message is
    wire,       \* broker: sends it may still accept
    accepted,   \* broker: copies of each message accepted by the destination
    lateSends, lateRemovals \* history: requests dispatched after Stop

runVars    == <<stopped, outcome>>
sourceVars == <<pc, result, batch, chunk>>
poolVars   == <<todo, closed, schedStop, wpc, wmsg>>
brokerVars == <<avail, locked, removed, wire, accepted>>
lateVars   == <<lateSends, lateRemovals>>
vars == <<runVars, tracker, sourceVars, poolVars, sendReq, settleReq, brokerVars, lateVars>>

-----------------------------------------------------------------------------
PCs == {"loop", "receiving", "batching", "sendReady", "sending", "settling", "finished"}
WorkerPCs == {"off", "idle", "got", "ready", "calling"}
ReqStates == {"none", "open", "acked", "lost"}

Of(s) == {m \in Msgs : Home[m] = s}
DeadForms == {DeadForm[m] : m \in DOMAIN DeadForm}

ReportType ==
    /\ stopped \in BOOLEAN
    /\ tracker \in [SourceModes -> SourceOutcome]
    /\ outcome \in SUBSET Outcomes
    /\ lateSends \in [SourceModes -> Nat]
    /\ lateRemovals \in [SourceModes -> Nat]

SourceType ==
    /\ pc \in [SourceModes -> PCs]
    /\ result \in [SourceModes -> ErrorClass]
    /\ batch \in [SourceModes -> SUBSET Msgs]
    /\ chunk \in [SourceModes -> SUBSET Msgs]

PoolType ==
    /\ todo \in [SourceModes -> SUBSET Msgs]
    /\ closed \in [SourceModes -> BOOLEAN]
    /\ schedStop \in [SourceModes -> BOOLEAN]
    /\ wpc \in [SourceModes -> [Workers -> WorkerPCs]]
    /\ wmsg \in [SourceModes -> [Workers -> SUBSET Msgs]]

RequestType ==
    /\ sendReq \in [Msgs -> ReqStates]
    /\ settleReq \in [Msgs -> ReqStates]

BrokerType ==
    /\ avail \in SUBSET Msgs
    /\ locked \in SUBSET Msgs
    /\ removed \in SUBSET Msgs
    /\ wire \in SUBSET (SUBSET Msgs)
    /\ accepted \in [Msgs -> Nat]

TypeOK == ReportType /\ SourceType /\ PoolType /\ RequestType /\ BrokerType

Init ==
    /\ stopped = FALSE
    /\ tracker = NewTracker
    /\ outcome = {}
    /\ pc = [s \in SourceModes |-> IF s \in Sources THEN "loop" ELSE "finished"]
    /\ result = [s \in SourceModes |-> "none"]
    /\ batch = [s \in SourceModes |-> {}]
    /\ chunk = [s \in SourceModes |-> {}]
    /\ todo = [s \in SourceModes |-> {}]
    /\ closed = [s \in SourceModes |-> FALSE]
    /\ schedStop = [s \in SourceModes |-> FALSE]
    /\ wpc = [s \in SourceModes |-> [w \in Workers |-> "off"]]
    /\ wmsg = [s \in SourceModes |-> [w \in Workers |-> {}]]
    /\ sendReq = [m \in Msgs |-> "none"]
    /\ settleReq = [m \in Msgs |-> "none"]
    /\ avail = Msgs \ DeadForms
    /\ locked = {}
    /\ removed = {}
    /\ wire = {}
    /\ accepted = [m \in Msgs |-> 0]
    /\ lateSends = [s \in SourceModes |-> 0]
    /\ lateRemovals = [s \in SourceModes |-> 0]

-----------------------------------------------------------------------------
Goto(s, p) == pc' = [pc EXCEPT ![s] = p]

\* runOne returns: the source keeps what it left locked, until the locks expire.
Return(s, err) ==
    /\ Goto(s, "finished")
    /\ result' = [result EXCEPT ![s] = err]

Mark(req, ms, st) == [m \in Msgs |-> IF m \in ms THEN st ELSE req[m]]

\* completeReceivedMessages begins: its goroutines wait on the jobs channel.
StartPool(s, ms) ==
    /\ todo' = [todo EXCEPT ![s] = ms]
    /\ closed' = [closed EXCEPT ![s] = FALSE]
    /\ schedStop' = [schedStop EXCEPT ![s] = FALSE]
    /\ wpc' = [wpc EXCEPT ![s] = [w \in Workers |-> "idle"]]
    /\ wmsg' = [wmsg EXCEPT ![s] = [w \in Workers |-> {}]]

\* scheduleCtx derives from the request context in a drain, so that Stop ends
\* scheduling, and from the work context in a transfer, which Stop leaves alone.
ScheduleDone(s) == schedStop[s] \/ (~Transfer /\ stopped)

\* cancelRun -> run.stop().
Stop ==
    /\ ~stopped /\ outcome = {}
    /\ stopped' = TRUE
    /\ UNCHANGED <<tracker, outcome, sourceVars, poolVars, sendReq, settleReq, brokerVars, lateVars>>

\* The head of runOne's loop: return when stopped, else call ReceiveMessages.
BeginReceive(s) ==
    /\ pc[s] = "loop"
    /\ IF stopped THEN Return(s, "cancelled")
                  ELSE Goto(s, "receiving") /\ UNCHANGED result
    /\ UNCHANGED <<runVars, tracker, batch, chunk, poolVars, sendReq, settleReq, brokerVars, lateVars>>

\* Messages arrive, locked for this receiver (even if Stop came meanwhile).
Receive(s) ==
    /\ pc[s] = "receiving"
    /\ \E B \in SUBSET (avail \cap Of(s)) :
         /\ B # {} /\ Cardinality(B) <= BatchSize
         /\ avail' = avail \ B
         /\ locked' = locked \cup B
         /\ IF Transfer
            THEN /\ batch' = [batch EXCEPT ![s] = B]
                 /\ Goto(s, "batching")
                 /\ UNCHANGED <<chunk, poolVars>>
            ELSE /\ chunk' = [chunk EXCEPT ![s] = B]
                 /\ Goto(s, "settling")
                 /\ StartPool(s, B)
                 /\ UNCHANGED batch
    /\ UNCHANGED <<runVars, tracker, result, sendReq, settleReq, removed, wire, accepted, lateVars>>

\* Nothing arrived: the wait ran out (source idle, the loop ends well), Stop
\* cancelled it, or the receive failed.
ReceiveNothing(s) ==
    /\ pc[s] = "receiving"
    /\ \E err \in (IF stopped THEN {"cancelled"} ELSE {"none", "failed"}) : Return(s, err)
    /\ UNCHANGED <<runVars, tracker, batch, chunk, poolVars, sendReq, settleReq, brokerVars, lateVars>>

\* Building a batch failed: an incompatible affinity, a message that fits no
\* batch, or the broker refused one (newBatch runs under the request context).
BatchRefused(s) ==
    /\ pc[s] = "batching" /\ batch[s] # {}
    /\ \E err \in {"failed"} \cup (IF stopped THEN {"cancelled"} ELSE {}) : Return(s, err)
    /\ UNCHANGED <<runVars, tracker, batch, chunk, poolVars, sendReq, settleReq, brokerVars, lateVars>>

\* Mutant: sends the next chunk of a batch without looking for Stop.
NextChunkUnchecked(s) ==
    /\ pc[s] = "batching"
    /\ IF batch[s] = {}
       THEN Goto(s, "loop") /\ UNCHANGED <<batch, chunk>>
       ELSE \E c \in SUBSET batch[s] :
              /\ c # {} /\ \A m, n \in c : Affinity[m] = Affinity[n]
              /\ chunk' = [chunk EXCEPT ![s] = c]
              /\ batch' = [batch EXCEPT ![s] = @ \ c]
              /\ Goto(s, "sendReady")
    /\ UNCHANGED <<runVars, tracker, result, poolVars, sendReq, settleReq, brokerVars, lateVars>>

\* The next chunk: messages of one affinity, as many as fit.
\* sendAndCompleteMessages first looks at the request context.
NextChunk(s) ==
    /\ pc[s] = "batching"
    /\ IF batch[s] = {}
       THEN Goto(s, "loop") /\ UNCHANGED <<result, batch, chunk>>
       ELSE \E c \in SUBSET batch[s] :
              /\ c # {} /\ \A m, n \in c : Affinity[m] = Affinity[n]
              /\ chunk' = [chunk EXCEPT ![s] = c]
              /\ batch' = [batch EXCEPT ![s] = @ \ c]
              /\ IF stopped THEN Return(s, "cancelled")
                            ELSE Goto(s, "sendReady") /\ UNCHANGED result
    /\ UNCHANGED <<runVars, tracker, poolVars, sendReq, settleReq, brokerVars, lateVars>>

\* The chunk is recorded as unconfirmed, then sent under the work context.
DispatchSend(s) ==
    /\ pc[s] = "sendReady"
    /\ tracker' = Record(tracker, s, 0, 0, Cardinality(chunk[s]), 0)
    /\ sendReq' = Mark(sendReq, chunk[s], "open")
    /\ wire' = wire \cup {chunk[s]}
    /\ lateSends' = [lateSends EXCEPT ![s] = @ + IF stopped THEN 1 ELSE 0]
    /\ Goto(s, "sending")
    /\ UNCHANGED <<runVars, result, batch, chunk, poolVars, settleReq,
                   avail, locked, removed, accepted, lateRemovals>>

\* The acknowledgment arrived: the chunk is confirmed and its removal begins.
SendAcked(s) ==
    /\ pc[s] = "sending" /\ chunk[s] \notin wire
    /\ LET n == Cardinality(chunk[s]) IN tracker' = Record(tracker, s, n, 0, -n, 0)
    /\ sendReq' = Mark(sendReq, chunk[s], "acked")
    /\ StartPool(s, chunk[s])
    /\ Goto(s, "settling")
    /\ UNCHANGED <<runVars, result, batch, chunk, settleReq, brokerVars, lateVars>>

\* Mutant: removes the chunk from the source although its send failed.
SendFailedThenSettle(s) ==
    /\ pc[s] = "sending"
    /\ sendReq' = Mark(sendReq, chunk[s], "lost")
    /\ StartPool(s, chunk[s])
    /\ Goto(s, "settling")
    /\ UNCHANGED <<runVars, tracker, result, batch, chunk, settleReq, brokerVars, lateVars>>

\* The send failed or timed out: the chunk stays unconfirmed and runOne ends.
SendFailed(s) ==
    /\ pc[s] = "sending"
    /\ sendReq' = Mark(sendReq, chunk[s], "lost")
    /\ Return(s, "failed")
    /\ UNCHANGED <<runVars, tracker, batch, chunk, poolVars, settleReq, brokerVars, lateVars>>

-----------------------------------------------------------------------------
(* completeReceivedMessages: a scheduler and the settlement goroutines.    *)

\* jobs <- msg meets a goroutine waiting on the channel; the select may choose
\* this branch even when scheduleCtx is done.
HandOut(s, w) ==
    /\ pc[s] = "settling" /\ ~closed[s]
    /\ wpc[s][w] = "idle"
    /\ \E m \in todo[s] :
         /\ todo' = [todo EXCEPT ![s] = @ \ {m}]
         /\ wpc' = [wpc EXCEPT ![s][w] = "got"]
         /\ wmsg' = [wmsg EXCEPT ![s][w] = {m}]
    /\ UNCHANGED <<runVars, tracker, sourceVars, closed, schedStop, sendReq, settleReq, brokerVars, lateVars>>

\* The scheduling loop ends, by exhaustion or by scheduleCtx; jobs is closed.
CloseJobs(s) ==
    /\ pc[s] = "settling" /\ ~closed[s]
    /\ todo[s] = {} \/ ScheduleDone(s)
    /\ closed' = [closed EXCEPT ![s] = TRUE]
    /\ UNCHANGED <<runVars, tracker, sourceVars, todo, schedStop, wpc, wmsg,
                   sendReq, settleReq, brokerVars, lateVars>>

\* A goroutine with a message returns when scheduling was stopped.
CheckSchedule(s, w) ==
    /\ wpc[s][w] = "got"
    /\ wpc' = [wpc EXCEPT ![s][w] = IF ScheduleDone(s) THEN "off" ELSE "ready"]
    /\ UNCHANGED <<runVars, tracker, sourceVars, todo, closed, schedStop, wmsg,
                   sendReq, settleReq, brokerVars, lateVars>>

\* The removal is recorded as unconfirmed, then CompleteMessage is called.
DispatchComplete(s, w) ==
    /\ wpc[s][w] = "ready"
    /\ tracker' = Record(tracker, s, 0, 0, 0, 1)
    /\ settleReq' = Mark(settleReq, wmsg[s][w], "open")
    /\ lateRemovals' = [lateRemovals EXCEPT ![s] = @ + IF stopped THEN 1 ELSE 0]
    /\ wpc' = [wpc EXCEPT ![s][w] = "calling"]
    /\ UNCHANGED <<runVars, sourceVars, todo, closed, schedStop, wmsg, sendReq, brokerVars, lateSends>>

CompleteAcked(s, w) ==
    /\ wpc[s][w] = "calling" /\ wmsg[s][w] \subseteq removed
    /\ tracker' = Record(tracker, s, 0, 1, 0, -1)
    /\ settleReq' = Mark(settleReq, wmsg[s][w], "acked")
    /\ wpc' = [wpc EXCEPT ![s][w] = "idle"]
    /\ wmsg' = [wmsg EXCEPT ![s][w] = {}]
    /\ UNCHANGED <<runVars, sourceVars, todo, closed, schedStop, sendReq, brokerVars, lateVars>>

\* Mutant: a goroutine that fails leaves without stopping the scheduler.
CompleteFailedSilently(s, w) ==
    /\ wpc[s][w] = "calling"
    /\ settleReq' = Mark(settleReq, wmsg[s][w], "lost")
    /\ wpc' = [wpc EXCEPT ![s][w] = "off"]
    /\ UNCHANGED <<runVars, tracker, sourceVars, todo, closed, schedStop, wmsg,
                   sendReq, brokerVars, lateVars>>

\* A failed completion (lost lock, timeout, lost acknowledgment) stops the
\* scheduling of the rest and ends its goroutine.
CompleteFailed(s, w) ==
    /\ wpc[s][w] = "calling"
    /\ settleReq' = Mark(settleReq, wmsg[s][w], "lost")
    /\ schedStop' = [schedStop EXCEPT ![s] = TRUE]
    /\ wpc' = [wpc EXCEPT ![s][w] = "off"]
    /\ UNCHANGED <<runVars, tracker, sourceVars, todo, closed, wmsg, sendReq, brokerVars, lateVars>>

\* range over the closed channel ends.
WorkerExit(s, w) ==
    /\ wpc[s][w] = "idle" /\ closed[s]
    /\ wpc' = [wpc EXCEPT ![s][w] = "off"]
    /\ UNCHANGED <<runVars, tracker, sourceVars, todo, closed, schedStop, wmsg,
                   sendReq, settleReq, brokerVars, lateVars>>

\* Mutant: a completion error does not end the source's loop.
PoolErrorIgnored(s) ==
    IF ~Transfer /\ stopped THEN "cancelled" ELSE "none"

\* wg.Wait() returns; the first completion error, else the error of the
\* context the pool ran under, decides whether the source goes on.
PoolError(s) ==
    IF schedStop[s] THEN "failed"
    ELSE IF ~Transfer /\ stopped THEN "cancelled" ELSE "none"

SettleReturn(s) ==
    /\ pc[s] = "settling" /\ closed[s]
    /\ \A w \in Workers : wpc[s][w] = "off"
    /\ IF PoolError(s) # "none" THEN Return(s, PoolError(s))
       ELSE /\ Goto(s, IF Transfer THEN "batching" ELSE "loop")
            /\ UNCHANGED result
    /\ UNCHANGED <<runVars, tracker, batch, chunk, poolVars, sendReq, settleReq, brokerVars, lateVars>>

\* Every source returned.  The handler returns one of their errors (the first
\* to arrive), dispatch joins a cancelled request context's error to it, and
\* the tracker's outcome is sent as the terminal response.
RunError(first) == IF stopped THEN "cancelled" ELSE first

Respond ==
    /\ outcome = {}
    /\ \A s \in SourceModes : pc[s] = "finished"
    /\ LET errors == {result[s] : s \in Sources} \ {"none"}
       IN  \E first \in (IF errors = {} THEN {"none"} ELSE errors) :
             outcome' = {Finish(tracker, RunError(first))}
    /\ UNCHANGED <<stopped, tracker, sourceVars, poolVars, sendReq, settleReq, brokerVars, lateVars>>

-----------------------------------------------------------------------------
(* The broker (external).                                                  *)

\* A send is accepted whole, before or after the worker stopped waiting for it.
BrokerAccepts(b) ==
    /\ b \in wire
    /\ wire' = wire \ {b}
    /\ accepted' = [m \in Msgs |-> accepted[m] + IF m \in b THEN 1 ELSE 0]
    /\ UNCHANGED <<runVars, tracker, sourceVars, poolVars, sendReq, settleReq,
                   avail, locked, removed, lateVars>>

\* A completion takes effect while the lock it names is held.
BrokerRemoves(m) ==
    /\ settleReq[m] \in {"open", "lost"} /\ m \in locked
    /\ locked' = locked \ {m}
    /\ removed' = removed \cup {m}
    /\ UNCHANGED <<runVars, tracker, sourceVars, poolVars, sendReq, settleReq,
                   avail, wire, accepted, lateVars>>

\* A lock expires and the message can be received again.
LockExpires(m) ==
    /\ m \in locked
    /\ locked' = locked \ {m}
    /\ avail' = avail \cup {m}
    /\ UNCHANGED <<runVars, tracker, sourceVars, poolVars, sendReq, settleReq,
                   removed, wire, accepted, lateVars>>

\* Or the message has been delivered too often, or is too old: it leaves its
\* subqueue for the dead-letter one, whatever the worker knows or has sent of it.
DeadLetter(m) ==
    /\ m \in DOMAIN DeadForm /\ m \in avail \cup locked
    /\ locked' = locked \ {m}
    /\ avail' = (avail \ {m}) \cup {DeadForm[m]}
    /\ UNCHANGED <<runVars, tracker, sourceVars, poolVars, sendReq, settleReq,
                   removed, wire, accepted, lateVars>>

\* The run is over.
Terminated == outcome # {} /\ UNCHANGED vars

WorkerStep(s, w) ==
    \/ HandOut(s, w) \/ CheckSchedule(s, w) \/ DispatchComplete(s, w)
    \/ CompleteAcked(s, w) \/ CompleteFailed(s, w) \/ WorkerExit(s, w)

SourceStep(s) ==
    \/ BeginReceive(s) \/ Receive(s) \/ ReceiveNothing(s)
    \/ BatchRefused(s) \/ NextChunk(s) \/ DispatchSend(s) \/ SendAcked(s) \/ SendFailed(s)
    \/ CloseJobs(s) \/ SettleReturn(s)

Broker ==
    \/ \E b \in wire : BrokerAccepts(b)
    \/ \E m \in Msgs : BrokerRemoves(m) \/ LockExpires(m) \/ DeadLetter(m)

Next ==
    \/ Stop
    \/ \E s \in SourceModes : SourceStep(s)
    \/ \E s \in SourceModes, w \in Workers : WorkerStep(s, w)
    \/ Respond
    \/ Broker
    \/ Terminated

Spec == Init /\ [][Next]_vars

\* Every goroutine keeps running and every broker call ends, by its answer or
\* by its timeout.  Nothing is assumed of the user or of the broker.
Fairness ==
    /\ \A s \in SourceModes : WF_vars(SourceStep(s))
    /\ \A s \in SourceModes, w \in Workers : WF_vars(WorkerStep(s, w))
    /\ WF_vars(Respond)

FairSpec == Spec /\ Fairness

-----------------------------------------------------------------------------
(* Properties.                                                             *)

Removed(s) == removed \cap Of(s)
AcceptedFrom(s) == {m \in Of(s) : accepted[m] > 0}

\* The counters the user is shown bound what really happened at the broker, at
\* every moment and for ever after: "confirmed" never overstates it, and
\* confirmed plus unconfirmed is an upper bound, even for requests the broker
\* executes after the worker stopped waiting (recordOperation's ordering around
\* send and CompleteMessage; docs/operations.md "Interpreting results").
ReportBounds ==
    \A s \in SourceModes :
        /\ tracker[s].Settled <= Cardinality(Removed(s))
        /\ Cardinality(Removed(s)) <= tracker[s].Settled + tracker[s].SettlementUnconfirmed
        /\ tracker[s].Sent <= Cardinality(AcceptedFrom(s))
        /\ Cardinality(AcceptedFrom(s)) <= tracker[s].Sent + tracker[s].SendUnconfirmed

\* A transfer never loses a message: whatever leaves the source was accepted by
\* the destination before (sendAndCompleteMessages settles only after the send
\* was acknowledged).
NoMessageLost == Transfer => \A m \in removed : accepted[m] > 0

\* One run delivers a message at most once from each subqueue, although a message
\* whose removal failed becomes receivable again: the failure ends its source's
\* loop.  A message that the broker dead-letters after its send may be sent again
\* by the source that consumes the dead-letter subqueue (handlers_move.go:325);
\* then the run ends with the outcome unknown, never with a definite one.
NoSilentDuplicate ==
    /\ \A m \in Msgs : accepted[m] <= 1
    /\ \A o \in outcome, m \in DOMAIN DeadForm :
          accepted[m] + accepted[DeadForm[m]] > 1 => o.status = "unknown"

\* A terminal status other than unknown is the exact truth, for ever: the
\* totals are what the broker did, and nothing accepted is still at the source
\* (finish's Unresolved test; Stop settles an accepted batch before it ends).
ExactUnlessUnknown ==
    \A o \in outcome : o.status # "unknown" =>
        \A s \in SourceModes :
            /\ tracker[s].Settled = Cardinality(Removed(s))
            /\ tracker[s].Sent = Cardinality(AcceptedFrom(s))
            /\ Transfer => AcceptedFrom(s) = Removed(s)

\* The report is right: it bounds what happened, and is exact unless it says
\* that something is unknown.
ReportHolds == ReportBounds /\ ExactUnlessUnknown

\* Stop ends intake: each source dispatches at most the send it had already
\* decided on, and each settlement goroutine of a drain at most the removal it
\* had already decided on (the context checks of sendAndCompleteMessages and of
\* completeReceivedMessages).
StopEndsIntake ==
    \A s \in SourceModes :
        /\ lateSends[s] <= 1
        /\ ~Transfer => lateRemovals[s] <= Cardinality(Workers)

\* Once the terminal response is sent the run touches nothing any more: its
\* counters are final and no request is dispatched or still awaited
\* (wg.Wait in completeReceivedMessages, the join of the two sources).
FinalReport ==
    [][outcome # {} => UNCHANGED <<tracker, sendReq, settleReq, outcome>>]_vars

\* Every run ends with a terminal response, stopped or not, whatever the broker
\* does: no goroutine of the pool waits for ever for the scheduler, nor the
\* scheduler for a goroutine.
RunEnds == <>(outcome # {})

=============================================================================
