-------------------------- MODULE BulkTransferProofs --------------------------
(***************************************************************************)
(* Theorems about BulkTransfer, for every set of messages, any number of   *)
(* settlement goroutines, any batch size, and both kinds of run.           *)
(*                                                                         *)
(* The inductive invariant IInv locates every message a source works on    *)
(* (Places), says what its two requests can be there (Progress), ties the  *)
(* requests to what the broker did (Requests, Wire), and equates each      *)
(* counter with the size of the set of messages it counts (Counts).  Beside *)
(* it, Forms says that a message and what it becomes in the dead-letter     *)
(* subqueue are never both there.                                          *)
(***************************************************************************)
EXTENDS BulkTransfer, FiniteSetTheorems, TLAPS

Busy == {"got", "ready", "calling"}

\* Where each source's messages are.
PlacesAt(s) ==
    /\ s \notin Sources => pc[s] = "finished" /\ result[s] = "none"
    /\ batch[s] \subseteq Of(s) /\ chunk[s] \subseteq Of(s)
    /\ ~Transfer => batch[s] = {} /\ pc[s] \notin {"batching", "sendReady", "sending"}
    /\ pc[s] \in {"sendReady", "sending", "settling"} => batch[s] \cap chunk[s] = {}
    /\ pc[s] = "settling" => todo[s] \subseteq chunk[s]
    /\ \A w \in Workers :
         /\ wpc[s][w] # "off" => pc[s] = "settling"
         /\ wpc[s][w] \in Busy =>
              /\ \E m \in chunk[s] : wmsg[s][w] = {m}
              /\ wmsg[s][w] \cap todo[s] = {}
              /\ \A v \in Workers \ {w} :
                   wpc[s][v] \in Busy => wmsg[s][v] \cap wmsg[s][w] = {}

\* A message the source is not working on is untouched or finished with.
Clean(m) == /\ settleReq[m] \in {"none", "acked"}
            /\ sendReq[m] \in {"none", "acked"}
            /\ sendReq[m] = "acked" => settleReq[m] = "acked"

Untouched(m) == sendReq[m] = "none" /\ settleReq[m] = "none"

\* A message of a chunk under settlement is waiting, held by a goroutine, or
\* has made the pool stop.
Settling(s, m) ==
    /\ sendReq[m] = IF Transfer THEN "acked" ELSE "none"
    /\ settleReq[m] = "none" =>
          \/ m \in todo[s] \/ ScheduleDone(s)
          \/ \E w \in Workers : wpc[s][w] \in {"got", "ready"} /\ m \in wmsg[s][w]
    /\ settleReq[m] = "open" => \E w \in Workers : wpc[s][w] = "calling" /\ m \in wmsg[s][w]
    /\ settleReq[m] = "lost" => schedStop[s]

\* What the goroutines and the channel hold has the requests of its stage.
PoolProgress(s) ==
    /\ closed[s] => todo[s] = {} \/ ScheduleDone(s)
    /\ \A m \in todo[s] : settleReq[m] = "none"
    /\ \A w \in Workers : \A m \in wmsg[s][w] :
         /\ wpc[s][w] \in {"got", "ready"} => settleReq[m] = "none"
         /\ wpc[s][w] = "calling" => settleReq[m] = "open"

\* How far the requests of a source's messages are.
ProgressAt(s) ==
    /\ \A m \in batch[s] : Untouched(m)
    /\ pc[s] \in {"loop", "receiving", "batching", "sendReady"} => \A m \in Of(s) : Clean(m)
    /\ pc[s] = "sendReady" => \A m \in chunk[s] : Untouched(m)
    /\ pc[s] = "sending" => /\ \A m \in Of(s) \ chunk[s] : Clean(m)
                            /\ \A m \in chunk[s] : sendReq[m] = "open" /\ settleReq[m] = "none"
    /\ pc[s] = "settling" => /\ \A m \in Of(s) \ chunk[s] : Clean(m)
                             /\ \A m \in chunk[s] : Settling(s, m)
                             /\ PoolProgress(s)
    /\ pc[s] = "finished" /\ result[s] = "none" => \A m \in Of(s) : Clean(m)

SendIs(s, states) == {m \in Of(s) : sendReq[m] \in states}
SettleIs(s, states) == {m \in Of(s) : settleReq[m] \in states}

\* Each counter is the number of messages it counts.
CountsAt(s) ==
    /\ tracker[s].Sent = Cardinality(SendIs(s, {"acked"}))
    /\ tracker[s].SendUnconfirmed = Cardinality(SendIs(s, {"open", "lost"}))
    /\ tracker[s].Settled = Cardinality(SettleIs(s, {"acked"}))
    /\ tracker[s].SettlementUnconfirmed = Cardinality(SettleIs(s, {"open", "lost"}))

SourceInv(s) == PlacesAt(s) /\ ProgressAt(s) /\ CountsAt(s)

\* What the worker knows of its requests, against what the broker did.
Requests ==
    \A m \in Msgs :
        /\ m \in removed => settleReq[m] # "none"
        /\ settleReq[m] = "acked" => m \in removed
        /\ accepted[m] > 0 => sendReq[m] # "none"
        /\ sendReq[m] = "acked" => accepted[m] > 0
        /\ Transfer /\ settleReq[m] # "none" => sendReq[m] = "acked"
        /\ m \in avail => m \notin locked /\ m \notin removed
        /\ m \in locked => m \notin removed

\* A send on the wire has not been accepted, and no message is in two of them.
Wire ==
    /\ \A b \in wire : \A m \in b : accepted[m] = 0 /\ sendReq[m] \in {"open", "lost"}
    /\ \A b, c \in wire : b # c => b \cap c = {}
    /\ \A s \in SourceModes : pc[s] = "sending" /\ chunk[s] \notin wire =>
          \A m \in chunk[s] : accepted[m] > 0
    /\ \A m \in Msgs : accepted[m] <= 1

\* The response is made of the final counters, once every source has returned.
Response ==
    outcome # {} =>
        /\ \A s \in SourceModes : pc[s] = "finished"
        /\ \A o \in outcome : \E err \in ErrorClass :
              /\ o = Finish(tracker, err)
              /\ err = "none" => \A s \in SourceModes : result[s] = "none"

IInv == /\ TypeOK
        /\ \A s \in SourceModes : SourceInv(s)
        /\ Requests /\ Wire /\ Response

\* What is in a subqueue of the source, or was removed from one by this run.
Present == avail \cup locked \cup removed

\* While a message is there, or once the run removed it, it has not become a
\* dead letter.
Forms == \A m \in DOMAIN DeadForm : m \in Present => DeadForm[m] \notin Present

\* A drain sends nothing.
NoSend == ~Transfer => \A m \in Msgs : sendReq[m] = "none"

FormInv == Forms /\ NoSend

\* What bounds the requests dispatched after Stop, for each source: it has not
\* decided on another send, and every goroutine about to remove a message is
\* one that has not yet removed one since.
Ready(s) == {w \in Workers : wpc[s][w] = "ready"}

LateAt(s) ==
    /\ lateSends[s] <= 1
    /\ lateSends[s] > 0 => stopped /\ pc[s] # "sendReady"
    /\ lateRemovals[s] > 0 => stopped
    /\ ~Transfer => lateRemovals[s] + Cardinality(Ready(s)) <= Cardinality(Workers)

LateInv == \A s \in SourceModes : LateAt(s)

-----------------------------------------------------------------------------
(* Facts about the tracker and about finite sets of messages.              *)

\* Every set of messages is finite, so its size is a natural number.
LEMMA MsgSets ==
    ASSUME NEW A \in SUBSET Msgs
    PROVE  IsFiniteSet(A) /\ Cardinality(A) \in Nat
  BY BulkAssumption, FS_Subset, FS_CardinalityType

\* The report built from a tracker is one of the outcomes of the contract.
LEMMA FinishType ==
    ASSUME NEW tr, NEW err \in ErrorClass
    PROVE  Finish(tr, err) \in Outcomes
  BY DEF Finish, FinishStatus, FinishCode, Outcomes, Statuses, ErrorCodes, ErrorClass

\* Marking a set of messages changes exactly those requests.
LEMMA MarkFacts ==
    ASSUME NEW req \in [Msgs -> ReqStates], NEW ms \in SUBSET Msgs, NEW st \in ReqStates
    PROVE  /\ Mark(req, ms, st) \in [Msgs -> ReqStates]
           /\ \A m \in ms : Mark(req, ms, st)[m] = st
           /\ \A m \in Msgs \ ms : Mark(req, ms, st)[m] = req[m]
  BY DEF Mark

-----------------------------------------------------------------------------
(* Type correctness.                                                       *)

LEMMA InitType == Init => TypeOK
  <1> SUFFICES ASSUME Init PROVE TypeOK
    OBVIOUS
  <1>1. ReportType
    <2>1. ZeroOutcome \in SourceOutcome
      BY DEF ZeroOutcome, SourceOutcome
    <2>2. tracker \in [SourceModes -> SourceOutcome]
      BY <2>1 DEF Init, NewTracker
    <2> QED
      BY <2>2 DEF Init, ReportType
  <1>2. SourceType
    BY DEF Init, SourceType, PCs, ErrorClass
  <1>3. PoolType
    BY DEF Init, PoolType, WorkerPCs
  <1>4. RequestType /\ BrokerType
    BY DEF Init, RequestType, ReqStates, BrokerType
  <1> QED
    BY <1>1, <1>2, <1>3, <1>4 DEF TypeOK

\* Every step keeps every variable in its type.
LEMMA NextType == TypeOK /\ [Next]_vars => TypeOK'
  <1> SUFFICES ASSUME TypeOK, [Next]_vars PROVE TypeOK'
    OBVIOUS
  <1> USE DEF TypeOK, runVars, sourceVars, poolVars, brokerVars, lateVars
  <1>1. CASE Stop
    BY <1>1 DEF Stop, ReportType, SourceType, PoolType, RequestType, BrokerType
  <1>2. ASSUME NEW s \in SourceModes, SourceStep(s) PROVE TypeOK'
    <2>1. CASE BeginReceive(s)
      <3>1. SourceType'
        BY <2>1 DEF BeginReceive, Return, Goto, PCs, ErrorClass, SourceType
      <3>2. ReportType' /\ PoolType' /\ RequestType' /\ BrokerType'
        BY <2>1 DEF BeginReceive, ReportType, PoolType, RequestType, BrokerType
      <3> QED
        BY <3>1, <3>2
    <2>2. CASE Receive(s)
      <3>1. PICK B \in SUBSET (avail \cap Of(s)) :
              /\ avail' = avail \ B /\ locked' = locked \cup B
              /\ IF Transfer
                 THEN /\ batch' = [batch EXCEPT ![s] = B] /\ Goto(s, "batching")
                      /\ UNCHANGED <<chunk, poolVars>>
                 ELSE /\ chunk' = [chunk EXCEPT ![s] = B] /\ Goto(s, "settling")
                      /\ StartPool(s, B) /\ UNCHANGED batch
        BY <2>2 DEF Receive
      <3>2. B \in SUBSET Msgs
        BY DEF BrokerType
      <3>3. result' = result
        BY <2>2 DEF Receive
      <3>4. SourceType'
        BY <3>1, <3>2, <3>3 DEF Goto, PCs, SourceType
      <3>5. PoolType'
        <4>1. CASE Transfer
          BY <3>1, <4>1 DEF PoolType
        <4>2. CASE ~Transfer
          <5>1. StartPool(s, B)
            BY <3>1, <4>2
          <5> QED
            BY <3>2, <5>1 DEF StartPool, WorkerPCs, PoolType
        <4> QED
          BY <4>1, <4>2
      <3>6. BrokerType'
        BY <2>2, <3>1, <3>2 DEF Receive, BrokerType
      <3>7. ReportType' /\ RequestType'
        BY <2>2 DEF Receive, ReportType, RequestType
      <3> QED
        BY <3>4, <3>5, <3>6, <3>7
    <2>3. CASE ReceiveNothing(s)
      <3>1. SourceType'
        BY <2>3 DEF ReceiveNothing, Return, Goto, PCs, ErrorClass, SourceType
      <3>2. ReportType' /\ PoolType' /\ RequestType' /\ BrokerType'
        BY <2>3 DEF ReceiveNothing, ReportType, PoolType, RequestType, BrokerType
      <3> QED
        BY <3>1, <3>2
    <2>4. CASE BatchRefused(s)
      <3>1. SourceType'
        BY <2>4 DEF BatchRefused, Return, Goto, PCs, ErrorClass, SourceType
      <3>2. ReportType' /\ PoolType' /\ RequestType' /\ BrokerType'
        BY <2>4 DEF BatchRefused, ReportType, PoolType, RequestType, BrokerType
      <3> QED
        BY <3>1, <3>2
    <2>5. CASE NextChunk(s)
      <3>1. SourceType'
        BY <2>5 DEF NextChunk, Return, Goto, PCs, ErrorClass, SourceType
      <3>2. ReportType' /\ PoolType' /\ RequestType' /\ BrokerType'
        BY <2>5 DEF NextChunk, ReportType, PoolType, RequestType, BrokerType
      <3> QED
        BY <3>1, <3>2
    <2>6. CASE DispatchSend(s)
      <3>1. tracker' \in [SourceModes -> SourceOutcome]
        <4>1. Cardinality(chunk[s]) \in Int /\ -Cardinality(chunk[s]) \in Int
          BY MsgSets DEF SourceType
        <4>2. tracker \in [SourceModes -> SourceOutcome]
          BY DEF ReportType
        <4>3. Record(tracker, s, 0, 0, Cardinality(chunk[s]), 0) \in [SourceModes -> SourceOutcome]
          BY <4>1, <4>2 DEF Record, SourceOutcome
        <4>4. tracker' = Record(tracker, s, 0, 0, Cardinality(chunk[s]), 0)
          BY <2>6 DEF DispatchSend
        <4> QED
          BY <4>3, <4>4
      <3>2. ReportType'
        BY <2>6, <3>1 DEF DispatchSend, ReportType
      <3>3. SourceType'
        BY <2>6 DEF DispatchSend, Goto, PCs, SourceType
      <3>4. RequestType'
        BY <2>6 DEF DispatchSend, Mark, ReqStates, RequestType
      <3>5. BrokerType'
        BY <2>6 DEF DispatchSend, SourceType, BrokerType
      <3>6. PoolType'
        BY <2>6 DEF DispatchSend, PoolType
      <3> QED
        BY <3>1, <3>2, <3>3, <3>4, <3>5, <3>6
    <2>7. CASE SendAcked(s)
      <3>1. tracker' \in [SourceModes -> SourceOutcome]
        <4>1. Cardinality(chunk[s]) \in Int /\ -Cardinality(chunk[s]) \in Int
          BY MsgSets DEF SourceType
        <4>2. tracker \in [SourceModes -> SourceOutcome]
          BY DEF ReportType
        <4>3. Record(tracker, s, Cardinality(chunk[s]), 0, -Cardinality(chunk[s]), 0) \in [SourceModes -> SourceOutcome]
          BY <4>1, <4>2 DEF Record, SourceOutcome
        <4>4. tracker' = Record(tracker, s, Cardinality(chunk[s]), 0, -Cardinality(chunk[s]), 0)
          BY <2>7 DEF SendAcked
        <4> QED
          BY <4>3, <4>4
      <3>2. ReportType'
        BY <2>7, <3>1 DEF SendAcked, ReportType
      <3>3. SourceType'
        BY <2>7 DEF SendAcked, Goto, PCs, SourceType
      <3>4. PoolType'
        BY <2>7 DEF SendAcked, StartPool, WorkerPCs, SourceType, PoolType
      <3>5. RequestType'
        BY <2>7 DEF SendAcked, Mark, ReqStates, RequestType
      <3>6. BrokerType'
        BY <2>7 DEF SendAcked, BrokerType
      <3> QED
        BY <3>1, <3>2, <3>3, <3>4, <3>5, <3>6
    <2>8. CASE SendFailed(s)
      <3>1. SourceType'
        BY <2>8 DEF SendFailed, Return, Goto, PCs, ErrorClass, SourceType
      <3>2. RequestType'
        BY <2>8 DEF SendFailed, Mark, ReqStates, RequestType
      <3>3. ReportType' /\ PoolType' /\ BrokerType'
        BY <2>8 DEF SendFailed, ReportType, PoolType, BrokerType
      <3> QED
        BY <3>1, <3>2, <3>3
    <2>9. CASE CloseJobs(s)
      <3>1. PoolType'
        BY <2>9 DEF CloseJobs, PoolType
      <3>2. ReportType' /\ SourceType' /\ RequestType' /\ BrokerType'
        BY <2>9 DEF CloseJobs, ReportType, SourceType, RequestType, BrokerType
      <3> QED
        BY <3>1, <3>2
    <2>10. CASE SettleReturn(s)
      <3>1. SourceType'
        BY <2>10 DEF SettleReturn, Return, Goto, PoolError, PCs, ErrorClass, SourceType
      <3>2. ReportType' /\ PoolType' /\ RequestType' /\ BrokerType'
        BY <2>10 DEF SettleReturn, ReportType, PoolType, RequestType, BrokerType
      <3> QED
        BY <3>1, <3>2
    <2> QED
      BY <1>2, <2>1, <2>2, <2>3, <2>4, <2>5, <2>6, <2>7, <2>8, <2>9, <2>10 DEF SourceStep
  <1>3. ASSUME NEW s \in SourceModes, NEW w \in Workers, WorkerStep(s, w) PROVE TypeOK'
    <2>1. CASE HandOut(s, w)
      <3>1. PoolType'
        BY <2>1 DEF HandOut, WorkerPCs, PoolType
      <3>2. ReportType' /\ SourceType' /\ RequestType' /\ BrokerType'
        BY <2>1 DEF HandOut, ReportType, SourceType, RequestType, BrokerType
      <3> QED
        BY <3>1, <3>2
    <2>2. CASE CheckSchedule(s, w)
      <3>1. PoolType'
        BY <2>2 DEF CheckSchedule, WorkerPCs, PoolType
      <3>2. ReportType' /\ SourceType' /\ RequestType' /\ BrokerType'
        BY <2>2 DEF CheckSchedule, ReportType, SourceType, RequestType, BrokerType
      <3> QED
        BY <3>1, <3>2
    <2>3. CASE DispatchComplete(s, w)
      <3>1. tracker' \in [SourceModes -> SourceOutcome]
        <4>1. tracker \in [SourceModes -> SourceOutcome]
          BY DEF ReportType
        <4>3. Record(tracker, s, 0, 0, 0, 1) \in [SourceModes -> SourceOutcome]
          BY <4>1 DEF Record, SourceOutcome
        <4>4. tracker' = Record(tracker, s, 0, 0, 0, 1)
          BY <2>3 DEF DispatchComplete
        <4> QED
          BY <4>3, <4>4
      <3>2. ReportType'
        BY <2>3, <3>1 DEF DispatchComplete, ReportType
      <3>3. PoolType'
        BY <2>3 DEF DispatchComplete, WorkerPCs, PoolType
      <3>4. RequestType'
        BY <2>3 DEF DispatchComplete, Mark, ReqStates, RequestType
      <3>5. SourceType' /\ BrokerType'
        BY <2>3 DEF DispatchComplete, SourceType, BrokerType
      <3> QED
        BY <3>1, <3>2, <3>3, <3>4, <3>5
    <2>4. CASE CompleteAcked(s, w)
      <3>1. tracker' \in [SourceModes -> SourceOutcome]
        <4>1. tracker \in [SourceModes -> SourceOutcome]
          BY DEF ReportType
        <4>3. Record(tracker, s, 0, 1, 0, -1) \in [SourceModes -> SourceOutcome]
          BY <4>1 DEF Record, SourceOutcome
        <4>4. tracker' = Record(tracker, s, 0, 1, 0, -1)
          BY <2>4 DEF CompleteAcked
        <4> QED
          BY <4>3, <4>4
      <3>2. ReportType'
        BY <2>4, <3>1 DEF CompleteAcked, ReportType
      <3>3. PoolType'
        BY <2>4 DEF CompleteAcked, WorkerPCs, PoolType
      <3>4. RequestType'
        BY <2>4 DEF CompleteAcked, Mark, ReqStates, RequestType
      <3>5. SourceType' /\ BrokerType'
        BY <2>4 DEF CompleteAcked, SourceType, BrokerType
      <3> QED
        BY <3>1, <3>2, <3>3, <3>4, <3>5
    <2>5. CASE CompleteFailed(s, w)
      <3>1. PoolType'
        BY <2>5 DEF CompleteFailed, WorkerPCs, PoolType
      <3>2. RequestType'
        BY <2>5 DEF CompleteFailed, Mark, ReqStates, RequestType
      <3>3. ReportType' /\ SourceType' /\ BrokerType'
        BY <2>5 DEF CompleteFailed, ReportType, SourceType, BrokerType
      <3> QED
        BY <3>1, <3>2, <3>3
    <2>6. CASE WorkerExit(s, w)
      <3>1. PoolType'
        BY <2>6 DEF WorkerExit, WorkerPCs, PoolType
      <3>2. ReportType' /\ SourceType' /\ RequestType' /\ BrokerType'
        BY <2>6 DEF WorkerExit, ReportType, SourceType, RequestType, BrokerType
      <3> QED
        BY <3>1, <3>2
    <2> QED
      BY <1>3, <2>1, <2>2, <2>3, <2>4, <2>5, <2>6 DEF WorkerStep
  <1>4. CASE Respond
    <2>1. ASSUME NEW first \in ErrorClass PROVE Finish(tracker, RunError(first)) \in Outcomes
      BY FinishType DEF RunError, ErrorClass
    <2>2. {result[s] : s \in Sources} \subseteq ErrorClass
      BY BulkAssumption DEF SourceType
    <2>3. PICK first \in ErrorClass : outcome' = {Finish(tracker, RunError(first))}
      BY <1>4, <2>2 DEF Respond, ErrorClass
    <2>4. outcome' \in SUBSET Outcomes
      BY <2>1, <2>3
    <2> QED
      BY <1>4, <2>4 DEF Respond, ReportType, SourceType, PoolType, RequestType, BrokerType
  <1>5. CASE Broker
    <2>1. ASSUME NEW b \in wire, BrokerAccepts(b) PROVE TypeOK'
      BY <2>1 DEF BrokerAccepts, ReportType, SourceType, PoolType, RequestType, BrokerType
    <2>2. ASSUME NEW m \in Msgs, BrokerRemoves(m) PROVE TypeOK'
      BY <2>2 DEF BrokerRemoves, ReportType, SourceType, PoolType, RequestType, BrokerType
    <2>3. ASSUME NEW m \in Msgs, LockExpires(m) PROVE TypeOK'
      BY <2>3 DEF LockExpires, ReportType, SourceType, PoolType, RequestType, BrokerType
    <2>4. ASSUME NEW m \in Msgs, DeadLetter(m) PROVE TypeOK'
      <3>1. DeadForm[m] \in Msgs
        BY <2>4, BulkAssumption DEF DeadLetter
      <3> QED
        BY <2>4, <3>1 DEF DeadLetter, ReportType, SourceType, PoolType, RequestType, BrokerType
    <2> QED
      BY <1>5, <2>1, <2>2, <2>3, <2>4 DEF Broker
  <1>6. CASE Terminated \/ UNCHANGED vars
    BY <1>6 DEF Terminated, vars, ReportType, SourceType, PoolType, RequestType, BrokerType
  <1> QED
    BY <1>1, <1>2, <1>3, <1>4, <1>5, <1>6 DEF Next

\* Type correctness of every reachable state, for every constant: the counters
\* of the tracker and the places of every message keep their ranges.
THEOREM TypeCorrect == Spec => []TypeOK
  BY InitType, NextType, PTL DEF Spec

-----------------------------------------------------------------------------
(* What a step leaves alone.                                               *)

\* The step does not concern the source, its pool, its requests or its counters.
Unmoved(s) ==
    /\ pc'[s] = pc[s] /\ result'[s] = result[s]
    /\ batch'[s] = batch[s] /\ chunk'[s] = chunk[s]
    /\ todo'[s] = todo[s] /\ closed'[s] = closed[s] /\ schedStop'[s] = schedStop[s]
    /\ wpc'[s] = wpc[s] /\ wmsg'[s] = wmsg[s]
    /\ tracker'[s] = tracker[s]
    /\ \A m \in Of(s) : sendReq'[m] = sendReq[m] /\ settleReq'[m] = settleReq[m]
    /\ stopped => stopped'

\* The step makes no request and hears of none.
Silent == UNCHANGED <<tracker, sendReq, settleReq>>

\* Two sources have no message in common.
LEMMA OfDisjoint ==
    ASSUME NEW s \in SourceModes, NEW t \in SourceModes, s # t, NEW m \in Of(s)
    PROVE  m \in Msgs /\ m \notin Of(t)
  BY DEF Of

\* The counters stay right where neither they nor the requests change.
LEMMA CountsStay ==
    ASSUME NEW s \in SourceModes, CountsAt(s), tracker'[s] = tracker[s],
           \A m \in Of(s) : sendReq'[m] = sendReq[m] /\ settleReq'[m] = settleReq[m]
    PROVE  CountsAt(s)'
  <1>1. SendIs(s, {"acked"})' = SendIs(s, {"acked"})
    BY DEF SendIs
  <1>2. SendIs(s, {"open", "lost"})' = SendIs(s, {"open", "lost"})
    BY DEF SendIs
  <1>3. SettleIs(s, {"acked"})' = SettleIs(s, {"acked"})
    BY DEF SettleIs
  <1>4. SettleIs(s, {"open", "lost"})' = SettleIs(s, {"open", "lost"})
    BY DEF SettleIs
  <1> QED
    BY <1>1, <1>2, <1>3, <1>4 DEF CountsAt

\* A source a step does not concern keeps its part of the invariant.
LEMMA UnmovedSource ==
    ASSUME NEW s \in SourceModes, SourceInv(s), Unmoved(s)
    PROVE  SourceInv(s)'
  <1>1. PlacesAt(s)'
    BY DEF SourceInv, Unmoved, PlacesAt
  <1>2. ASSUME NEW m \in Of(s) PROVE (Clean(m) => Clean(m)') /\ (Untouched(m) => Untouched(m)')
    BY DEF Unmoved, Clean, Untouched
  <1>3. ScheduleDone(s) => ScheduleDone(s)'
    BY DEF Unmoved, ScheduleDone
  <1>4. ASSUME NEW m \in Of(s), Settling(s, m) PROVE Settling(s, m)'
    BY <1>3, <1>4 DEF Unmoved, Settling
  <1>5. batch[s] \subseteq Of(s) /\ chunk[s] \subseteq Of(s)
    BY DEF SourceInv, PlacesAt
  <1>6. PoolProgress(s) /\ pc[s] = "settling" => PoolProgress(s)'
    <2> SUFFICES ASSUME PoolProgress(s), pc[s] = "settling" PROVE PoolProgress(s)'
      OBVIOUS
    <2>1. closed'[s] => todo'[s] = {} \/ ScheduleDone(s)'
      BY <1>3 DEF Unmoved, PoolProgress
    <2>2. \A m \in todo'[s] : settleReq'[m] = "none"
      BY <1>5 DEF Unmoved, PoolProgress, SourceInv, PlacesAt
    <2>3. ASSUME NEW w \in Workers, NEW m \in wmsg'[s][w]
          PROVE  /\ wpc'[s][w] \in {"got", "ready"} => settleReq'[m] = "none"
                 /\ wpc'[s][w] = "calling" => settleReq'[m] = "open"
      <3>1. wpc[s][w] \in Busy => m \in Of(s)
        BY <1>5, <2>3 DEF Unmoved, SourceInv, PlacesAt
      <3> QED
        BY <2>3, <3>1 DEF Unmoved, PoolProgress, Busy
    <2> QED
      BY <2>1, <2>2, <2>3 DEF PoolProgress
  <1>7. ProgressAt(s)'
    <2>1. \A m \in batch'[s] : Untouched(m)'
      BY <1>2, <1>5 DEF Unmoved, SourceInv, ProgressAt
    <2>2. pc'[s] \in {"loop", "receiving", "batching", "sendReady"} => \A m \in Of(s) : Clean(m)'
      BY <1>2 DEF Unmoved, SourceInv, ProgressAt
    <2>3. pc'[s] = "sendReady" => \A m \in chunk'[s] : Untouched(m)'
      BY <1>2, <1>5 DEF Unmoved, SourceInv, ProgressAt
    <2>4. pc'[s] = "sending" => /\ \A m \in Of(s) \ chunk'[s] : Clean(m)'
                                /\ \A m \in chunk'[s] : sendReq'[m] = "open" /\ settleReq'[m] = "none"
      BY <1>2, <1>5 DEF Unmoved, SourceInv, ProgressAt
    <2>5. pc'[s] = "settling" => /\ \A m \in Of(s) \ chunk'[s] : Clean(m)'
                                 /\ \A m \in chunk'[s] : Settling(s, m)'
                                 /\ PoolProgress(s)'
      BY <1>2, <1>4, <1>5, <1>6 DEF Unmoved, SourceInv, ProgressAt
    <2>6. pc'[s] = "finished" /\ result'[s] = "none" => \A m \in Of(s) : Clean(m)'
      BY <1>2 DEF Unmoved, SourceInv, ProgressAt
    <2> QED
      BY <2>1, <2>2, <2>3, <2>4, <2>5, <2>6 DEF ProgressAt
  <1>8. CountsAt(s)'
    BY CountsStay DEF SourceInv, Unmoved
  <1> QED
    BY <1>1, <1>7, <1>8 DEF SourceInv

\* A step that makes no request and leaves the broker alone keeps what is known
\* of both, unless a source enters the send by it.
LEMMA GlobalsStay ==
    ASSUME Requests, Wire, Silent, UNCHANGED brokerVars,
           \A s \in SourceModes : pc'[s] = "sending" => pc[s] = "sending" /\ chunk'[s] = chunk[s]
    PROVE  Requests' /\ Wire'
  BY DEF Requests, Wire, Silent, brokerVars

\* Once the response is sent no source and no goroutine takes a step.
LEMMA Unanswered ==
    ASSUME IInv, NEW s \in SourceModes, pc[s] # "finished", outcome' = outcome
    PROVE  outcome = {} /\ Response'
  BY DEF IInv, Response

\* A step of one source keeps the invariant if it keeps that source's part and
\* what concerns all of them.
LEMMA OneSource ==
    ASSUME IInv, TypeOK', NEW s \in SourceModes,
           \A t \in SourceModes \ {s} : Unmoved(t),
           SourceInv(s)', Requests', Wire', Response'
    PROVE  IInv'
  <1>1. \A t \in SourceModes : SourceInv(t)'
    BY UnmovedSource DEF IInv
  <1> QED
    BY <1>1 DEF IInv

-----------------------------------------------------------------------------
(* The steps of a source's loop.                                           *)

\* A step that only moves a source on, or ends it, with nothing in hand.
LEMMA MoveStep ==
    ASSUME IInv, TypeOK', NEW s \in SourceModes, NEW p, NEW err,
           Silent, UNCHANGED <<runVars, batch, chunk, poolVars, brokerVars>>,
           pc' = [pc EXCEPT ![s] = p], result' = [result EXCEPT ![s] = err],
           pc[s] \in {"loop", "receiving", "batching"},
           p \in {"receiving", "loop", "finished"},
           p = "finished" /\ err = "none" => pc[s] # "batching"
    PROVE  IInv'
  <1>1. TypeOK /\ SourceInv(s)
    BY DEF IInv
  <1>2. pc'[s] = p /\ \A t \in SourceModes \ {s} : pc'[t] = pc[t] /\ result'[t] = result[t]
    BY <1>1 DEF TypeOK, SourceType
  <1>3. \A t \in SourceModes \ {s} : Unmoved(t)
    BY <1>2 DEF Unmoved, Silent, runVars, poolVars
  <1>4. \A w \in Workers : wpc[s][w] = "off"
    BY <1>1 DEF SourceInv, PlacesAt
  <1>5. PlacesAt(s)'
    BY <1>1, <1>2, <1>4 DEF SourceInv, PlacesAt, poolVars, Busy
  <1>6. ProgressAt(s)'
    BY <1>1, <1>2 DEF SourceInv, ProgressAt, Silent, Clean, Untouched
  <1>7. CountsAt(s)'
    BY <1>1, CountsStay DEF SourceInv, Silent
  <1>8. Requests' /\ Wire'
    BY <1>2, GlobalsStay DEF IInv
  <1>9. Response'
    BY Unanswered DEF runVars
  <1> QED
    BY <1>3, <1>5, <1>6, <1>7, <1>8, <1>9, OneSource DEF SourceInv

LEMMA BeginReceiveStep ==
    ASSUME IInv, TypeOK', NEW s \in SourceModes, BeginReceive(s)
    PROVE  IInv'
  <1>1. CASE stopped
    BY <1>1, MoveStep DEF BeginReceive, Return, Goto, Silent
  <1>2. CASE ~stopped
    <2>1. result' = [result EXCEPT ![s] = result[s]]
      BY <1>2 DEF BeginReceive, IInv, TypeOK, SourceType
    <2> QED
      BY <1>2, <2>1, MoveStep DEF BeginReceive, Goto, Silent
  <1> QED
    BY <1>1, <1>2

LEMMA ReceiveNothingStep ==
    ASSUME IInv, TypeOK', NEW s \in SourceModes, ReceiveNothing(s)
    PROVE  IInv'
  BY MoveStep DEF ReceiveNothing, Return, Goto, Silent

LEMMA BatchRefusedStep ==
    ASSUME IInv, TypeOK', NEW s \in SourceModes, BatchRefused(s)
    PROVE  IInv'
  <1>1. PICK err \in {"failed", "cancelled"} : Return(s, err)
    BY DEF BatchRefused
  <1> QED
    BY <1>1, MoveStep DEF BatchRefused, Return, Goto, Silent

\* Messages that can be received have not been touched yet by this run, or not
\* at all: what it touched is gone.
LEMMA ReceivableUntouched ==
    ASSUME Requests, NEW m \in avail, m \in Msgs, Clean(m)
    PROVE  Untouched(m)
  BY DEF Requests, Clean, Untouched

LEMMA ReceiveStep ==
    ASSUME IInv, TypeOK', NEW s \in SourceModes, Receive(s)
    PROVE  IInv'
  <1>1. TypeOK /\ SourceInv(s) /\ pc[s] = "receiving"
    BY DEF IInv, Receive
  <1>2. PICK B \in SUBSET (avail \cap Of(s)) :
          /\ avail' = avail \ B /\ locked' = locked \cup B
          /\ IF Transfer
             THEN /\ batch' = [batch EXCEPT ![s] = B] /\ Goto(s, "batching")
                  /\ UNCHANGED <<chunk, poolVars>>
             ELSE /\ chunk' = [chunk EXCEPT ![s] = B] /\ Goto(s, "settling")
                  /\ StartPool(s, B) /\ UNCHANGED batch
    BY DEF Receive
  <1>3. Silent /\ UNCHANGED <<runVars, result, removed, wire, accepted>>
    BY DEF Receive, Silent
  <1>4. \A m \in B : Untouched(m)
    BY <1>1, ReceivableUntouched DEF IInv, SourceInv, ProgressAt, Of
  <1>5. \A t \in SourceModes \ {s} : Unmoved(t)
    <2>1. CASE Transfer
      BY <1>1, <1>2, <1>3, <2>1 DEF Unmoved, Silent, Goto, runVars, poolVars, TypeOK, SourceType
    <2>2. CASE ~Transfer
      BY <1>1, <1>2, <1>3, <2>2
      DEF Unmoved, Silent, Goto, StartPool, runVars, TypeOK, SourceType, PoolType
    <2> QED
      BY <2>1, <2>2
  <1>6. ASSUME Transfer PROVE PlacesAt(s)' /\ ProgressAt(s)'
    <2>1. /\ batch'[s] = B /\ pc'[s] = "batching"
          /\ UNCHANGED <<chunk, poolVars>>
      BY <1>1, <1>2, <1>6 DEF Goto, TypeOK, SourceType
    <2>2. PlacesAt(s)'
      BY <1>1, <1>6, <2>1 DEF SourceInv, PlacesAt, poolVars, Busy
    <2>3. ProgressAt(s)'
      BY <1>1, <1>3, <1>4, <2>1 DEF SourceInv, ProgressAt, Silent, Clean, Untouched
    <2> QED
      BY <2>2, <2>3
  <1>7. ASSUME ~Transfer PROVE PlacesAt(s)' /\ ProgressAt(s)'
    <2>1. /\ chunk'[s] = B /\ pc'[s] = "settling" /\ todo'[s] = B /\ batch' = batch
          /\ \A w \in Workers : wpc'[s][w] = "idle" /\ wmsg'[s][w] = {}
          /\ closed'[s] = FALSE
      BY <1>1, <1>2, <1>7 DEF Goto, StartPool, TypeOK, SourceType, PoolType
    <2>2. batch[s] = {}
      BY <1>1, <1>7 DEF SourceInv, PlacesAt
    <2>3. PlacesAt(s)'
      BY <1>1, <1>7, <2>1, <2>2 DEF SourceInv, PlacesAt, Busy
    <2>4. \A m \in B : Settling(s, m)'
      BY <1>3, <1>4, <1>7, <2>1 DEF Settling, Silent, Untouched
    <2>5. \A m \in Of(s) : Clean(m)'
      BY <1>1, <1>3 DEF SourceInv, ProgressAt, Silent, Clean
    <2>6. PoolProgress(s)'
      BY <1>3, <1>4, <2>1 DEF PoolProgress, Silent, Untouched
    <2>7. ProgressAt(s)'
      BY <2>1, <2>2, <2>4, <2>5, <2>6 DEF ProgressAt
    <2> QED
      BY <2>3, <2>7
  <1>8. CountsAt(s)'
    BY <1>1, <1>3, CountsStay DEF SourceInv, Silent
  <1>9. Requests'
    BY <1>1, <1>2, <1>3 DEF IInv, Requests, Silent
  <1>10. Wire'
    <2>1. \A t \in SourceModes : pc'[t] = "sending" => pc[t] = "sending" /\ chunk'[t] = chunk[t]
      BY <1>2, <1>5 DEF Unmoved, Goto, IInv, TypeOK, SourceType
    <2> QED
      BY <1>3, <2>1 DEF IInv, Wire, Silent
  <1>11. Response'
    BY <1>1, <1>3, Unanswered DEF runVars
  <1> QED
    BY <1>5, <1>6, <1>7, <1>8, <1>9, <1>10, <1>11, OneSource DEF SourceInv

-----------------------------------------------------------------------------
(* Counting requests.                                                      *)

LEMMA DisjointSizes ==
    ASSUME NEW A \in SUBSET Msgs, NEW B \in SUBSET Msgs, A \cap B = {}
    PROVE  Cardinality(A \cup B) = Cardinality(A) + Cardinality(B)
  <1>1. /\ IsFiniteSet(A) /\ Cardinality(A) \in Nat
        /\ IsFiniteSet(B) /\ Cardinality(B) \in Nat
    BY MsgSets
  <1>2. Cardinality(A \cup B) = Cardinality(A) + Cardinality(B) - Cardinality(A \cap B)
    BY <1>1, FS_Union
  <1>3. Cardinality(A \cap B) = 0
    BY FS_EmptySet
  <1> QED
    BY <1>1, <1>2, <1>3

LEMMA RemovedSize ==
    ASSUME NEW A \in SUBSET Msgs, NEW B \in SUBSET A
    PROVE  Cardinality(A \ B) = Cardinality(A) - Cardinality(B)
  <1>1. A = (A \ B) \cup B /\ (A \ B) \cap B = {} /\ B \in SUBSET Msgs /\ A \ B \in SUBSET Msgs
    OBVIOUS
  <1>2. Cardinality(A) = Cardinality(A \ B) + Cardinality(B)
    BY <1>1, DisjointSizes
  <1>3. Cardinality(A) \in Nat /\ Cardinality(B) \in Nat /\ Cardinality(A \ B) \in Nat
    BY <1>1, MsgSets
  <1> QED
    BY <1>2, <1>3

\* When the sends of some messages go from one state to another, the number of
\* those in certain states changes accordingly.
LEMMA SendMoves ==
    ASSUME TypeOK, NEW s \in SourceModes, NEW ms \in SUBSET Of(s),
           NEW from \in ReqStates, NEW to \in ReqStates, \A m \in ms : sendReq[m] = from,
           sendReq' = Mark(sendReq, ms, to), NEW states
    PROVE  /\ from \in states /\ to \notin states =>
                Cardinality(SendIs(s, states)') = Cardinality(SendIs(s, states)) - Cardinality(ms)
           /\ from \notin states /\ to \in states =>
                Cardinality(SendIs(s, states)') = Cardinality(SendIs(s, states)) + Cardinality(ms)
           /\ (from \in states <=> to \in states) => SendIs(s, states)' = SendIs(s, states)
  <1>1. \A m \in Of(s) : sendReq'[m] = IF m \in ms THEN to ELSE sendReq[m]
    BY DEF Mark, Of
  <1>2. ms \in SUBSET Msgs /\ SendIs(s, states) \in SUBSET Msgs /\ SendIs(s, states)' \in SUBSET Msgs
    BY DEF SendIs, Of
  <1>4. ASSUME from \in states, to \notin states
        PROVE  Cardinality(SendIs(s, states)') = Cardinality(SendIs(s, states)) - Cardinality(ms)
    <2>1. ms \subseteq SendIs(s, states) /\ SendIs(s, states)' = SendIs(s, states) \ ms
      BY <1>1, <1>4 DEF SendIs
    <2> QED
      BY <1>2, <2>1, RemovedSize
  <1>5. ASSUME from \notin states, to \in states
        PROVE  Cardinality(SendIs(s, states)') = Cardinality(SendIs(s, states)) + Cardinality(ms)
    <2>1. ms \cap SendIs(s, states) = {} /\ SendIs(s, states)' = SendIs(s, states) \cup ms
      BY <1>1, <1>5 DEF SendIs
    <2> QED
      BY <1>2, <2>1, DisjointSizes
  <1>6. ASSUME from \in states <=> to \in states
        PROVE  SendIs(s, states)' = SendIs(s, states)
    BY <1>1, <1>6 DEF SendIs
  <1> QED
    BY <1>4, <1>5, <1>6

\* The same of the removal of one message.
LEMMA SettleMoves ==
    ASSUME TypeOK, NEW s \in SourceModes, NEW n \in Of(s),
           NEW from \in ReqStates, NEW to \in ReqStates, settleReq[n] = from,
           settleReq' = Mark(settleReq, {n}, to), NEW states
    PROVE  /\ from \in states /\ to \notin states =>
                Cardinality(SettleIs(s, states)') = Cardinality(SettleIs(s, states)) - 1
           /\ from \notin states /\ to \in states =>
                Cardinality(SettleIs(s, states)') = Cardinality(SettleIs(s, states)) + 1
           /\ (from \in states <=> to \in states) => SettleIs(s, states)' = SettleIs(s, states)
  <1>1. \A m \in Of(s) : settleReq'[m] = IF m \in {n} THEN to ELSE settleReq[m]
    BY DEF Mark, Of
  <1>2. {n} \in SUBSET Msgs /\ SettleIs(s, states) \in SUBSET Msgs /\ SettleIs(s, states)' \in SUBSET Msgs
    BY DEF SettleIs, Of
  <1>3. Cardinality({n}) = 1
    BY FS_Singleton
  <1>4. ASSUME from \in states, to \notin states
        PROVE  Cardinality(SettleIs(s, states)') = Cardinality(SettleIs(s, states)) - 1
    <2>1. {n} \subseteq SettleIs(s, states) /\ SettleIs(s, states)' = SettleIs(s, states) \ {n}
      BY <1>1, <1>4 DEF SettleIs
    <2> QED
      BY <1>2, <1>3, <2>1, RemovedSize
  <1>5. ASSUME from \notin states, to \in states
        PROVE  Cardinality(SettleIs(s, states)') = Cardinality(SettleIs(s, states)) + 1
    <2>1. {n} \cap SettleIs(s, states) = {} /\ SettleIs(s, states)' = SettleIs(s, states) \cup {n}
      BY <1>1, <1>5 DEF SettleIs
    <2> QED
      BY <1>2, <1>3, <2>1, DisjointSizes
  <1>6. ASSUME from \in states <=> to \in states
        PROVE  SettleIs(s, states)' = SettleIs(s, states)
    BY <1>1, <1>6 DEF SettleIs
  <1> QED
    BY <1>4, <1>5, <1>6

-----------------------------------------------------------------------------
(* The steps around a send.                                                *)

LEMMA NextChunkStep ==
    ASSUME IInv, TypeOK', NEW s \in SourceModes, NextChunk(s)
    PROVE  IInv'
  <1>1. TypeOK /\ SourceInv(s) /\ pc[s] = "batching"
    BY DEF IInv, NextChunk
  <1>2. Silent /\ UNCHANGED <<runVars, poolVars, brokerVars>>
    BY DEF NextChunk, Silent
  <1>3. CASE batch[s] = {}
    <2>1. result' = [result EXCEPT ![s] = result[s]] /\ pc' = [pc EXCEPT ![s] = "loop"]
          /\ UNCHANGED <<batch, chunk>>
      BY <1>1, <1>3 DEF NextChunk, Goto, TypeOK, SourceType
    <2> QED
      BY <1>1, <1>2, <2>1, MoveStep
  <1>4. CASE batch[s] # {}
    <2>1. PICK c \in SUBSET batch[s] :
            /\ chunk' = [chunk EXCEPT ![s] = c]
            /\ batch' = [batch EXCEPT ![s] = @ \ c]
            /\ IF stopped THEN Return(s, "cancelled")
                          ELSE Goto(s, "sendReady") /\ UNCHANGED result
      BY <1>4 DEF NextChunk
    <2>2. /\ chunk'[s] = c /\ batch'[s] = batch[s] \ c
          /\ \/ pc'[s] = "finished" /\ result'[s] = "cancelled"
             \/ pc'[s] = "sendReady"
          /\ \A t \in SourceModes \ {s} : pc'[t] = pc[t] /\ result'[t] = result[t]
                                          /\ chunk'[t] = chunk[t] /\ batch'[t] = batch[t]
      BY <1>1, <2>1 DEF Return, Goto, TypeOK, SourceType
    <2>3. \A t \in SourceModes \ {s} : Unmoved(t)
      BY <1>2, <2>2 DEF Unmoved, Silent, runVars, poolVars
    <2>4. \A w \in Workers : wpc[s][w] = "off"
      BY <1>1 DEF SourceInv, PlacesAt
    <2>5. PlacesAt(s)'
      BY <1>1, <1>2, <2>1, <2>2, <2>4 DEF SourceInv, PlacesAt, poolVars, Busy
    <2>6. ProgressAt(s)'
      BY <1>1, <1>2, <2>1, <2>2 DEF SourceInv, ProgressAt, Silent, Clean, Untouched
    <2>7. CountsAt(s)'
      BY <1>1, <1>2, CountsStay DEF SourceInv, Silent
    <2>8. Requests' /\ Wire'
      BY <1>2, <2>2, GlobalsStay DEF IInv
    <2>9. Response'
      BY <1>1, <1>2, Unanswered DEF runVars
    <2> QED
      BY <2>3, <2>5, <2>6, <2>7, <2>8, <2>9, OneSource DEF SourceInv
  <1> QED
    BY <1>3, <1>4

LEMMA DispatchSendStep ==
    ASSUME IInv, TypeOK', NEW s \in SourceModes, DispatchSend(s)
    PROVE  IInv'
  <1>1. TypeOK /\ SourceInv(s) /\ pc[s] = "sendReady"
    BY DEF IInv, DispatchSend
  <1>2. chunk[s] \in SUBSET Of(s) /\ chunk[s] \in SUBSET Msgs
    BY <1>1 DEF SourceInv, PlacesAt, Of
  <1>3. \A m \in chunk[s] : Untouched(m)
    BY <1>1 DEF SourceInv, ProgressAt
  <1>4. /\ UNCHANGED <<runVars, result, batch, chunk, poolVars, settleReq,
                       avail, locked, removed, accepted>>
        /\ sendReq' = Mark(sendReq, chunk[s], "open")
        /\ wire' = wire \cup {chunk[s]}
        /\ pc'[s] = "sending" /\ \A t \in SourceModes \ {s} : pc'[t] = pc[t]
    BY <1>1 DEF DispatchSend, Goto, TypeOK, SourceType
  <1>5. /\ \A m \in chunk[s] : sendReq'[m] = "open"
        /\ \A m \in Msgs \ chunk[s] : sendReq'[m] = sendReq[m]
    BY <1>1, <1>2, <1>4, MarkFacts DEF TypeOK, RequestType, ReqStates
  <1>6. /\ tracker'[s].Sent = tracker[s].Sent
        /\ tracker'[s].Settled = tracker[s].Settled
        /\ tracker'[s].SendUnconfirmed = tracker[s].SendUnconfirmed + Cardinality(chunk[s])
        /\ tracker'[s].SettlementUnconfirmed = tracker[s].SettlementUnconfirmed
        /\ \A t \in SourceModes \ {s} : tracker'[t] = tracker[t]
    <2>1. Cardinality(chunk[s]) \in Int
      BY <1>2, MsgSets
    <2>2. tracker \in [SourceModes -> SourceOutcome]
      BY <1>1 DEF TypeOK, ReportType
    <2>3. tracker[s] \in SourceOutcome
      BY <2>2
    <2> QED
      BY <2>1, <2>2, <2>3 DEF DispatchSend, Record, SourceOutcome
  <1>7. \A t \in SourceModes \ {s} : Unmoved(t)
    BY <1>2, <1>4, <1>5, <1>6, OfDisjoint DEF Unmoved, runVars, poolVars
  <1>8. PlacesAt(s)'
    BY <1>1, <1>4 DEF SourceInv, PlacesAt, poolVars, Busy
  <1>9. ProgressAt(s)'
    <2>1. \A m \in batch'[s] : Untouched(m)'
      BY <1>1, <1>4, <1>5 DEF SourceInv, PlacesAt, ProgressAt, Untouched, Of
    <2>2. \A m \in Of(s) \ chunk'[s] : Clean(m)'
      BY <1>1, <1>4, <1>5 DEF SourceInv, ProgressAt, Clean, Of
    <2>3. \A m \in chunk'[s] : sendReq'[m] = "open" /\ settleReq'[m] = "none"
      BY <1>3, <1>4, <1>5 DEF Untouched
    <2> QED
      BY <1>4, <2>1, <2>2, <2>3 DEF ProgressAt
  <1>10. CountsAt(s)'
    <2>1. \A m \in chunk[s] : sendReq[m] = "none"
      BY <1>3 DEF Untouched
    <2>2. Cardinality(SendIs(s, {"acked"})') = Cardinality(SendIs(s, {"acked"}))
      BY <1>1, <1>2, <1>4, <2>1, SendMoves DEF ReqStates
    <2>3. Cardinality(SendIs(s, {"open", "lost"})')
            = Cardinality(SendIs(s, {"open", "lost"})) + Cardinality(chunk[s])
      BY <1>1, <1>2, <1>4, <2>1, SendMoves DEF ReqStates
    <2>4. /\ SettleIs(s, {"acked"})' = SettleIs(s, {"acked"})
          /\ SettleIs(s, {"open", "lost"})' = SettleIs(s, {"open", "lost"})
      BY <1>4 DEF SettleIs
    <2> QED
      BY <1>1, <1>6, <2>2, <2>3, <2>4 DEF SourceInv, CountsAt
  <1>11. Requests'
    BY <1>2, <1>3, <1>4, <1>5 DEF IInv, Requests, Untouched
  <1>12. Wire'
    <2>1. \A m \in chunk[s] : accepted[m] = 0
      BY <1>1, <1>2, <1>3 DEF IInv, Requests, Untouched, TypeOK, BrokerType
    <2>2. \A b \in wire : \A m \in b : m \notin chunk[s]
      BY <1>3 DEF IInv, Wire, Untouched
    <2>3. \A b \in wire' : \A m \in b : accepted'[m] = 0 /\ sendReq'[m] \in {"open", "lost"}
      BY <1>1, <1>4, <1>5, <2>1, <2>2 DEF IInv, Wire, TypeOK, BrokerType
    <2>4. \A b, c \in wire' : b # c => b \cap c = {}
      BY <1>4, <2>2 DEF IInv, Wire
    <2>5. \A t \in SourceModes : pc'[t] = "sending" /\ chunk'[t] \notin wire' =>
             \A m \in chunk'[t] : accepted'[m] > 0
      BY <1>4 DEF IInv, Wire
    <2> QED
      BY <1>4, <2>3, <2>4, <2>5 DEF IInv, Wire
  <1>13. Response'
    BY <1>1, <1>4, Unanswered DEF runVars
  <1> QED
    BY <1>7, <1>8, <1>9, <1>10, <1>11, <1>12, <1>13, OneSource DEF SourceInv

LEMMA SendAckedStep ==
    ASSUME IInv, TypeOK', NEW s \in SourceModes, SendAcked(s)
    PROVE  IInv'
  <1>1. TypeOK /\ SourceInv(s) /\ pc[s] = "sending" /\ chunk[s] \notin wire
    BY DEF IInv, SendAcked
  <1>2. chunk[s] \in SUBSET Of(s) /\ chunk[s] \in SUBSET Msgs /\ Transfer
    BY <1>1 DEF SourceInv, PlacesAt, Of
  <1>3. \A m \in chunk[s] : sendReq[m] = "open" /\ settleReq[m] = "none"
    BY <1>1 DEF SourceInv, ProgressAt
  <1>4. /\ UNCHANGED <<runVars, result, batch, chunk, settleReq, brokerVars>>
        /\ sendReq' = Mark(sendReq, chunk[s], "acked")
        /\ pc'[s] = "settling" /\ \A t \in SourceModes \ {s} : pc'[t] = pc[t]
    BY <1>1 DEF SendAcked, Goto, TypeOK, SourceType
  <1>5. /\ todo'[s] = chunk[s] /\ closed'[s] = FALSE
        /\ \A w \in Workers : wpc'[s][w] = "idle" /\ wmsg'[s][w] = {}
        /\ \A t \in SourceModes \ {s} :
             /\ todo'[t] = todo[t] /\ closed'[t] = closed[t] /\ schedStop'[t] = schedStop[t]
             /\ wpc'[t] = wpc[t] /\ wmsg'[t] = wmsg[t]
    BY <1>1 DEF SendAcked, StartPool, TypeOK, PoolType
  <1>6. /\ \A m \in chunk[s] : sendReq'[m] = "acked"
        /\ \A m \in Msgs \ chunk[s] : sendReq'[m] = sendReq[m]
    BY <1>1, <1>2, <1>4, MarkFacts DEF TypeOK, RequestType, ReqStates
  <1>7. /\ tracker'[s].Sent = tracker[s].Sent + Cardinality(chunk[s])
        /\ tracker'[s].Settled = tracker[s].Settled
        /\ tracker'[s].SendUnconfirmed = tracker[s].SendUnconfirmed - Cardinality(chunk[s])
        /\ tracker'[s].SettlementUnconfirmed = tracker[s].SettlementUnconfirmed
        /\ \A t \in SourceModes \ {s} : tracker'[t] = tracker[t]
    <2>1. Cardinality(chunk[s]) \in Int /\ -Cardinality(chunk[s]) \in Int
      BY <1>2, MsgSets
    <2>2. tracker \in [SourceModes -> SourceOutcome]
      BY <1>1 DEF TypeOK, ReportType
    <2>3. tracker[s] \in SourceOutcome
      BY <2>2
    <2>4. tracker' = Record(tracker, s, Cardinality(chunk[s]), 0, -Cardinality(chunk[s]), 0)
      BY DEF SendAcked
    <2> QED
      BY <2>1, <2>2, <2>3, <2>4 DEF Record, SourceOutcome
  <1>8. \A t \in SourceModes \ {s} : Unmoved(t)
    BY <1>2, <1>4, <1>5, <1>6, <1>7, OfDisjoint DEF Unmoved, runVars
  <1>9. PlacesAt(s)'
    BY <1>1, <1>2, <1>4, <1>5 DEF SourceInv, PlacesAt, Busy
  <1>10. ProgressAt(s)'
    <2>1. \A m \in batch'[s] : Untouched(m)'
      BY <1>1, <1>4, <1>6 DEF SourceInv, PlacesAt, ProgressAt, Untouched, Of
    <2>2. \A m \in Of(s) \ chunk'[s] : Clean(m)'
      BY <1>1, <1>4, <1>6 DEF SourceInv, ProgressAt, Clean, Of
    <2>3. \A m \in chunk'[s] : Settling(s, m)'
      BY <1>2, <1>3, <1>4, <1>5, <1>6 DEF Settling
    <2>4. PoolProgress(s)'
      BY <1>3, <1>4, <1>5 DEF PoolProgress
    <2> QED
      BY <1>4, <2>1, <2>2, <2>3, <2>4 DEF ProgressAt
  <1>11. CountsAt(s)'
    <2>1. \A m \in chunk[s] : sendReq[m] = "open"
      BY <1>3
    <2>2. Cardinality(SendIs(s, {"acked"})')
            = Cardinality(SendIs(s, {"acked"})) + Cardinality(chunk[s])
      BY <1>1, <1>2, <1>4, <2>1, SendMoves DEF ReqStates
    <2>3. Cardinality(SendIs(s, {"open", "lost"})')
            = Cardinality(SendIs(s, {"open", "lost"})) - Cardinality(chunk[s])
      BY <1>1, <1>2, <1>4, <2>1, SendMoves DEF ReqStates
    <2>4. /\ SettleIs(s, {"acked"})' = SettleIs(s, {"acked"})
          /\ SettleIs(s, {"open", "lost"})' = SettleIs(s, {"open", "lost"})
      BY <1>4 DEF SettleIs
    <2> QED
      BY <1>1, <1>7, <2>2, <2>3, <2>4 DEF SourceInv, CountsAt
  <1>12. \A m \in chunk[s] : accepted[m] > 0
    BY <1>1 DEF IInv, Wire
  <1>13. Requests'
    BY <1>2, <1>3, <1>4, <1>6, <1>12 DEF IInv, Requests, brokerVars
  <1>14. Wire'
    <2>1. \A b \in wire : \A m \in b : m \notin chunk[s]
      BY <1>12 DEF IInv, Wire
    <2>2. \A b \in wire' : \A m \in b : accepted'[m] = 0 /\ sendReq'[m] \in {"open", "lost"}
      BY <1>1, <1>4, <1>6, <2>1 DEF IInv, Wire, TypeOK, BrokerType, brokerVars
    <2>3. \A t \in SourceModes : pc'[t] = "sending" /\ chunk'[t] \notin wire' =>
             \A m \in chunk'[t] : accepted'[m] > 0
      BY <1>4 DEF IInv, Wire, brokerVars
    <2> QED
      BY <1>4, <2>2, <2>3 DEF IInv, Wire, brokerVars
  <1>15. Response'
    BY <1>1, <1>4, Unanswered DEF runVars
  <1> QED
    BY <1>8, <1>9, <1>10, <1>11, <1>13, <1>14, <1>15, OneSource DEF SourceInv

LEMMA SendFailedStep ==
    ASSUME IInv, TypeOK', NEW s \in SourceModes, SendFailed(s)
    PROVE  IInv'
  <1>1. TypeOK /\ SourceInv(s) /\ pc[s] = "sending"
    BY DEF IInv, SendFailed
  <1>2. chunk[s] \in SUBSET Of(s) /\ chunk[s] \in SUBSET Msgs
    BY <1>1 DEF SourceInv, PlacesAt, Of
  <1>3. \A m \in chunk[s] : sendReq[m] = "open"
    BY <1>1 DEF SourceInv, ProgressAt
  <1>4. /\ UNCHANGED <<runVars, tracker, batch, chunk, poolVars, settleReq, brokerVars>>
        /\ sendReq' = Mark(sendReq, chunk[s], "lost")
        /\ pc'[s] = "finished" /\ result'[s] = "failed"
        /\ \A t \in SourceModes \ {s} : pc'[t] = pc[t] /\ result'[t] = result[t]
    BY <1>1 DEF SendFailed, Return, Goto, TypeOK, SourceType
  <1>5. /\ \A m \in chunk[s] : sendReq'[m] = "lost"
        /\ \A m \in Msgs \ chunk[s] : sendReq'[m] = sendReq[m]
    BY <1>1, <1>2, <1>4, MarkFacts DEF TypeOK, RequestType, ReqStates
  <1>6. \A t \in SourceModes \ {s} : Unmoved(t)
    BY <1>2, <1>4, <1>5, OfDisjoint DEF Unmoved, runVars, poolVars
  <1>7. PlacesAt(s)'
    BY <1>1, <1>4 DEF SourceInv, PlacesAt, poolVars, Busy
  <1>8. ProgressAt(s)'
    BY <1>1, <1>4, <1>5 DEF SourceInv, PlacesAt, ProgressAt, Untouched, Of
  <1>9. CountsAt(s)'
    <2>1. \A states \in {{"acked"}, {"open", "lost"}} : SendIs(s, states)' = SendIs(s, states)
      BY <1>1, <1>2, <1>3, <1>4, SendMoves DEF ReqStates
    <2>2. /\ SettleIs(s, {"acked"})' = SettleIs(s, {"acked"})
          /\ SettleIs(s, {"open", "lost"})' = SettleIs(s, {"open", "lost"})
      BY <1>4 DEF SettleIs
    <2>3. /\ SendIs(s, {"acked"})' = SendIs(s, {"acked"})
          /\ SendIs(s, {"open", "lost"})' = SendIs(s, {"open", "lost"})
      BY <2>1
    <2> QED
      BY <1>1, <1>4, <2>2, <2>3 DEF SourceInv, CountsAt
  <1>10. Requests'
    BY <1>2, <1>3, <1>4, <1>5 DEF IInv, Requests, brokerVars
  <1>11. Wire'
    <2>1. \A b \in wire' : \A m \in b : accepted'[m] = 0 /\ sendReq'[m] \in {"open", "lost"}
      BY <1>1, <1>4, <1>5 DEF IInv, Wire, TypeOK, BrokerType, brokerVars
    <2>2. \A t \in SourceModes : pc'[t] = "sending" /\ chunk'[t] \notin wire' =>
             \A m \in chunk'[t] : accepted'[m] > 0
      BY <1>4 DEF IInv, Wire, brokerVars
    <2> QED
      BY <1>4, <2>1, <2>2 DEF IInv, Wire, brokerVars
  <1>12. Response'
    BY <1>1, <1>4, Unanswered DEF runVars
  <1> QED
    BY <1>6, <1>7, <1>8, <1>9, <1>10, <1>11, <1>12, OneSource DEF SourceInv

LEMMA CloseJobsStep ==
    ASSUME IInv, TypeOK', NEW s \in SourceModes, CloseJobs(s)
    PROVE  IInv'
  <1>1. TypeOK /\ SourceInv(s) /\ pc[s] = "settling"
    BY DEF IInv, CloseJobs
  <1>2. /\ Silent /\ UNCHANGED <<runVars, sourceVars, todo, schedStop, wpc, wmsg, brokerVars>>
        /\ \A t \in SourceModes \ {s} : closed'[t] = closed[t]
        /\ todo[s] = {} \/ ScheduleDone(s)
    BY <1>1 DEF CloseJobs, Silent, TypeOK, PoolType
  <1>3. \A t \in SourceModes \ {s} : Unmoved(t)
    BY <1>2 DEF Unmoved, Silent, runVars, sourceVars
  <1>4. PlacesAt(s)'
    BY <1>1, <1>2 DEF SourceInv, PlacesAt, sourceVars
  <1>5. ScheduleDone(s)' = ScheduleDone(s)
    BY <1>2 DEF ScheduleDone, runVars
  <1>6. ProgressAt(s)'
    <2>1. PoolProgress(s)'
      BY <1>1, <1>2, <1>5 DEF SourceInv, ProgressAt, PoolProgress, Silent
    <2>2. \A m \in Of(s) : /\ Clean(m)' = Clean(m) /\ Untouched(m)' = Untouched(m)
                           /\ Settling(s, m) => Settling(s, m)'
      BY <1>2, <1>5 DEF Clean, Untouched, Settling, Silent
    <2> QED
      BY <1>1, <1>2, <2>1, <2>2 DEF SourceInv, PlacesAt, ProgressAt, sourceVars
  <1>7. CountsAt(s)'
    BY <1>1, <1>2, CountsStay DEF SourceInv, Silent
  <1>8. Requests' /\ Wire'
    BY <1>2, GlobalsStay DEF IInv, sourceVars
  <1>9. Response'
    BY <1>1, <1>2, Unanswered DEF runVars
  <1> QED
    BY <1>3, <1>4, <1>6, <1>7, <1>8, <1>9, OneSource DEF SourceInv

LEMMA SettleReturnStep ==
    ASSUME IInv, TypeOK', NEW s \in SourceModes, SettleReturn(s)
    PROVE  IInv'
  <1>1. /\ TypeOK /\ SourceInv(s) /\ pc[s] = "settling" /\ closed[s]
        /\ \A w \in Workers : wpc[s][w] = "off"
    BY DEF IInv, SettleReturn
  <1>2. Silent /\ UNCHANGED <<runVars, batch, chunk, poolVars, brokerVars>>
    BY DEF SettleReturn, Silent
  <1>3. /\ \/ pc'[s] = "finished" /\ result'[s] # "none"
           \/ PoolError(s) = "none" /\ pc'[s] = IF Transfer THEN "batching" ELSE "loop"
        /\ \A t \in SourceModes \ {s} : pc'[t] = pc[t] /\ result'[t] = result[t]
    BY <1>1 DEF SettleReturn, Return, Goto, TypeOK, SourceType
  <1>4. \A t \in SourceModes \ {s} : Unmoved(t)
    BY <1>2, <1>3 DEF Unmoved, Silent, runVars, poolVars
  <1>5. PlacesAt(s)'
    BY <1>1, <1>2, <1>3 DEF SourceInv, PlacesAt, poolVars, Busy
  <1>6. PoolError(s) = "none" => ~ScheduleDone(s) /\ ~schedStop[s]
    BY DEF PoolError, ScheduleDone
  <1>7. ASSUME PoolError(s) = "none", NEW m \in chunk[s] PROVE Clean(m)
    <2>1. Settling(s, m) /\ todo[s] = {}
      BY <1>1, <1>6, <1>7 DEF SourceInv, ProgressAt, PoolProgress
    <2>2. settleReq[m] \in ReqStates
      BY <1>1, <1>7 DEF SourceInv, PlacesAt, TypeOK, RequestType, Of
    <2>3. settleReq[m] = "acked"
      BY <1>1, <1>6, <1>7, <2>1, <2>2 DEF Settling, ReqStates
    <2> QED
      BY <2>1, <2>3 DEF Settling, Clean
  <1>8. ProgressAt(s)'
    <2>1. \A m \in batch'[s] : Untouched(m)'
      BY <1>1, <1>2 DEF SourceInv, ProgressAt, Silent, Untouched
    <2>2. PoolError(s) = "none" => \A m \in Of(s) : Clean(m)'
      BY <1>1, <1>2, <1>7 DEF SourceInv, ProgressAt, Silent, Clean
    <2> QED
      BY <1>3, <2>1, <2>2 DEF ProgressAt
  <1>9. CountsAt(s)'
    BY <1>1, <1>2, CountsStay DEF SourceInv, Silent
  <1>10. Requests' /\ Wire'
    BY <1>2, <1>3, GlobalsStay DEF IInv
  <1>11. Response'
    BY <1>1, <1>2, Unanswered DEF runVars
  <1> QED
    BY <1>4, <1>5, <1>8, <1>9, <1>10, <1>11, OneSource DEF SourceInv

-----------------------------------------------------------------------------
(* The steps of the settlement goroutines.                                 *)

\* The step leaves the pools of the other sources alone.
OtherPools(s) ==
    \A t \in SourceModes \ {s} :
        /\ todo'[t] = todo[t] /\ closed'[t] = closed[t] /\ schedStop'[t] = schedStop[t]
        /\ wpc'[t] = wpc[t] /\ wmsg'[t] = wmsg[t]

\* A step inside of a pool that makes no request.
LEMMA PoolStep ==
    ASSUME IInv, TypeOK', NEW s \in SourceModes, pc[s] = "settling",
           Silent, UNCHANGED <<runVars, sourceVars, brokerVars>>, OtherPools(s),
           PlacesAt(s)', PoolProgress(s)', \A m \in chunk[s] : Settling(s, m)'
    PROVE  IInv'
  <1>1. TypeOK /\ SourceInv(s)
    BY DEF IInv
  <1>2. \A t \in SourceModes \ {s} : Unmoved(t)
    BY DEF Unmoved, Silent, OtherPools, runVars, sourceVars
  <1>3. ProgressAt(s)'
    BY <1>1 DEF SourceInv, ProgressAt, Silent, Clean, Untouched, sourceVars
  <1>4. CountsAt(s)'
    BY <1>1, CountsStay DEF SourceInv, Silent
  <1>5. Requests' /\ Wire'
    BY GlobalsStay DEF IInv, sourceVars
  <1>6. Response'
    BY Unanswered DEF runVars
  <1> QED
    BY <1>2, <1>3, <1>4, <1>5, <1>6, OneSource DEF SourceInv

\* A goroutine that is not off belongs to a pool at work.
LEMMA AtWork ==
    ASSUME IInv, NEW s \in SourceModes, NEW w \in Workers, wpc[s][w] # "off"
    PROVE  /\ pc[s] = "settling" /\ PoolProgress(s)
           /\ \A m \in chunk[s] : Settling(s, m)
           /\ chunk[s] \subseteq Of(s) /\ todo[s] \subseteq chunk[s]
  BY DEF IInv, SourceInv, PlacesAt, ProgressAt

LEMMA HandOutStep ==
    ASSUME IInv, TypeOK', NEW s \in SourceModes, NEW w \in Workers, HandOut(s, w)
    PROVE  IInv'
  <1>1. TypeOK /\ SourceInv(s) /\ pc[s] = "settling" /\ ~closed[s] /\ wpc[s][w] = "idle"
    BY DEF IInv, HandOut
  <1>2. PICK m \in todo[s] :
          /\ todo' = [todo EXCEPT ![s] = @ \ {m}]
          /\ wpc' = [wpc EXCEPT ![s][w] = "got"]
          /\ wmsg' = [wmsg EXCEPT ![s][w] = {m}]
    BY DEF HandOut
  <1>3. Silent /\ UNCHANGED <<runVars, sourceVars, closed, schedStop, brokerVars>>
    BY DEF HandOut, Silent
  <1>4. /\ todo'[s] = todo[s] \ {m}
        /\ wpc'[s][w] = "got" /\ wmsg'[s][w] = {m}
        /\ \A v \in Workers \ {w} : wpc'[s][v] = wpc[s][v] /\ wmsg'[s][v] = wmsg[s][v]
        /\ OtherPools(s)
    BY <1>1, <1>2, <1>3 DEF OtherPools, TypeOK, PoolType
  <1>5. PlacesAt(s)'
    <2>1. \A v \in Workers : wpc'[s][v] # "off" => pc'[s] = "settling"
      BY <1>1, <1>3 DEF sourceVars
    <2>2. m \in chunk[s]
      BY <1>1 DEF SourceInv, PlacesAt
    <2>3. ASSUME NEW v \in Workers, wpc'[s][v] \in Busy
          PROVE  /\ \E n \in chunk'[s] : wmsg'[s][v] = {n}
                 /\ wmsg'[s][v] \cap todo'[s] = {}
                 /\ \A u \in Workers \ {v} : wpc'[s][u] \in Busy => wmsg'[s][u] \cap wmsg'[s][v] = {}
      <3>1. CASE v = w
        BY <1>1, <1>3, <1>4, <2>2, <3>1 DEF SourceInv, PlacesAt, sourceVars
      <3>2. CASE v # w
        BY <1>1, <1>3, <1>4, <2>3, <3>2 DEF SourceInv, PlacesAt, sourceVars
      <3> QED
        BY <3>1, <3>2
    <2> QED
      BY <1>1, <1>3, <1>4, <2>1, <2>3 DEF SourceInv, PlacesAt, sourceVars
  <1>6. ScheduleDone(s)' = ScheduleDone(s)
    BY <1>3 DEF ScheduleDone, runVars
  <1>7. PoolProgress(s)'
    BY <1>1, <1>3, <1>4, <1>6, AtWork DEF PoolProgress, Silent
  <1>8. ASSUME NEW n \in chunk[s] PROVE Settling(s, n)'
    <2>1. Settling(s, n)
      BY <1>1, AtWork
    <2>2. ASSUME settleReq[n] = "none"
          PROVE  \/ n \in todo'[s] \/ ScheduleDone(s)'
                 \/ \E v \in Workers : wpc'[s][v] \in {"got", "ready"} /\ n \in wmsg'[s][v]
      BY <1>1, <1>4, <1>6, <2>1, <2>2 DEF Settling
    <2>3. ASSUME settleReq[n] = "open"
          PROVE  \E v \in Workers : wpc'[s][v] = "calling" /\ n \in wmsg'[s][v]
      BY <1>1, <1>4, <2>1, <2>3 DEF Settling
    <2> QED
      BY <1>3, <2>1, <2>2, <2>3 DEF Settling, Silent
  <1> QED
    BY <1>1, <1>3, <1>4, <1>5, <1>7, <1>8, PoolStep

LEMMA CheckScheduleStep ==
    ASSUME IInv, TypeOK', NEW s \in SourceModes, NEW w \in Workers, CheckSchedule(s, w)
    PROVE  IInv'
  <1>1. TypeOK /\ SourceInv(s) /\ wpc[s][w] = "got"
    BY DEF IInv, CheckSchedule
  <1>2. Silent /\ UNCHANGED <<runVars, sourceVars, todo, closed, schedStop, wmsg, brokerVars>>
    BY DEF CheckSchedule, Silent
  <1>3. /\ wpc'[s][w] = IF ScheduleDone(s) THEN "off" ELSE "ready"
        /\ \A v \in Workers \ {w} : wpc'[s][v] = wpc[s][v]
        /\ OtherPools(s)
    BY <1>1, <1>2 DEF CheckSchedule, OtherPools, TypeOK, PoolType
  <1>4. PlacesAt(s)'
    BY <1>1, <1>2, <1>3 DEF SourceInv, PlacesAt, sourceVars, Busy
  <1>5. ScheduleDone(s)' = ScheduleDone(s)
    BY <1>2 DEF ScheduleDone, runVars
  <1>6. PoolProgress(s)'
    BY <1>1, <1>2, <1>3, <1>5, AtWork DEF PoolProgress, Silent
  <1>7. ASSUME NEW n \in chunk[s] PROVE Settling(s, n)'
    <2>1. Settling(s, n)
      BY <1>1, AtWork
    <2>2. settleReq[n] = "none" =>
            \/ n \in todo[s] \/ ScheduleDone(s)
            \/ \E v \in Workers : wpc'[s][v] \in {"got", "ready"} /\ n \in wmsg[s][v]
      BY <1>1, <1>3, <2>1 DEF Settling
    <2>3. settleReq[n] = "open" => \E v \in Workers : wpc'[s][v] = "calling" /\ n \in wmsg[s][v]
      BY <1>1, <1>3, <2>1 DEF Settling
    <2> QED
      BY <1>2, <1>5, <2>1, <2>2, <2>3 DEF Settling, Silent
  <1> QED
    BY <1>1, <1>2, <1>3, <1>4, <1>6, <1>7, AtWork, PoolStep

LEMMA WorkerExitStep ==
    ASSUME IInv, TypeOK', NEW s \in SourceModes, NEW w \in Workers, WorkerExit(s, w)
    PROVE  IInv'
  <1>1. TypeOK /\ SourceInv(s) /\ wpc[s][w] = "idle"
    BY DEF IInv, WorkerExit
  <1>2. Silent /\ UNCHANGED <<runVars, sourceVars, todo, closed, schedStop, wmsg, brokerVars>>
    BY DEF WorkerExit, Silent
  <1>3. /\ wpc'[s][w] = "off"
        /\ \A v \in Workers \ {w} : wpc'[s][v] = wpc[s][v]
        /\ OtherPools(s)
    BY <1>1, <1>2 DEF WorkerExit, OtherPools, TypeOK, PoolType
  <1>4. PlacesAt(s)'
    BY <1>1, <1>2, <1>3 DEF SourceInv, PlacesAt, sourceVars, Busy
  <1>5. ScheduleDone(s)' = ScheduleDone(s)
    BY <1>2 DEF ScheduleDone, runVars
  <1>6. PoolProgress(s)'
    BY <1>1, <1>2, <1>3, <1>5, AtWork DEF PoolProgress, Silent
  <1>7. ASSUME NEW n \in chunk[s] PROVE Settling(s, n)'
    <2>1. Settling(s, n)
      BY <1>1, AtWork
    <2>2. settleReq[n] = "none" =>
            \/ n \in todo[s] \/ ScheduleDone(s)
            \/ \E v \in Workers : wpc'[s][v] \in {"got", "ready"} /\ n \in wmsg[s][v]
      BY <1>1, <1>3, <2>1 DEF Settling
    <2>3. settleReq[n] = "open" => \E v \in Workers : wpc'[s][v] = "calling" /\ n \in wmsg[s][v]
      BY <1>1, <1>3, <2>1 DEF Settling
    <2> QED
      BY <1>2, <1>5, <2>1, <2>2, <2>3 DEF Settling, Silent
  <1> QED
    BY <1>1, <1>2, <1>3, <1>4, <1>6, <1>7, AtWork, PoolStep

\* How far the request of a goroutine's message goes, and the goroutine with it.
HoldsOn(s, w, to) ==
    IF to = "open" THEN wpc'[s][w] = "calling" /\ wmsg'[s][w] = wmsg[s][w]
    ELSE /\ wpc'[s][w] \in {"idle", "off"}
         /\ to = "lost" => schedStop'[s]

\* A step by which the removal of a goroutine's message goes on keeps the places
\* of all messages and the progress of their requests.
LEMMA RequestStep ==
    ASSUME IInv, TypeOK', NEW s \in SourceModes, NEW w \in Workers, NEW n \in chunk[s],
           NEW to \in {"open", "acked", "lost"},
           wpc[s][w] \in {"ready", "calling"}, wmsg[s][w] = {n},
           UNCHANGED <<runVars, sourceVars, todo, closed, sendReq>>,
           settleReq' = Mark(settleReq, {n}, to),
           HoldsOn(s, w, to), schedStop[s] => schedStop'[s],
           \A v \in Workers \ {w} : wpc'[s][v] = wpc[s][v] /\ wmsg'[s][v] = wmsg[s][v]
    PROVE  PlacesAt(s)' /\ ProgressAt(s)'
  <1>1. TypeOK /\ SourceInv(s)
    BY DEF IInv
  <1>2. /\ pc[s] = "settling" /\ PoolProgress(s)
        /\ \A m \in chunk[s] : Settling(s, m)
        /\ chunk[s] \subseteq Of(s) /\ todo[s] \subseteq chunk[s]
    BY AtWork
  <1>3. n \in Of(s) /\ n \in Msgs
    BY <1>2 DEF Of
  <1>4. settleReq'[n] = to /\ \A m \in Msgs \ {n} : settleReq'[m] = settleReq[m]
    BY <1>1, <1>3, MarkFacts DEF TypeOK, RequestType, ReqStates
  <1>5. \A v \in Workers \ {w} : wpc[s][v] \in Busy => n \notin wmsg[s][v]
    BY <1>1 DEF SourceInv, PlacesAt, Busy
  <1>6. n \notin todo[s]
    BY <1>1 DEF SourceInv, PlacesAt, Busy
  <1>7. ScheduleDone(s) => ScheduleDone(s)'
    BY DEF ScheduleDone, runVars
  <1>8. PlacesAt(s)'
    BY <1>1, <1>2 DEF SourceInv, PlacesAt, HoldsOn, sourceVars, Busy
  <1>9. ProgressAt(s)'
    <2>1. ASSUME NEW m \in batch[s] PROVE Untouched(m)'
      <3>1. Untouched(m) /\ m \in Msgs /\ m # n
        BY <1>1, <1>2 DEF SourceInv, PlacesAt, ProgressAt, Of
      <3> QED
        BY <1>4, <3>1 DEF Untouched
    <2>2. ASSUME NEW m \in Of(s) \ chunk[s] PROVE Clean(m)'
      <3>1. Clean(m) /\ m \in Msgs /\ m # n
        BY <1>1, <1>2 DEF SourceInv, ProgressAt, Of
      <3> QED
        BY <1>4, <3>1 DEF Clean
    <2>3. ASSUME NEW m \in chunk[s] PROVE Settling(s, m)'
      <3>1. Settling(s, m) /\ m \in Msgs
        BY <1>2 DEF Of
      <3>2. CASE m = n
        BY <1>4, <3>1, <3>2 DEF Settling, HoldsOn, ScheduleDone
      <3>3. CASE m # n
        <4>1. settleReq'[m] = settleReq[m]
          BY <1>4, <3>1, <3>3
        <4>2. \A v \in Workers : m \in wmsg[s][v] /\ wpc[s][v] \in Busy => v # w
          BY <3>3
        <4>3. settleReq[m] = "none" =>
                \/ m \in todo[s] \/ ScheduleDone(s)
                \/ \E v \in Workers : wpc'[s][v] \in {"got", "ready"} /\ m \in wmsg'[s][v]
          BY <3>1, <4>2 DEF Settling, Busy
        <4>4. settleReq[m] = "open" => \E v \in Workers : wpc'[s][v] = "calling" /\ m \in wmsg'[s][v]
          BY <3>1, <4>2 DEF Settling, Busy
        <4> QED
          BY <1>7, <3>1, <4>1, <4>3, <4>4 DEF Settling
      <3> QED
        BY <3>2, <3>3
    <2>4. PoolProgress(s)'
      <3>1. closed'[s] => todo'[s] = {} \/ ScheduleDone(s)'
        BY <1>2, <1>7 DEF PoolProgress
      <3>2. ASSUME NEW m \in todo'[s] PROVE settleReq'[m] = "none"
        <4>1. m \in todo[s] /\ settleReq[m] = "none"
          BY <1>2, <3>2 DEF PoolProgress
        <4>2. m # n /\ m \in Msgs
          BY <1>2, <1>6, <4>1 DEF Of
        <4> QED
          BY <1>4, <4>1, <4>2
      <3>3. ASSUME NEW v \in Workers, NEW m \in wmsg'[s][v]
            PROVE  /\ wpc'[s][v] \in {"got", "ready"} => settleReq'[m] = "none"
                   /\ wpc'[s][v] = "calling" => settleReq'[m] = "open"
        <4>1. CASE v = w
          BY <1>4, <3>3, <4>1 DEF HoldsOn
        <4>2. CASE v # w /\ wpc[s][v] \in Busy
          <5>1. m \in wmsg[s][v] /\ m # n /\ wpc'[s][v] = wpc[s][v]
            BY <1>5, <3>3, <4>2
          <5>2. m \in Msgs
            BY <1>1, <1>2, <4>2, <5>1 DEF SourceInv, PlacesAt, Of
          <5>3. settleReq'[m] = settleReq[m]
            BY <1>4, <5>1, <5>2
          <5> QED
            BY <1>2, <5>1, <5>3 DEF PoolProgress
        <4>3. CASE v # w /\ wpc[s][v] \notin Busy
          BY <4>3 DEF Busy
        <4> QED
          BY <4>1, <4>2, <4>3
      <3> QED
        BY <3>1, <3>2, <3>3 DEF PoolProgress
    <2> QED
      BY <1>2, <2>1, <2>2, <2>3, <2>4 DEF ProgressAt, sourceVars
  <1> QED
    BY <1>8, <1>9

LEMMA DispatchCompleteStep ==
    ASSUME IInv, TypeOK', NEW s \in SourceModes, NEW w \in Workers, DispatchComplete(s, w)
    PROVE  IInv'
  <1>1. TypeOK /\ SourceInv(s) /\ wpc[s][w] = "ready"
    BY DEF IInv, DispatchComplete
  <1>2. /\ pc[s] = "settling" /\ PoolProgress(s)
        /\ \A m \in chunk[s] : Settling(s, m)
        /\ chunk[s] \subseteq Of(s) /\ todo[s] \subseteq chunk[s]
    BY <1>1, AtWork
  <1>3. PICK n \in chunk[s] : wmsg[s][w] = {n}
    BY <1>1 DEF SourceInv, PlacesAt, Busy
  <1>4. n \in Of(s) /\ n \in Msgs /\ settleReq[n] = "none"
    BY <1>1, <1>2, <1>3 DEF PoolProgress, Of
  <1>5. /\ UNCHANGED <<runVars, sourceVars, todo, closed, schedStop, wmsg, sendReq, brokerVars>>
        /\ settleReq' = Mark(settleReq, {n}, "open")
    BY <1>3 DEF DispatchComplete
  <1>6. settleReq'[n] = "open" /\ \A m \in Msgs \ {n} : settleReq'[m] = settleReq[m]
    BY <1>1, <1>4, <1>5, MarkFacts DEF TypeOK, RequestType, ReqStates
  <1>7. /\ wpc'[s][w] = "calling"
        /\ \A v \in Workers \ {w} : wpc'[s][v] = wpc[s][v] /\ wmsg'[s][v] = wmsg[s][v]
        /\ OtherPools(s)
    BY <1>1, <1>5 DEF DispatchComplete, OtherPools, TypeOK, PoolType
  <1>8. /\ tracker'[s].Sent = tracker[s].Sent
        /\ tracker'[s].Settled = tracker[s].Settled
        /\ tracker'[s].SendUnconfirmed = tracker[s].SendUnconfirmed
        /\ tracker'[s].SettlementUnconfirmed = tracker[s].SettlementUnconfirmed + 1
        /\ \A t \in SourceModes \ {s} : tracker'[t] = tracker[t]
    <2>1. tracker \in [SourceModes -> SourceOutcome]
      BY <1>1 DEF TypeOK, ReportType
    <2>2. tracker[s] \in SourceOutcome
      BY <2>1
    <2> QED
      BY <2>1, <2>2 DEF DispatchComplete, Record, SourceOutcome
  <1>9. \A t \in SourceModes \ {s} : Unmoved(t)
    BY <1>4, <1>5, <1>6, <1>7, <1>8, OfDisjoint DEF Unmoved, OtherPools, runVars, sourceVars
  <1>10. PlacesAt(s)' /\ ProgressAt(s)'
    BY <1>1, <1>3, <1>5, <1>7, RequestStep DEF HoldsOn
  <1>11. CountsAt(s)'
    <2>1. n \in Of(s) /\ settleReq[n] = "none"
      BY <1>4
    <2>2. SettleIs(s, {"acked"})' = SettleIs(s, {"acked"})
      BY <1>5, <2>1 DEF SettleIs, Mark, Of
    <2>3. Cardinality(SettleIs(s, {"open", "lost"})') = Cardinality(SettleIs(s, {"open", "lost"})) + 1
      BY <1>1, <1>5, <2>1, SettleMoves DEF ReqStates
    <2>4. /\ SendIs(s, {"acked"})' = SendIs(s, {"acked"})
          /\ SendIs(s, {"open", "lost"})' = SendIs(s, {"open", "lost"})
      BY <1>5 DEF SendIs
    <2> QED
      BY <1>1, <1>8, <2>1, <2>2, <2>3, <2>4 DEF SourceInv, CountsAt
  <1>12. Requests'
    <2>1. Transfer => sendReq[n] = "acked"
      BY <1>2 DEF Settling
    <2> QED
      BY <1>5, <1>6, <2>1 DEF IInv, Requests, brokerVars
  <1>13. Wire'
    BY <1>5 DEF IInv, Wire, brokerVars, sourceVars
  <1>14. Response'
    BY <1>2, <1>5, Unanswered DEF runVars
  <1> QED
    BY <1>9, <1>10, <1>11, <1>12, <1>13, <1>14, OneSource DEF SourceInv

LEMMA CompleteAckedStep ==
    ASSUME IInv, TypeOK', NEW s \in SourceModes, NEW w \in Workers, CompleteAcked(s, w)
    PROVE  IInv'
  <1>1. TypeOK /\ SourceInv(s) /\ wpc[s][w] = "calling"
    BY DEF IInv, CompleteAcked
  <1>2. /\ pc[s] = "settling" /\ PoolProgress(s)
        /\ \A m \in chunk[s] : Settling(s, m)
        /\ chunk[s] \subseteq Of(s) /\ todo[s] \subseteq chunk[s]
    BY <1>1, AtWork
  <1>3. PICK n \in chunk[s] : wmsg[s][w] = {n}
    BY <1>1 DEF SourceInv, PlacesAt, Busy
  <1>4. n \in Of(s) /\ n \in Msgs /\ settleReq[n] = "open"
    BY <1>1, <1>2, <1>3 DEF PoolProgress, Of
  <1>5. /\ UNCHANGED <<runVars, sourceVars, todo, closed, schedStop, sendReq, brokerVars>>
        /\ settleReq' = Mark(settleReq, {n}, "acked")
    BY <1>3 DEF CompleteAcked
  <1>6. settleReq'[n] = "acked" /\ \A m \in Msgs \ {n} : settleReq'[m] = settleReq[m]
    BY <1>1, <1>4, <1>5, MarkFacts DEF TypeOK, RequestType, ReqStates
  <1>7. /\ wpc'[s][w] = "idle" /\ wmsg'[s][w] = {}
        /\ \A v \in Workers \ {w} : wpc'[s][v] = wpc[s][v] /\ wmsg'[s][v] = wmsg[s][v]
        /\ OtherPools(s)
    BY <1>1, <1>5 DEF CompleteAcked, OtherPools, TypeOK, PoolType
  <1>8. /\ tracker'[s].Sent = tracker[s].Sent
        /\ tracker'[s].Settled = tracker[s].Settled + 1
        /\ tracker'[s].SendUnconfirmed = tracker[s].SendUnconfirmed
        /\ tracker'[s].SettlementUnconfirmed = tracker[s].SettlementUnconfirmed - 1
        /\ \A t \in SourceModes \ {s} : tracker'[t] = tracker[t]
    <2>1. tracker \in [SourceModes -> SourceOutcome]
      BY <1>1 DEF TypeOK, ReportType
    <2>2. tracker[s] \in SourceOutcome
      BY <2>1
    <2> QED
      BY <2>1, <2>2 DEF CompleteAcked, Record, SourceOutcome
  <1>9. \A t \in SourceModes \ {s} : Unmoved(t)
    BY <1>4, <1>5, <1>6, <1>7, <1>8, OfDisjoint DEF Unmoved, OtherPools, runVars, sourceVars
  <1>10. PlacesAt(s)' /\ ProgressAt(s)'
    BY <1>1, <1>3, <1>5, <1>7, RequestStep DEF HoldsOn
  <1>11. CountsAt(s)'
    <2>1. n \in Of(s) /\ settleReq[n] = "open"
      BY <1>4
    <2>2. Cardinality(SettleIs(s, {"acked"})') = Cardinality(SettleIs(s, {"acked"})) + 1
      BY <1>1, <1>5, <2>1, SettleMoves DEF ReqStates
    <2>3. Cardinality(SettleIs(s, {"open", "lost"})') = Cardinality(SettleIs(s, {"open", "lost"})) - 1
      BY <1>1, <1>5, <2>1, SettleMoves DEF ReqStates
    <2>4. /\ SendIs(s, {"acked"})' = SendIs(s, {"acked"})
          /\ SendIs(s, {"open", "lost"})' = SendIs(s, {"open", "lost"})
      BY <1>5 DEF SendIs
    <2> QED
      BY <1>1, <1>8, <2>1, <2>2, <2>3, <2>4 DEF SourceInv, CountsAt
  <1>12. Requests'
    <2>1. n \in removed
      BY <1>3 DEF CompleteAcked
    <2> QED
      BY <1>4, <1>5, <1>6, <2>1 DEF IInv, Requests, brokerVars
  <1>13. Wire'
    BY <1>5 DEF IInv, Wire, brokerVars, sourceVars
  <1>14. Response'
    BY <1>2, <1>5, Unanswered DEF runVars
  <1> QED
    BY <1>9, <1>10, <1>11, <1>12, <1>13, <1>14, OneSource DEF SourceInv

LEMMA CompleteFailedStep ==
    ASSUME IInv, TypeOK', NEW s \in SourceModes, NEW w \in Workers, CompleteFailed(s, w)
    PROVE  IInv'
  <1>1. TypeOK /\ SourceInv(s) /\ wpc[s][w] = "calling"
    BY DEF IInv, CompleteFailed
  <1>2. /\ pc[s] = "settling" /\ PoolProgress(s)
        /\ \A m \in chunk[s] : Settling(s, m)
        /\ chunk[s] \subseteq Of(s) /\ todo[s] \subseteq chunk[s]
    BY <1>1, AtWork
  <1>3. PICK n \in chunk[s] : wmsg[s][w] = {n}
    BY <1>1 DEF SourceInv, PlacesAt, Busy
  <1>4. n \in Of(s) /\ n \in Msgs /\ settleReq[n] = "open"
    BY <1>1, <1>2, <1>3 DEF PoolProgress, Of
  <1>5. /\ UNCHANGED <<runVars, sourceVars, todo, closed, wmsg, sendReq, brokerVars>>
        /\ settleReq' = Mark(settleReq, {n}, "lost")
    BY <1>3 DEF CompleteFailed
  <1>6. settleReq'[n] = "lost" /\ \A m \in Msgs \ {n} : settleReq'[m] = settleReq[m]
    BY <1>1, <1>4, <1>5, MarkFacts DEF TypeOK, RequestType, ReqStates
  <1>7. /\ wpc'[s][w] = "off" /\ schedStop'[s]
        /\ \A v \in Workers \ {w} : wpc'[s][v] = wpc[s][v] /\ wmsg'[s][v] = wmsg[s][v]
        /\ OtherPools(s)
    BY <1>1, <1>5 DEF CompleteFailed, OtherPools, TypeOK, PoolType
  <1>8. tracker' = tracker
    BY DEF CompleteFailed
  <1>9. \A t \in SourceModes \ {s} : Unmoved(t)
    BY <1>4, <1>5, <1>6, <1>7, <1>8, OfDisjoint DEF Unmoved, OtherPools, runVars, sourceVars
  <1>10. PlacesAt(s)' /\ ProgressAt(s)'
    BY <1>1, <1>3, <1>5, <1>7, RequestStep DEF HoldsOn
  <1>11. CountsAt(s)'
    <2>1. n \in Of(s) /\ settleReq[n] = "open"
      BY <1>4
    <2>2. /\ SettleIs(s, {"acked"})' = SettleIs(s, {"acked"})
          /\ SettleIs(s, {"open", "lost"})' = SettleIs(s, {"open", "lost"})
      BY <1>1, <1>5, <2>1, SettleMoves DEF ReqStates
    <2>3. /\ SendIs(s, {"acked"})' = SendIs(s, {"acked"})
          /\ SendIs(s, {"open", "lost"})' = SendIs(s, {"open", "lost"})
      BY <1>5 DEF SendIs
    <2> QED
      BY <1>1, <1>8, <2>2, <2>3 DEF SourceInv, CountsAt
  <1>12. Requests'
    BY <1>4, <1>5, <1>6 DEF IInv, Requests, brokerVars
  <1>13. Wire'
    BY <1>5 DEF IInv, Wire, brokerVars, sourceVars
  <1>14. Response'
    BY <1>2, <1>5, Unanswered DEF runVars
  <1> QED
    BY <1>9, <1>10, <1>11, <1>12, <1>13, <1>14, OneSource DEF SourceInv

-----------------------------------------------------------------------------
(* The steps of the run, of the user and of the broker.                    *)

LEMMA StopStep ==
    ASSUME IInv, TypeOK', Stop
    PROVE  IInv'
  <1>1. \A s \in SourceModes : Unmoved(s)
    BY DEF Stop, Unmoved, sourceVars, poolVars
  <1>2. \A s \in SourceModes : SourceInv(s)'
    BY <1>1, UnmovedSource DEF IInv
  <1>3. Requests' /\ Wire'
    BY GlobalsStay DEF IInv, Stop, Silent, sourceVars
  <1>4. Response'
    BY DEF Stop, Response
  <1> QED
    BY <1>2, <1>3, <1>4 DEF IInv

LEMMA RespondStep ==
    ASSUME IInv, TypeOK', Respond
    PROVE  IInv'
  <1>1. UNCHANGED <<stopped, tracker, sourceVars, poolVars, sendReq, settleReq, brokerVars>>
    BY DEF Respond
  <1>2. \A s \in SourceModes : Unmoved(s)
    BY <1>1 DEF Unmoved, sourceVars, poolVars
  <1>3. \A s \in SourceModes : SourceInv(s)'
    BY <1>2, UnmovedSource DEF IInv
  <1>4. Requests' /\ Wire'
    BY <1>1, GlobalsStay DEF IInv, Silent, sourceVars
  <1>5. Response'
    <2>1. \A s \in SourceModes : pc[s] = "finished"
      BY DEF Respond
    <2>2. PICK first \in (IF {result[s] : s \in Sources} \ {"none"} = {} THEN {"none"}
                          ELSE {result[s] : s \in Sources} \ {"none"}) :
            outcome' = {Finish(tracker, RunError(first))}
      BY DEF Respond
    <2>3. first \in ErrorClass
      BY <2>2, BulkAssumption DEF IInv, TypeOK, SourceType, ErrorClass
    <2>4. RunError(first) \in ErrorClass
      BY <2>3 DEF RunError, ErrorClass
    <2>5. RunError(first) = "none" => \A s \in Sources : result[s] = "none"
      BY <2>2 DEF RunError
    <2> QED
      BY <1>1, <2>1, <2>2, <2>4, <2>5 DEF IInv, SourceInv, PlacesAt, Response, sourceVars
  <1> QED
    BY <1>3, <1>4, <1>5 DEF IInv

\* The broker's steps concern what it did, not what the worker knows of it.
LEMMA BrokerStep ==
    ASSUME IInv, Forms, TypeOK', Broker
    PROVE  IInv'
  <1>1. UNCHANGED <<runVars, tracker, sourceVars, poolVars, sendReq, settleReq>>
    BY DEF Broker, BrokerAccepts, BrokerRemoves, LockExpires, DeadLetter
  <1>2. \A s \in SourceModes : Unmoved(s)
    BY <1>1 DEF Unmoved, runVars, sourceVars, poolVars
  <1>3. \A s \in SourceModes : SourceInv(s)'
    BY <1>2, UnmovedSource DEF IInv
  <1>4. Response'
    BY <1>1 DEF IInv, Response, runVars, sourceVars
  <1>5. ASSUME NEW b \in wire, BrokerAccepts(b) PROVE Requests' /\ Wire'
    <2>1. /\ wire' = wire \ {b} /\ UNCHANGED <<avail, locked, removed>>
          /\ b \in SUBSET Msgs /\ \A m \in b : accepted[m] = 0 /\ sendReq[m] \in {"open", "lost"}
      BY <1>5 DEF BrokerAccepts, IInv, Wire, TypeOK, BrokerType
    <2>2. /\ \A m \in b : accepted'[m] = 1
          /\ \A m \in Msgs \ b : accepted'[m] = accepted[m]
      BY <1>5, <2>1 DEF BrokerAccepts, IInv, TypeOK, BrokerType
    <2>3. Requests'
      BY <1>1, <2>1, <2>2 DEF IInv, Requests
    <2>4. \A c \in wire' : \A m \in c : accepted'[m] = 0 /\ sendReq'[m] \in {"open", "lost"}
      <3> SUFFICES ASSUME NEW c \in wire', NEW m \in c
                   PROVE  accepted'[m] = 0 /\ sendReq'[m] \in {"open", "lost"}
        OBVIOUS
      <3>1. c \in wire /\ c # b /\ m \notin b /\ m \in Msgs
        BY <2>1 DEF IInv, Wire, TypeOK, BrokerType
      <3> QED
        BY <1>1, <2>2, <3>1 DEF IInv, Wire
    <2>5. \A c, d \in wire' : c # d => c \cap d = {}
      BY <2>1 DEF IInv, Wire
    <2>6. \A s \in SourceModes : pc'[s] = "sending" /\ chunk'[s] \notin wire' =>
             \A m \in chunk'[s] : accepted'[m] > 0
      <3> SUFFICES ASSUME NEW s \in SourceModes, pc[s] = "sending", chunk[s] \notin wire',
                          NEW m \in chunk[s]
                   PROVE  accepted'[m] > 0
        BY <1>1 DEF sourceVars
      <3>1. CASE chunk[s] = b
        BY <2>2, <3>1
      <3>2. CASE chunk[s] # b
        <4>1. accepted[m] > 0
          BY <2>1, <3>2 DEF IInv, Wire
        <4>2. m \notin b /\ m \in Msgs
          BY <2>1, <4>1 DEF IInv, SourceInv, PlacesAt, Of
        <4> QED
          BY <2>2, <4>1, <4>2
      <3> QED
        BY <3>1, <3>2
    <2>7. \A m \in Msgs : accepted'[m] <= 1
      BY <2>2 DEF IInv, Wire
    <2> QED
      BY <2>3, <2>4, <2>5, <2>6, <2>7 DEF Wire
  <1>6. ASSUME NEW m \in Msgs, BrokerRemoves(m) \/ LockExpires(m) \/ DeadLetter(m)
        PROVE  Requests' /\ Wire'
    <2>1. UNCHANGED <<wire, accepted>>
      BY <1>6 DEF BrokerRemoves, LockExpires, DeadLetter
    <2>2. Wire'
      BY <1>1, <2>1 DEF IInv, Wire, sourceVars
    <2>3. ASSUME BrokerRemoves(m) PROVE Requests'
      BY <1>1, <2>1, <2>3 DEF BrokerRemoves, IInv, Requests
    <2>4. ASSUME LockExpires(m) PROVE Requests'
      BY <1>1, <2>1, <2>4 DEF LockExpires, IInv, Requests
    <2>5. ASSUME DeadLetter(m) PROVE Requests'
      <3>1. m \in DOMAIN DeadForm /\ m \in Present
        BY <2>5 DEF DeadLetter, Present
      <3>2. DeadForm[m] \notin avail \cup locked \cup removed
        BY <3>1 DEF Forms, Present
      <3> QED
        BY <1>1, <2>1, <2>5, <3>2 DEF DeadLetter, IInv, Requests
    <2> QED
      BY <1>6, <2>2, <2>3, <2>4, <2>5
  <1> QED
    BY <1>3, <1>4, <1>5, <1>6 DEF IInv, Broker

-----------------------------------------------------------------------------
(* The inductive invariant.                                                *)

LEMMA InitInv == Init => IInv
  <1> SUFFICES ASSUME Init PROVE IInv
    OBVIOUS
  <1>1. TypeOK
    BY InitType
  <1>2. ASSUME NEW s \in SourceModes PROVE SourceInv(s)
    <2>1. PlacesAt(s)
      BY DEF Init, PlacesAt, Busy
    <2>2. \A m \in Of(s) : sendReq[m] = "none" /\ settleReq[m] = "none"
      BY DEF Init, Of
    <2>3. ProgressAt(s)
      BY <2>2 DEF Init, ProgressAt, Clean
    <2>4. /\ SendIs(s, {"acked"}) = {} /\ SendIs(s, {"open", "lost"}) = {}
          /\ SettleIs(s, {"acked"}) = {} /\ SettleIs(s, {"open", "lost"}) = {}
      BY <2>2 DEF SendIs, SettleIs
    <2>5. CountsAt(s)
      BY <2>4, FS_EmptySet DEF Init, NewTracker, ZeroOutcome, CountsAt
    <2> QED
      BY <2>1, <2>3, <2>5 DEF SourceInv
  <1>3. Requests
    BY DEF Init, Requests
  <1>4. Wire /\ Response
    BY DEF Init, Wire, Response
  <1> QED
    BY <1>1, <1>2, <1>3, <1>4 DEF IInv

LEMMA NextInv == IInv /\ Forms /\ [Next]_vars => IInv'
  <1> SUFFICES ASSUME IInv, Forms, [Next]_vars PROVE IInv'
    OBVIOUS
  <1>1. TypeOK'
    BY NextType DEF IInv
  <1>2. CASE Stop
    BY <1>1, <1>2, StopStep
  <1>3. ASSUME NEW s \in SourceModes, SourceStep(s) PROVE IInv'
    BY <1>1, <1>3, BeginReceiveStep, ReceiveStep, ReceiveNothingStep, BatchRefusedStep,
       NextChunkStep, DispatchSendStep, SendAckedStep, SendFailedStep, CloseJobsStep,
       SettleReturnStep DEF SourceStep
  <1>4. ASSUME NEW s \in SourceModes, NEW w \in Workers, WorkerStep(s, w) PROVE IInv'
    BY <1>1, <1>4, HandOutStep, CheckScheduleStep, DispatchCompleteStep, CompleteAckedStep,
       CompleteFailedStep, WorkerExitStep DEF WorkerStep
  <1>5. CASE Respond
    BY <1>1, <1>5, RespondStep
  <1>6. CASE Broker
    BY <1>1, <1>6, BrokerStep
  <1>7. CASE Terminated \/ UNCHANGED vars
    <2>1. UNCHANGED vars
      BY <1>7 DEF Terminated
    <2>2. \A s \in SourceModes : Unmoved(s)
      BY <2>1 DEF vars, Unmoved, runVars, sourceVars, poolVars
    <2>3. \A s \in SourceModes : SourceInv(s)'
      BY <2>2, UnmovedSource DEF IInv
    <2>4. Requests' /\ Wire'
      BY <2>1, GlobalsStay DEF IInv, vars, Silent, sourceVars
    <2>5. Response'
      BY <2>1 DEF IInv, Response, vars, runVars, sourceVars
    <2> QED
      BY <1>1, <2>3, <2>4, <2>5 DEF IInv
  <1> QED
    BY <1>2, <1>3, <1>4, <1>5, <1>6, <1>7 DEF Next

LEMMA InitForms == Init => FormInv
  BY BulkAssumption DEF Init, FormInv, Forms, NoSend, Present, DeadForms

\* Only the broker's dead-lettering changes what is present, and a message that
\* becomes a dead letter is no other message's dead letter.
LEMMA DeadLetterForms ==
    ASSUME IInv, Forms, NEW m \in Msgs, DeadLetter(m)
    PROVE  Forms'
  <1>1. m \in DOMAIN DeadForm /\ m \in avail \cup locked
    BY DEF DeadLetter
  <1>2. m \notin removed
    BY <1>1 DEF IInv, Requests
  <1>3. Present' = (Present \ {m}) \cup {DeadForm[m]}
    BY <1>1, <1>2 DEF DeadLetter, Present
  <1>4. ASSUME NEW n \in DOMAIN DeadForm, n \in Present' PROVE DeadForm[n] \notin Present'
    <2>1. Home[n] = "normal" /\ Home[DeadForm[m]] = "dlq"
      BY <1>1, BulkAssumption
    <2>2. n \in Present /\ (n # m \/ n = DeadForm[m])
      BY <1>3, <1>4, <2>1
    <2>3. n # m
      BY <2>1, <2>2
    <2>4. DeadForm[n] \notin Present /\ DeadForm[n] # DeadForm[m]
      BY <1>1, <2>2, <2>3, BulkAssumption DEF Forms
    <2> QED
      BY <1>3, <2>4
  <1> QED
    BY <1>4 DEF Forms

LEMMA NextForms == IInv /\ FormInv /\ [Next]_vars => FormInv'
  <1> SUFFICES ASSUME IInv, Forms, NoSend, [Next]_vars PROVE Forms' /\ NoSend'
    BY DEF FormInv
  <1>1. ASSUME Present' = Present PROVE Forms'
    BY <1>1 DEF Forms
  <1>2. ASSUME sendReq' = sendReq PROVE NoSend'
    BY <1>2 DEF NoSend
  <1>3. CASE Stop \/ Respond \/ Terminated \/ UNCHANGED vars
    <2>1. UNCHANGED <<sendReq, avail, locked, removed>>
      BY <1>3 DEF Stop, Respond, Terminated, vars, brokerVars
    <2> QED
      BY <1>1, <1>2, <2>1 DEF Present
  <1>4. ASSUME NEW s \in SourceModes, SourceStep(s) PROVE Forms' /\ NoSend'
    <2>1. CASE Receive(s)
      <3>1. sendReq' = sendReq /\ Present' = Present
        BY <2>1 DEF Receive, Present
      <3> QED
        BY <1>1, <1>2, <3>1
    <2>2. CASE \/ BeginReceive(s) \/ ReceiveNothing(s) \/ BatchRefused(s) \/ NextChunk(s)
               \/ CloseJobs(s) \/ SettleReturn(s)
      <3>1. UNCHANGED <<sendReq, avail, locked, removed>>
        BY <2>2 DEF BeginReceive, ReceiveNothing, BatchRefused, NextChunk, CloseJobs,
           SettleReturn, brokerVars
      <3> QED
        BY <1>1, <1>2, <3>1 DEF Present
    <2>3. CASE DispatchSend(s) \/ SendAcked(s) \/ SendFailed(s)
      <3>1. UNCHANGED <<avail, locked, removed>> /\ pc[s] \in {"sendReady", "sending"}
        BY <2>3 DEF DispatchSend, SendAcked, SendFailed, brokerVars
      <3>2. Transfer
        BY <3>1 DEF IInv, SourceInv, PlacesAt
      <3> QED
        BY <1>1, <3>1, <3>2 DEF Present, NoSend
    <2> QED
      BY <1>4, <2>1, <2>2, <2>3 DEF SourceStep
  <1>5. ASSUME NEW s \in SourceModes, NEW w \in Workers, WorkerStep(s, w) PROVE Forms' /\ NoSend'
    <2>1. UNCHANGED <<sendReq, avail, locked, removed>>
      BY <1>5 DEF WorkerStep, HandOut, CheckSchedule, DispatchComplete, CompleteAcked,
         CompleteFailed, WorkerExit, brokerVars
    <2> QED
      BY <1>1, <1>2, <2>1 DEF Present
  <1>6. CASE Broker
    <2>1. sendReq' = sendReq
      BY <1>6 DEF Broker, BrokerAccepts, BrokerRemoves, LockExpires, DeadLetter
    <2>2. ASSUME NEW b \in wire, BrokerAccepts(b) PROVE Present' = Present
      BY <2>2 DEF BrokerAccepts, Present
    <2>3. ASSUME NEW m \in Msgs, BrokerRemoves(m) \/ LockExpires(m) PROVE Present' = Present
      BY <2>3 DEF BrokerRemoves, LockExpires, Present
    <2> QED
      BY <1>1, <1>2, <1>6, <2>1, <2>2, <2>3, DeadLetterForms DEF Broker
  <1> QED
    BY <1>3, <1>4, <1>5, <1>6 DEF Next

LEMMA Inductive == Spec => [](IInv /\ FormInv)
  <1>1. Init => IInv /\ FormInv
    BY InitInv, InitForms
  <1>2. IInv /\ FormInv /\ [Next]_vars => (IInv /\ FormInv)'
    BY NextInv, NextForms DEF FormInv
  <1> QED
    BY <1>1, <1>2, PTL DEF Spec

-----------------------------------------------------------------------------
(* What the inductive invariant says of the broker.                        *)

\* What the broker did lies between what was acknowledged and what was asked.
LEMMA Bounds ==
    ASSUME IInv, NEW s \in SourceModes
    PROVE  /\ SettleIs(s, {"acked"}) \subseteq Removed(s)
           /\ Removed(s) \subseteq SettleIs(s, {"acked"}) \cup SettleIs(s, {"open", "lost"})
           /\ SendIs(s, {"acked"}) \subseteq AcceptedFrom(s)
           /\ AcceptedFrom(s) \subseteq SendIs(s, {"acked"}) \cup SendIs(s, {"open", "lost"})
  <1>1. \A m \in Of(s) : m \in Msgs
    BY DEF Of
  <1>2. \A m \in Of(s) : sendReq[m] \in ReqStates /\ settleReq[m] \in ReqStates
    BY <1>1 DEF IInv, TypeOK, RequestType
  <1> QED
    BY <1>1, <1>2 DEF IInv, Requests, Removed, AcceptedFrom, SendIs, SettleIs, ReqStates

\* A set between two others is between them in size, if these are of messages.
LEMMA Between ==
    ASSUME NEW A \in SUBSET Msgs, NEW B \in SUBSET Msgs, NEW C \in SUBSET Msgs,
           A \subseteq B, B \subseteq A \cup C
    PROVE  /\ Cardinality(A) <= Cardinality(B)
           /\ Cardinality(B) <= Cardinality(A) + Cardinality(C)
           /\ Cardinality(A) \in Nat /\ Cardinality(B) \in Nat /\ Cardinality(C) \in Nat
  <1>1. /\ IsFiniteSet(A) /\ Cardinality(A) \in Nat
        /\ IsFiniteSet(B) /\ Cardinality(B) \in Nat
        /\ IsFiniteSet(C) /\ Cardinality(C) \in Nat
    BY MsgSets
  <1>2. Cardinality(A) <= Cardinality(B)
    BY <1>1, FS_Subset
  <1>3. /\ IsFiniteSet(A \cup C)
        /\ Cardinality(A \cup C) = Cardinality(A) + Cardinality(C) - Cardinality(A \cap C)
    BY <1>1, FS_Union
  <1>4. Cardinality(B) <= Cardinality(A \cup C)
    BY <1>3, FS_Subset
  <1>5. Cardinality(A \cap C) \in Nat
    BY MsgSets
  <1> QED
    BY <1>1, <1>2, <1>3, <1>4, <1>5

LEMMA InvReportBounds == IInv => ReportBounds
  <1> SUFFICES ASSUME IInv, NEW s \in SourceModes
               PROVE  /\ tracker[s].Settled <= Cardinality(Removed(s))
                      /\ Cardinality(Removed(s)) <= tracker[s].Settled + tracker[s].SettlementUnconfirmed
                      /\ tracker[s].Sent <= Cardinality(AcceptedFrom(s))
                      /\ Cardinality(AcceptedFrom(s)) <= tracker[s].Sent + tracker[s].SendUnconfirmed
    BY DEF ReportBounds
  <1>1. /\ SettleIs(s, {"acked"}) \in SUBSET Msgs /\ SettleIs(s, {"open", "lost"}) \in SUBSET Msgs
        /\ SendIs(s, {"acked"}) \in SUBSET Msgs /\ SendIs(s, {"open", "lost"}) \in SUBSET Msgs
        /\ Removed(s) \in SUBSET Msgs /\ AcceptedFrom(s) \in SUBSET Msgs
    BY DEF SettleIs, SendIs, Removed, AcceptedFrom, Of
  <1>2. CountsAt(s)
    BY DEF IInv, SourceInv
  <1>3. /\ tracker[s].Settled <= Cardinality(Removed(s))
        /\ Cardinality(Removed(s)) <= tracker[s].Settled + tracker[s].SettlementUnconfirmed
    BY <1>1, <1>2, Bounds, Between DEF CountsAt
  <1>4. /\ tracker[s].Sent <= Cardinality(AcceptedFrom(s))
        /\ Cardinality(AcceptedFrom(s)) <= tracker[s].Sent + tracker[s].SendUnconfirmed
    BY <1>1, <1>2, Bounds, Between DEF CountsAt
  <1> QED
    BY <1>3, <1>4

\* With nothing open or lost the counters are exact.
LEMMA Decided ==
    ASSUME IInv, NEW s \in SourceModes,
           SendIs(s, {"open", "lost"}) = {}, SettleIs(s, {"open", "lost"}) = {}
    PROVE  /\ Removed(s) = SettleIs(s, {"acked"}) /\ tracker[s].Settled = Cardinality(Removed(s))
           /\ AcceptedFrom(s) = SendIs(s, {"acked"}) /\ tracker[s].Sent = Cardinality(AcceptedFrom(s))
  <1>1. Removed(s) = SettleIs(s, {"acked"}) /\ AcceptedFrom(s) = SendIs(s, {"acked"})
    BY Bounds
  <1> QED
    BY <1>1 DEF IInv, SourceInv, CountsAt

\* A source that ended well has dealt with every message it touched.
LEMMA EndedWell ==
    ASSUME IInv, NEW s \in SourceModes, \A m \in Of(s) : Clean(m)
    PROVE  /\ SendIs(s, {"open", "lost"}) = {} /\ SettleIs(s, {"open", "lost"}) = {}
           /\ Transfer => SendIs(s, {"acked"}) = SettleIs(s, {"acked"})
  <1>1. Transfer => \A m \in Of(s) : settleReq[m] = "acked" => sendReq[m] = "acked"
    BY DEF IInv, Requests, Of
  <1> QED
    BY <1>1 DEF Clean, SendIs, SettleIs

\* Counters that leave nothing unresolved in total leave nothing in any source.
LEMMA ResolvedEverywhere ==
    ASSUME IInv, ~Unresolved(Snapshot(tracker)), NEW s \in SourceModes
    PROVE  /\ SendIs(s, {"open", "lost"}) = {} /\ SettleIs(s, {"open", "lost"}) = {}
           /\ Transfer => SendIs(s, {"acked"}) = SettleIs(s, {"acked"})
  <1>1. \A t \in SourceModes :
          /\ SettleIs(t, {"acked"}) \in SUBSET Msgs /\ SettleIs(t, {"open", "lost"}) \in SUBSET Msgs
          /\ SendIs(t, {"acked"}) \in SUBSET Msgs /\ SendIs(t, {"open", "lost"}) \in SUBSET Msgs
    BY DEF SettleIs, SendIs, Of
  <1>2. \A t \in SourceModes :
          /\ tracker[t].Sent \in Nat /\ tracker[t].SendUnconfirmed \in Nat
          /\ tracker[t].Settled \in Nat /\ tracker[t].SettlementUnconfirmed \in Nat
    BY <1>1, MsgSets DEF IInv, SourceInv, CountsAt
  <1>3. /\ tracker["normal"].SendUnconfirmed + tracker["dlq"].SendUnconfirmed <= 0
        /\ tracker["normal"].SettlementUnconfirmed + tracker["dlq"].SettlementUnconfirmed <= 0
        /\ tracker["normal"].Sent + tracker["dlq"].Sent
             <= tracker["normal"].Settled + tracker["dlq"].Settled
    BY <1>2 DEF Unresolved, Snapshot, SourceModes
  <1>4. tracker[s].SendUnconfirmed = 0 /\ tracker[s].SettlementUnconfirmed = 0
    BY <1>2, <1>3 DEF SourceModes
  <1>5. Cardinality(SendIs(s, {"open", "lost"})) = 0 /\ Cardinality(SettleIs(s, {"open", "lost"})) = 0
    BY <1>4 DEF IInv, SourceInv, CountsAt
  <1>6. SendIs(s, {"open", "lost"}) = {} /\ SettleIs(s, {"open", "lost"}) = {}
    BY <1>1, <1>5, MsgSets, FS_EmptySet
  <1>7. ASSUME Transfer PROVE SendIs(s, {"acked"}) = SettleIs(s, {"acked"})
    <2>1. \A t \in SourceModes : SettleIs(t, {"acked"}) \subseteq SendIs(t, {"acked"})
      BY <1>7 DEF IInv, Requests, SettleIs, SendIs, Of
    <2>2. \A t \in SourceModes : tracker[t].Settled <= tracker[t].Sent
      <3> SUFFICES ASSUME NEW t \in SourceModes PROVE tracker[t].Settled <= tracker[t].Sent
        OBVIOUS
      <3>1. IsFiniteSet(SendIs(t, {"acked"})) /\ SettleIs(t, {"acked"}) \in SUBSET SendIs(t, {"acked"})
        BY <1>1, <2>1, MsgSets
      <3>2. Cardinality(SettleIs(t, {"acked"})) <= Cardinality(SendIs(t, {"acked"}))
        BY <3>1, FS_Subset
      <3> QED
        BY <3>2 DEF IInv, SourceInv, CountsAt
    <2>3. tracker[s].Settled = tracker[s].Sent
      <3>1. "normal" \in SourceModes /\ "dlq" \in SourceModes /\ s \in {"normal", "dlq"}
        BY DEF SourceModes
      <3>2. /\ tracker["normal"].Settled <= tracker["normal"].Sent
            /\ tracker["dlq"].Settled <= tracker["dlq"].Sent
        BY <2>2, <3>1
      <3>3. /\ tracker["normal"].Sent \in Nat /\ tracker["normal"].Settled \in Nat
            /\ tracker["dlq"].Sent \in Nat /\ tracker["dlq"].Settled \in Nat
        BY <1>2, <3>1
      <3>4. /\ tracker["normal"].Settled = tracker["normal"].Sent
            /\ tracker["dlq"].Settled = tracker["dlq"].Sent
        BY <1>3, <3>2, <3>3
      <3> QED
        BY <3>1, <3>4
    <2>4. Cardinality(SettleIs(s, {"acked"})) = Cardinality(SendIs(s, {"acked"}))
      BY <2>3 DEF IInv, SourceInv, CountsAt
    <2> QED
      BY <1>1, <2>1, <2>4, MsgSets, FS_Subset
  <1> QED
    BY <1>6, <1>7

LEMMA InvExact == IInv => ExactUnlessUnknown
  <1> SUFFICES ASSUME IInv, NEW o \in outcome, o.status # "unknown", NEW s \in SourceModes
               PROVE  /\ tracker[s].Settled = Cardinality(Removed(s))
                      /\ tracker[s].Sent = Cardinality(AcceptedFrom(s))
                      /\ Transfer => AcceptedFrom(s) = Removed(s)
    BY DEF ExactUnlessUnknown
  <1>1. PICK err \in ErrorClass : /\ o = Finish(tracker, err)
                                  /\ err = "none" => \A t \in SourceModes : result[t] = "none"
    BY DEF IInv, Response
  <1>2. /\ SendIs(s, {"open", "lost"}) = {} /\ SettleIs(s, {"open", "lost"}) = {}
        /\ Transfer => SendIs(s, {"acked"}) = SettleIs(s, {"acked"})
    <2>1. CASE err = "none"
      <3>1. pc[s] = "finished" /\ result[s] = "none"
        BY <1>1, <2>1 DEF IInv, Response
      <3>2. \A m \in Of(s) : Clean(m)
        BY <3>1 DEF IInv, SourceInv, ProgressAt
      <3> QED
        BY <3>2, EndedWell
    <2>2. CASE err # "none"
      <3>1. ~Unresolved(Snapshot(tracker))
        BY <1>1, <2>2 DEF Finish, FinishStatus
      <3> QED
        BY <3>1, ResolvedEverywhere
    <2> QED
      BY <2>1, <2>2
  <1> QED
    BY <1>2, Decided

-----------------------------------------------------------------------------
(* What happens after Stop.                                                *)

LEMMA ReadySize ==
    ASSUME NEW s \in SourceModes
    PROVE  /\ IsFiniteSet(Ready(s)) /\ Cardinality(Ready(s)) \in Nat
           /\ Cardinality(Ready(s)) <= Cardinality(Workers) /\ Cardinality(Workers) \in Nat
  <1>1. Ready(s) \in SUBSET Workers
    BY DEF Ready
  <1> QED
    BY <1>1, BulkAssumption, FS_Subset, FS_CardinalityType

\* A step that dispatches nothing keeps the bounds if, after Stop, it lets no
\* source go on to another send and no goroutine of a drain to another removal.
LEMMA NotLate ==
    ASSUME TypeOK, NEW s \in SourceModes, LateAt(s),
           lateSends'[s] = lateSends[s], lateRemovals'[s] = lateRemovals[s],
           stopped => stopped',
           pc'[s] = "sendReady" => pc[s] = "sendReady" \/ ~stopped,
           ~Transfer => Ready(s)' \subseteq Ready(s) \/ ~stopped
    PROVE  LateAt(s)'
  <1>1. lateSends[s] \in Nat /\ lateRemovals[s] \in Nat
    BY DEF TypeOK, ReportType
  <1>2. ASSUME ~Transfer
        PROVE  lateRemovals'[s] + Cardinality(Ready(s)') <= Cardinality(Workers)
    <2>1. Cardinality(Ready(s)') <= Cardinality(Workers) /\ Cardinality(Ready(s)') \in Nat
      <3>1. Ready(s)' \in SUBSET Workers
        BY DEF Ready
      <3> QED
        BY <3>1, BulkAssumption, FS_Subset, FS_CardinalityType
    <2>2. CASE ~stopped
      <3>1. lateRemovals[s] = 0
        BY <1>1, <2>2 DEF LateAt
      <3> QED
        BY <2>1, <3>1, ReadySize
    <2>3. CASE Ready(s)' \subseteq Ready(s)
      <3>1. Cardinality(Ready(s)') <= Cardinality(Ready(s))
        BY <2>3, ReadySize, FS_Subset
      <3> QED
        BY <1>1, <1>2, <2>1, <3>1, ReadySize DEF LateAt
    <2> QED
      BY <1>2, <2>2, <2>3
  <1> QED
    BY <1>1, <1>2 DEF LateAt

LEMMA InitLate == Init => LateInv
  <1> SUFFICES ASSUME Init, NEW s \in SourceModes PROVE LateAt(s)
    BY DEF LateInv
  <1>1. Ready(s) = {} /\ lateSends[s] = 0 /\ lateRemovals[s] = 0
    BY DEF Init, Ready
  <1> QED
    BY <1>1, ReadySize DEF LateAt

LEMMA NextLate == TypeOK /\ LateInv /\ [Next]_vars => LateInv'
  <1> SUFFICES ASSUME TypeOK, LateInv, [Next]_vars, NEW s \in SourceModes PROVE LateAt(s)'
    BY DEF LateInv
  <1>1. /\ LateAt(s) /\ lateSends[s] \in Nat /\ lateRemovals[s] \in Nat
        /\ pc \in [SourceModes -> PCs] /\ wpc \in [SourceModes -> [Workers -> WorkerPCs]]
        /\ lateSends \in [SourceModes -> Nat] /\ lateRemovals \in [SourceModes -> Nat]
    BY DEF LateInv, TypeOK, ReportType, SourceType, PoolType
  <1>2. CASE UNCHANGED <<pc, wpc, lateVars>> /\ (stopped => stopped')
    BY <1>1, <1>2, NotLate DEF Ready, lateVars
  <1>3. ASSUME NEW t \in SourceModes, UNCHANGED <<stopped, wpc, lateVars>>,
               NEW p, pc' = [pc EXCEPT ![t] = p], p # "sendReady" \/ ~stopped
        PROVE  LateAt(s)'
    BY <1>1, <1>3, NotLate DEF Ready, lateVars
  <1>4. ASSUME NEW t \in SourceModes, UNCHANGED <<stopped, lateVars>>,
               \E ms : StartPool(t, ms), pc' = [pc EXCEPT ![t] = "settling"]
        PROVE  LateAt(s)'
    <2>1. wpc' = [wpc EXCEPT ![t] = [w \in Workers |-> "idle"]]
      BY <1>4 DEF StartPool
    <2>2. Ready(s)' \subseteq Ready(s)
      BY <1>1, <2>1 DEF Ready
    <2> QED
      BY <1>1, <1>4, <2>2, NotLate DEF lateVars
  <1>5. ASSUME NEW t \in SourceModes, NEW w \in Workers, UNCHANGED <<stopped, pc, lateVars>>,
               \E x \in WorkerPCs : /\ wpc' = [wpc EXCEPT ![t][w] = x]
                                    /\ x # "ready" \/ Transfer \/ ~stopped
        PROVE  LateAt(s)'
    <2>1. ~Transfer => Ready(s)' \subseteq Ready(s) \/ ~stopped
      BY <1>1, <1>5 DEF Ready
    <2> QED
      BY <1>1, <1>5, <2>1, NotLate DEF lateVars
  <1>6. ASSUME NEW t \in SourceModes, SourceStep(t) PROVE LateAt(s)'
    <2>1. CASE BeginReceive(t) \/ ReceiveNothing(t) \/ BatchRefused(t)
      <3>1. PICK p \in {"receiving", "finished"} : pc' = [pc EXCEPT ![t] = p]
        BY <2>1 DEF BeginReceive, ReceiveNothing, BatchRefused, Return, Goto
      <3>2. UNCHANGED <<stopped, wpc, lateVars>>
        BY <2>1 DEF BeginReceive, ReceiveNothing, BatchRefused, runVars, poolVars
      <3> QED
        BY <1>3, <3>1, <3>2
    <2>2. CASE Receive(t)
      <3>1. UNCHANGED <<stopped, lateVars>>
        BY <2>2 DEF Receive, runVars
      <3>2. CASE Transfer
        <4>1. pc' = [pc EXCEPT ![t] = "batching"] /\ UNCHANGED wpc
          BY <2>2, <3>2 DEF Receive, Goto, poolVars
        <4> QED
          BY <1>3, <3>1, <4>1
      <3>3. CASE ~Transfer
        <4>1. pc' = [pc EXCEPT ![t] = "settling"] /\ \E ms : StartPool(t, ms)
          BY <2>2, <3>3 DEF Receive, Goto
        <4> QED
          BY <1>4, <3>1, <4>1
      <3> QED
        BY <3>2, <3>3
    <2>3. CASE NextChunk(t)
      <3>1. \E p \in {"loop", "finished", "sendReady"} :
              pc' = [pc EXCEPT ![t] = p] /\ (p = "sendReady" => ~stopped)
        BY <2>3 DEF NextChunk, Return, Goto
      <3>2. UNCHANGED <<stopped, wpc, lateVars>>
        BY <2>3 DEF NextChunk, runVars, poolVars
      <3> QED
        BY <1>3, <3>1, <3>2
    <2>4. CASE DispatchSend(t)
      <3>1. /\ UNCHANGED <<stopped, wpc, lateRemovals>>
            /\ pc' = [pc EXCEPT ![t] = "sending"] /\ pc[t] = "sendReady"
            /\ lateSends' = [lateSends EXCEPT ![t] = @ + IF stopped THEN 1 ELSE 0]
        BY <2>4 DEF DispatchSend, Goto, runVars, poolVars
      <3>2. Ready(s)' = Ready(s)
        BY <3>1 DEF Ready
      <3>3. CASE t = s
        BY <1>1, <3>1, <3>2, <3>3 DEF LateAt
      <3>4. CASE t # s
        <4>1. lateSends'[s] = lateSends[s] /\ pc'[s] = pc[s]
          BY <1>1, <3>1, <3>4
        <4> QED
          BY <1>1, <3>1, <3>2, <4>1, NotLate
      <3> QED
        BY <3>3, <3>4
    <2>5. CASE SendAcked(t)
      <3>1. pc' = [pc EXCEPT ![t] = "settling"] /\ \E ms : StartPool(t, ms)
        BY <2>5 DEF SendAcked, Goto
      <3>2. UNCHANGED <<stopped, lateVars>>
        BY <2>5 DEF SendAcked, runVars
      <3> QED
        BY <1>4, <3>1, <3>2
    <2>6. CASE SendFailed(t)
      <3>1. pc' = [pc EXCEPT ![t] = "finished"] /\ UNCHANGED <<stopped, wpc, lateVars>>
        BY <2>6 DEF SendFailed, Return, Goto, runVars, poolVars
      <3> QED
        BY <1>3, <3>1
    <2>7. CASE CloseJobs(t)
      BY <1>2, <2>7 DEF CloseJobs, runVars, sourceVars
    <2>8. CASE SettleReturn(t)
      <3>1. \E p \in {"loop", "batching", "finished"} : pc' = [pc EXCEPT ![t] = p]
        BY <2>8 DEF SettleReturn, Return, Goto
      <3>2. UNCHANGED <<stopped, wpc, lateVars>>
        BY <2>8 DEF SettleReturn, runVars, poolVars
      <3> QED
        BY <1>3, <3>1, <3>2
    <2> QED
      BY <1>6, <2>1, <2>2, <2>3, <2>4, <2>5, <2>6, <2>7, <2>8 DEF SourceStep
  <1>7. ASSUME NEW t \in SourceModes, NEW w \in Workers, WorkerStep(t, w) PROVE LateAt(s)'
    <2>1. CASE HandOut(t, w)
      <3>1. wpc' = [wpc EXCEPT ![t][w] = "got"] /\ UNCHANGED <<stopped, pc, lateVars>>
        BY <2>1 DEF HandOut, runVars, sourceVars
      <3>2. "got" \in WorkerPCs /\ "got" # "ready"
        BY DEF WorkerPCs
      <3> QED
        BY <1>5, <3>1, <3>2
    <2>2. CASE CheckSchedule(t, w)
      <3>1. UNCHANGED <<stopped, pc, lateVars>>
        BY <2>2 DEF CheckSchedule, runVars, sourceVars
      <3>2. wpc' = [wpc EXCEPT ![t][w] = IF ScheduleDone(t) THEN "off" ELSE "ready"]
        BY <2>2 DEF CheckSchedule
      <3>3. CASE ScheduleDone(t)
        <4>1. wpc' = [wpc EXCEPT ![t][w] = "off"] /\ "off" \in WorkerPCs /\ "off" # "ready"
          BY <3>2, <3>3 DEF WorkerPCs
        <4> QED
          BY <1>5, <3>1, <4>1
      <3>4. CASE ~ScheduleDone(t)
        <4>1. Transfer \/ ~stopped
          BY <3>4 DEF ScheduleDone
        <4>2. wpc' = [wpc EXCEPT ![t][w] = "ready"] /\ "ready" \in WorkerPCs
          BY <3>2, <3>4 DEF WorkerPCs
        <4> QED
          BY <1>5, <3>1, <4>1, <4>2
      <3> QED
        BY <3>3, <3>4
    <2>3. CASE DispatchComplete(t, w)
      <3>1. /\ UNCHANGED <<stopped, pc, lateSends>>
            /\ wpc' = [wpc EXCEPT ![t][w] = "calling"] /\ wpc[t][w] = "ready"
            /\ lateRemovals' = [lateRemovals EXCEPT ![t] = @ + IF stopped THEN 1 ELSE 0]
        BY <2>3 DEF DispatchComplete, runVars, sourceVars
      <3>2. CASE t = s
        <4>1. Ready(s)' = Ready(s) \ {w} /\ w \in Ready(s)
          BY <1>1, <3>1, <3>2 DEF Ready
        <4>2. Cardinality(Ready(s)') = Cardinality(Ready(s)) - 1
          BY <4>1, ReadySize, FS_RemoveElement
        <4>3. lateRemovals'[s] \in {lateRemovals[s], lateRemovals[s] + 1}
              /\ (lateRemovals'[s] # lateRemovals[s] => stopped)
          BY <1>1, <3>1, <3>2
        <4> QED
          BY <1>1, <3>1, <4>2, <4>3, ReadySize DEF LateAt
      <3>3. CASE t # s
        <4>1. lateRemovals'[s] = lateRemovals[s] /\ Ready(s)' = Ready(s)
          BY <1>1, <3>1, <3>3 DEF Ready
        <4> QED
          BY <1>1, <3>1, <4>1, NotLate
      <3> QED
        BY <3>2, <3>3
    <2>4. CASE CompleteAcked(t, w)
      <3>1. wpc' = [wpc EXCEPT ![t][w] = "idle"] /\ UNCHANGED <<stopped, pc, lateVars>>
        BY <2>4 DEF CompleteAcked, runVars, sourceVars
      <3>2. "idle" \in WorkerPCs /\ "idle" # "ready"
        BY DEF WorkerPCs
      <3> QED
        BY <1>5, <3>1, <3>2
    <2>5. CASE CompleteFailed(t, w) \/ WorkerExit(t, w)
      <3>1. wpc' = [wpc EXCEPT ![t][w] = "off"] /\ UNCHANGED <<stopped, pc, lateVars>>
        BY <2>5 DEF CompleteFailed, WorkerExit, runVars, sourceVars
      <3>2. "off" \in WorkerPCs /\ "off" # "ready"
        BY DEF WorkerPCs
      <3> QED
        BY <1>5, <3>1, <3>2
    <2> QED
      BY <1>7, <2>1, <2>2, <2>3, <2>4, <2>5 DEF WorkerStep
  <1>8. CASE Stop \/ Respond \/ Broker \/ Terminated \/ UNCHANGED vars
    <2>1. UNCHANGED <<pc, wpc, lateVars>> /\ (stopped => stopped')
      BY <1>8 DEF Stop, Respond, Broker, BrokerAccepts, BrokerRemoves, LockExpires, DeadLetter,
         Terminated,
         vars, runVars, sourceVars, poolVars, lateVars
    <2> QED
      BY <1>2, <2>1
  <1> QED
    BY <1>6, <1>7, <1>8 DEF Next

-----------------------------------------------------------------------------
(* The theorems.                                                           *)

\* Whatever a transfer removes from its source, the destination has accepted
\* before, for any number of messages, goroutines, sources and any batch size.
THEOREM NothingLost == Spec => []NoMessageLost
  <1>1. IInv => NoMessageLost
    BY DEF IInv, TypeOK, BrokerType, Requests, NoMessageLost
  <1> QED
    BY <1>1, Inductive, PTL

\* One run has each message accepted at most once from each subqueue, whatever
\* failed and however often its lock expired.  A second delivery, of a message
\* the broker dead-lettered after its send, is reported as an unknown outcome.
THEOREM DuplicatesAreReported == Spec => []NoSilentDuplicate
  <1>1. IInv /\ FormInv => NoSilentDuplicate
    <2> SUFFICES ASSUME IInv, Forms, NoSend PROVE NoSilentDuplicate
      BY DEF FormInv
    <2>1. \A m \in Msgs : accepted[m] \in Nat /\ accepted[m] <= 1
      BY DEF IInv, TypeOK, BrokerType, Wire
    <2>2. ASSUME NEW o \in outcome, NEW m \in DOMAIN DeadForm,
                 accepted[m] + accepted[DeadForm[m]] > 1
          PROVE  o.status = "unknown"
      <3> SUFFICES ASSUME o.status # "unknown" PROVE FALSE
        OBVIOUS
      <3>1. m \in Msgs /\ DeadForm[m] \in Msgs
        BY BulkAssumption
      <3>2. accepted[m] > 0 /\ accepted[DeadForm[m]] > 0
        BY <2>1, <2>2, <3>1
      <3>3. Transfer
        BY <3>1, <3>2 DEF IInv, Requests, NoSend
      <3>4. /\ m \in Of("normal") /\ DeadForm[m] \in Of("dlq")
            /\ "normal" \in SourceModes /\ "dlq" \in SourceModes
        BY <3>1, BulkAssumption DEF Of, SourceModes
      <3>5. AcceptedFrom("normal") = Removed("normal") /\ AcceptedFrom("dlq") = Removed("dlq")
        BY <3>3, <3>4, InvExact DEF ExactUnlessUnknown
      <3>6. m \in removed /\ DeadForm[m] \in removed
        BY <3>2, <3>4, <3>5 DEF AcceptedFrom, Removed
      <3> QED
        BY <3>6 DEF Forms, Present
    <2> QED
      BY <2>1, <2>2 DEF NoSilentDuplicate
  <1> QED
    BY <1>1, Inductive, PTL

\* At every moment the four counters of a source bound what the broker did.
THEOREM ReportIsBound == Spec => []ReportBounds
  BY InvReportBounds, Inductive, PTL

\* A report whose status is not unknown is exact, for ever after.
THEOREM ReportIsExact == Spec => []ExactUnlessUnknown
  BY InvExact, Inductive, PTL

\* Both together: what the user is shown is right.
THEOREM ReportIsRight == Spec => []ReportHolds
  <1>1. ReportBounds /\ ExactUnlessUnknown => ReportHolds
    BY DEF ReportHolds
  <1> QED
    BY <1>1, ReportIsBound, ReportIsExact, PTL

\* After Stop a source dispatches at most one more send, and each goroutine of
\* a drain at most one more removal.
THEOREM StopEndsWork == Spec => []StopEndsIntake
  <1>1. TypeOK /\ LateInv => StopEndsIntake
    <2> SUFFICES ASSUME TypeOK, NEW s \in SourceModes, LateAt(s)
                 PROVE  /\ lateSends[s] <= 1
                        /\ ~Transfer => lateRemovals[s] <= Cardinality(Workers)
      BY DEF LateInv, StopEndsIntake
    <2>1. lateRemovals[s] \in Nat
      BY DEF TypeOK, ReportType
    <2> QED
      BY <2>1, ReadySize DEF LateAt
  <1> QED
    BY <1>1, InitType, NextType, InitLate, NextLate, PTL DEF Spec

\* Once the response is sent, no step of the run changes its counters, makes a
\* request or hears of one: nobody is left who could.
THEOREM NothingAfterReport == Spec => FinalReport
  <1>1. IInv /\ [Next]_vars => [outcome # {} => UNCHANGED <<tracker, sendReq, settleReq, outcome>>]_vars
    <2> SUFFICES ASSUME IInv, Next, outcome # {}
                 PROVE  UNCHANGED <<tracker, sendReq, settleReq, outcome>>
      BY DEF vars, runVars
    <2>1. \A s \in SourceModes : pc[s] = "finished"
      BY DEF IInv, Response
    <2>2. \A s \in SourceModes, w \in Workers : wpc[s][w] = "off"
      BY <2>1 DEF IInv, SourceInv, PlacesAt
    <2>3. ASSUME NEW s \in SourceModes PROVE ~SourceStep(s)
      BY <2>1 DEF SourceStep, BeginReceive, Receive, ReceiveNothing, BatchRefused, NextChunk,
         DispatchSend, SendAcked, SendFailed, CloseJobs, SettleReturn
    <2>4. ASSUME NEW s \in SourceModes, NEW w \in Workers PROVE ~WorkerStep(s, w)
      BY <2>2 DEF WorkerStep, HandOut, CheckSchedule, DispatchComplete, CompleteAcked,
         CompleteFailed, WorkerExit
    <2>5. ~Stop /\ ~Respond
      BY DEF Stop, Respond
    <2>6. CASE Broker
      BY <2>6 DEF Broker, BrokerAccepts, BrokerRemoves, LockExpires, DeadLetter, runVars
    <2>7. CASE Terminated
      BY <2>7 DEF Terminated, vars, runVars
    <2> QED
      BY <2>3, <2>4, <2>5, <2>6, <2>7 DEF Next
  <1> QED
    BY <1>1, Inductive, PTL DEF Spec, FinalReport

=============================================================================
