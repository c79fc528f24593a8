--------------------------- MODULE WorkerDispatch ---------------------------
(***************************************************************************)
(* The request loop of the Go worker (src-tauri/worker-go/main.go).        *)
(*                                                                         *)
(* One goroutine reads request lines and starts a goroutine for each.  A   *)
(* regular request waits for one of the handler slots, runs and answers.   *)
(* A cancellable run is first registered under its run id; its goroutine   *)
(* waits for a slot or for Stop, runs, answers, gives the slot back and    *)
(* unregisters.  cancelRun needs no slot.  Single-message scans            *)
(* additionally take turns on their source while they hold their slot      *)
(* (SourceGate is that mechanism in detail; here it is a plain lock).      *)
(*                                                                         *)
(* What a handler does is abstracted to the error it returns; heartbeats   *)
(* and progress events, which change no state of the worker, are left out. *)
(***************************************************************************)
EXTENDS FiniteSets, Sequences, Integers

CONSTANTS
    Runs,        \* cancellable requests
    Plain,       \* regular requests
    Cancels,     \* cancelRun requests
    RunId,       \* the run id of each run
    Target,      \* the run id each cancelRun names
    Structured,  \* runs answered with an operation outcome (hasStructuredOutcome)
    Scans,       \* runs that are single-message scans of one and the same source
    Slots,       \* capacity of handlerSlots
    NoRun

ASSUME DispatchAssumption ==
    /\ IsFiniteSet(Runs \cup Plain)
    /\ Runs \cap Plain = {} /\ Runs \cap Cancels = {} /\ Plain \cap Cancels = {}
    /\ DOMAIN RunId = Runs /\ DOMAIN Target = Cancels
    /\ Structured \subseteq Runs /\ Scans \subseteq Structured
    /\ Slots \in Nat \ {0}
    /\ NoRun \notin Runs

Handled == Runs \cup Plain
Requests == Handled \cup Cancels
RunIds == {RunId[r] : r \in Runs} \cup {Target[c] : c \in Cancels}

VARIABLES
    reading,     \* stdin has not ended
    stage,       \* where each request's goroutine is
    registered,  \* activeRuns
    slots,       \* tokens in handlerSlots
    stopped,     \* stopped[r]: the run's request context is cancelled
    found,       \* the run a cancelRun looked up
    err,         \* what each handler returned
    answers,     \* the responses written for each request
    stoppedInTime \* history: the run was stopped before its handler returned

vars == <<reading, stage, registered, slots, stopped, found, err, answers, stoppedInTime>>

\* unsent: not read; waiting: for a slot (cancelRun: started); running: in its
\* handler; scanning: and holding the scan's source; returned: the handler
\* returned; answered: response written; freed: slot given back; over.
Stages == {"unsent", "waiting", "running", "scanning", "returned", "answered", "freed", "over"}
Errors == {"none", "cancelled", "failed"}
Answers == {"ok", "stopped", "error", "cancelled", "invalid_run", "cancel_failed"}

TypeOK ==
    /\ reading \in BOOLEAN
    /\ stage \in [Requests -> Stages]
    /\ registered \in [RunIds -> Runs \cup {NoRun}]
    /\ slots \in 0..Slots
    /\ stopped \in [Runs -> BOOLEAN]
    /\ found \in [Cancels -> Runs \cup {NoRun}]
    /\ err \in [Runs -> Errors]
    /\ answers \in [Requests -> Seq(Answers)]
    /\ stoppedInTime \in [Runs -> BOOLEAN]

Init ==
    /\ reading = TRUE
    /\ stage = [q \in Requests |-> "unsent"]
    /\ registered = [i \in RunIds |-> NoRun]
    /\ slots = 0
    /\ stopped = [r \in Runs |-> FALSE]
    /\ found = [c \in Cancels |-> NoRun]
    /\ err = [r \in Runs |-> "none"]
    /\ answers = [q \in Requests |-> <<>>]
    /\ stoppedInTime = [r \in Runs |-> FALSE]

-----------------------------------------------------------------------------
Goto(q, s) == stage' = [stage EXCEPT ![q] = s]
Write(q, a) == answers' = [answers EXCEPT ![q] = Append(@, a)]

\* Mutant: leaves the registration to the goroutine.
DispatchRunUnregistered(r) ==
    /\ reading /\ stage[r] = "unsent"
    /\ Goto(r, "waiting")
    /\ UNCHANGED <<reading, registered, slots, stopped, found, err, answers, stoppedInTime>>

\* dispatch registers a run before it starts the goroutine; a run id in use is
\* refused.
DispatchRun(r) ==
    /\ reading /\ stage[r] = "unsent"
    /\ IF registered[RunId[r]] # NoRun
       THEN Write(r, "invalid_run") /\ Goto(r, "over") /\ UNCHANGED registered
       ELSE /\ registered' = [registered EXCEPT ![RunId[r]] = r]
            /\ Goto(r, "waiting") /\ UNCHANGED answers
    /\ UNCHANGED <<reading, slots, stopped, found, err, stoppedInTime>>

\* A regular request and a cancelRun only start their goroutines.
DispatchOther(q) ==
    /\ reading /\ q \notin Runs /\ stage[q] = "unsent"
    /\ Goto(q, "waiting")
    /\ UNCHANGED <<reading, registered, slots, stopped, found, err, answers, stoppedInTime>>

\* The scanner ends: the bridge closed stdin.
EndOfInput ==
    /\ reading
    /\ reading' = FALSE
    /\ UNCHANGED <<stage, registered, slots, stopped, found, err, answers, stoppedInTime>>

\* handlerSlots <- struct{}{}: also chosen, at times, by a run already stopped.
TakeSlot(q) ==
    /\ stage[q] = "waiting" /\ slots < Slots
    /\ slots' = slots + 1
    /\ Goto(q, "running")
    /\ UNCHANGED <<reading, registered, stopped, found, err, answers, stoppedInTime>>

\* Mutant: answers and goes on to call the handler.
StoppedWaitingGoesOn(r) ==
    /\ stage[r] = "waiting" /\ stopped[r]
    /\ Write(r, IF r \in Structured THEN "stopped" ELSE "cancelled")
    /\ Goto(r, "running")
    /\ UNCHANGED <<reading, registered, slots, stopped, found, err, stoppedInTime>>

\* Stop reached a run that waits for a slot.
StoppedWaiting(r) ==
    /\ stage[r] = "waiting" /\ stopped[r]
    /\ Write(r, IF r \in Structured THEN "stopped" ELSE "cancelled")
    /\ Goto(r, "freed")
    /\ UNCHANGED <<reading, registered, slots, stopped, found, err, stoppedInTime>>

\* A scan enters its source: at most one at a time, and not once it is stopped.
EnterSource(r) ==
    /\ r \in Scans /\ stage[r] = "running" /\ ~stopped[r]
    /\ \A o \in Scans : stage[o] # "scanning"
    /\ Goto(r, "scanning")
    /\ UNCHANGED <<reading, registered, slots, stopped, found, err, answers, stoppedInTime>>

\* The handler returns.  Only a stopped one can report cancellation; a scan
\* waiting for its source returns only when it is stopped.
Return(r) ==
    /\ stage[r] = IF r \in Scans THEN "scanning" ELSE "running"
    /\ \E e \in {"none", "failed"} \cup (IF stopped[r] THEN {"cancelled"} ELSE {}) :
         err' = [err EXCEPT ![r] = e]
    /\ stoppedInTime' = [stoppedInTime EXCEPT ![r] = stopped[r]]
    /\ Goto(r, "returned")
    /\ UNCHANGED <<reading, registered, slots, stopped, found, answers>>

StopWaitingForSource(r) ==
    /\ r \in Scans /\ stage[r] = "running" /\ stopped[r]
    /\ err' = [err EXCEPT ![r] = "cancelled"]
    /\ stoppedInTime' = [stoppedInTime EXCEPT ![r] = TRUE]
    /\ Goto(r, "returned")
    /\ UNCHANGED <<reading, registered, slots, stopped, found, answers>>

\* Mutant: reports the handler's own result only.
OutcomeOfHandler(r) ==
    CASE err[r] = "none" -> "ok"
      [] err[r] = "failed" -> "error"
      [] OTHER -> IF r \in Structured THEN "stopped" ELSE "cancelled"

\* A structured run that was stopped joins the context's error to its result.
Outcome(r) ==
    CASE r \in Structured /\ (stopped[r] \/ err[r] = "cancelled") -> "stopped"
      [] r \notin Structured /\ err[r] = "cancelled" -> "cancelled"
      [] err[r] = "failed" /\ ~(r \in Structured /\ stopped[r]) -> "error"
      [] OTHER -> "ok"

Answer(r) ==
    /\ stage[r] = "returned"
    /\ Write(r, Outcome(r))
    /\ Goto(r, "answered")
    /\ UNCHANGED <<reading, registered, slots, stopped, found, err, stoppedInTime>>

\* The deferred calls run last in, first out: the slot, then the registration.
FreeSlot(q) ==
    /\ stage[q] = "answered"
    /\ slots' = slots - 1
    /\ Goto(q, IF q \in Runs THEN "freed" ELSE "over")
    /\ UNCHANGED <<reading, registered, stopped, found, err, answers, stoppedInTime>>

\* finishRun removes the registration if it is still its own, and cancels the
\* contexts.
FinishRun(r) ==
    /\ stage[r] = "freed"
    /\ registered' = [registered EXCEPT ![RunId[r]] = IF @ = r THEN NoRun ELSE @]
    /\ stopped' = [stopped EXCEPT ![r] = TRUE]
    /\ Goto(r, "over")
    /\ UNCHANGED <<reading, slots, found, err, answers, stoppedInTime>>

\* A regular handler returns and answers.
AnswerPlain(q) ==
    /\ q \in Plain /\ stage[q] = "running"
    /\ \E a \in {"ok", "error"} : Write(q, a)
    /\ Goto(q, "answered")
    /\ UNCHANGED <<reading, registered, slots, stopped, found, err, stoppedInTime>>

\* Mutant: cancelRun waits for a handler slot like any request.
LookupRunWithSlot(c) ==
    /\ stage[c] = "waiting" /\ slots < Slots
    /\ LET r == registered[Target[c]] IN
         IF r = NoRun
         THEN Write(c, "cancel_failed") /\ Goto(c, "over") /\ UNCHANGED found
         ELSE /\ found' = [found EXCEPT ![c] = r]
              /\ Goto(c, "running") /\ UNCHANGED answers
    /\ UNCHANGED <<reading, registered, slots, stopped, err, stoppedInTime>>

\* cancelRun looks the run up under the lock ...
LookupRun(c) ==
    /\ stage[c] = "waiting"
    /\ LET r == registered[Target[c]] IN
         IF r = NoRun
         THEN Write(c, "cancel_failed") /\ Goto(c, "over") /\ UNCHANGED found
         ELSE /\ found' = [found EXCEPT ![c] = r]
              /\ Goto(c, "running") /\ UNCHANGED answers
    /\ UNCHANGED <<reading, registered, slots, stopped, err, stoppedInTime>>

\* ... and stops it outside the lock: it may have finished meanwhile.
StopRun(c) ==
    /\ stage[c] = "running"
    /\ stopped' = [stopped EXCEPT ![found[c]] = TRUE]
    /\ Write(c, "ok")
    /\ Goto(c, "over")
    /\ UNCHANGED <<reading, registered, slots, found, err, stoppedInTime>>

\* main returns from wg.Wait(): every goroutine has ended.
Exited == ~reading /\ \A q \in Requests : stage[q] \in {"unsent", "over"}

Terminated == Exited /\ UNCHANGED vars

Dispatch == (\E r \in Runs : DispatchRun(r)) \/ (\E q \in Plain \cup Cancels : DispatchOther(q))

\* The steps of a run's goroutine around its handler.
RunStep(r) == StoppedWaiting(r) \/ StopWaitingForSource(r) \/ Answer(r) \/ FreeSlot(r) \/ FinishRun(r)
CancelStep(c) == LookupRun(c) \/ StopRun(c)

Next ==
    \/ Dispatch \/ EndOfInput
    \/ \E q \in Handled : TakeSlot(q)
    \/ \E r \in Runs : EnterSource(r) \/ Return(r) \/ RunStep(r)
    \/ \E q \in Plain : AnswerPlain(q) \/ FreeSlot(q)
    \/ \E c \in Cancels : CancelStep(c)
    \/ Terminated

Spec == Init /\ [][Next]_vars

\* Goroutines keep running; blocked senders on a channel are served in order.
\* Nothing is assumed of the handlers.
WorkerFairness ==
    /\ \A q \in Handled : SF_vars(TakeSlot(q))
    /\ \A r \in Runs : SF_vars(EnterSource(r)) /\ WF_vars(RunStep(r))
    /\ \A q \in Plain : WF_vars(FreeSlot(q))
    /\ \A c \in Cancels : WF_vars(CancelStep(c))

WorkerSpec == Spec /\ WorkerFairness

\* Every handler returns: its broker calls have timeouts.
HandlersReturn ==
    /\ \A r \in Runs : WF_vars(Return(r))
    /\ \A q \in Plain : WF_vars(AnswerPlain(q))

-----------------------------------------------------------------------------
(* Properties.                                                             *)

Live(r) == stage[r] \notin {"unsent", "over"}
Holders == {q \in Handled : stage[q] \in {"running", "scanning", "returned", "answered"}}

\* No request is answered twice, and the worker exits only after every request
\* it read has been answered (the returns of dispatch's goroutine, wg.Wait).
AnsweredOnce ==
    \A q \in Requests :
        /\ Len(answers[q]) <= 1
        /\ Exited /\ stage[q] = "over" => Len(answers[q]) = 1

\* The tokens in handlerSlots are those of the requests in their handlers: no
\* path through a goroutine loses a slot or gives back one it does not hold.
SlotsAccounted == slots = Cardinality(Holders)

\* A scan that holds a slot and waits for another scan of its source.
WaitsForSource(r) ==
    /\ r \in Scans /\ stage[r] = "running" /\ ~stopped[r]
    /\ \E o \in Scans : stage[o] = "scanning"

\* The waits form no circle: when every slot is taken, so that requests wait for
\* one, a holder of a slot waits for nobody but its own handler.  A scan that
\* waits for its source waits for a scan that has a slot already (the order of
\* handlerSlots before the source gate in dispatch).
NoCircle == slots = Slots => \E q \in Holders : ~WaitsForSource(q)

\* Of two runs with one id at most one is alive, so that progress and Stop
\* always mean one run (registerRun, and finishRun's test before the delete).
OneRunPerId ==
    \A r, o \in Runs : Live(r) /\ Live(o) /\ RunId[r] = RunId[o] => r = o

\* cancelRun fails only when no run of that id is under way, even one whose
\* goroutine has not started ("a cancel request read on the next stdin line can
\* always find this run, even if it has not acquired a handler slot yet",
\* main.go:278).
FailedCancelMeansOver ==
    [][\A c \in Cancels : answers[c] = <<>> /\ answers'[c] = <<"cancel_failed">> =>
          \A r \in Runs : RunId[r] = Target[c] => ~Live(r)]_vars

\* An operation that was stopped before its handler returned never reports
\* success (the errors.Join in dispatch).
StopIsReported ==
    \A r \in Structured : stoppedInTime[r] => \A i \in DOMAIN answers[r] : answers[r][i] # "ok"

\* Every request that is read is answered: requests that wait for a slot, and
\* scans that wait for their source while they hold one, never wait for each
\* other in a circle, provided that handlers return.  A request is read once
\* and an answer never taken back, so "again and again everything read is
\* answered" says that each request read is answered in the end.
AllAnswered ==
    HandlersReturn => []<>(\A q \in Requests : stage[q] # "unsent" => answers[q] # <<>>)

\* Stop gets through whatever the handlers do: with every slot taken by a
\* handler that never returns, cancelRun is answered, and a stopped run that
\* waits for a slot, or a stopped scan that waits for its source, is answered
\* or reaches its handler's own work, which the Stop then ends.
StopGetsThrough ==
    []<>(/\ \A c \in Cancels : stage[c] # "unsent" => answers[c] # <<>>
         /\ \A r \in Runs : stopped[r] =>
               \/ answers[r] # <<>>
               \/ stage[r] = IF r \in Scans THEN "scanning" ELSE "running")

\* Nobody waits for ever: with handlers that return every request is answered,
\* and with handlers that never do Stop still gets through.
NobodyStuck == AllAnswered /\ StopGetsThrough

=============================================================================
