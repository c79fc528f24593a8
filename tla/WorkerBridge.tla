----------------------------- MODULE WorkerBridge -----------------------------
(***************************************************************************)
(* The Rust side of the worker process (src-tauri/src/commands/worker.rs): *)
(* call_worker, the task that reads the worker's output, and the start and *)
(* the end of worker processes.                                            *)
(*                                                                         *)
(* WORKER_STATE holds the current worker under an asynchronous mutex.  A   *)
(* call takes it to make sure a worker runs, to enter its response channel *)
(* in that worker's pending map and to write its request; it waits for the *)
(* response without it.  The reader task empties the pending map when it   *)
(* stops.  A caller that gets a transport error takes the mutex again and  *)
(* stops the worker.                                                       *)
(*                                                                         *)
(* A request is its call; frames, the rate limit of progress events and    *)
(* event forwarding are left out.  stop_worker is one step: it holds the   *)
(* mutex while it waits for the killed process, and nothing else can enter *)
(* the map it has emptied.                                                 *)
(***************************************************************************)
EXTENDS Integers, FiniteSets

CONSTANTS
    Calls,          \* calls of call_worker
    Timed,          \* those with a timeout
    MaxWorkers,     \* bound of the model: workers started
    Nobody          \* the mutex is free

ASSUME BridgeAssumption == Timed \subseteq Calls /\ MaxWorkers \in Nat /\ Nobody \notin Calls

Workers == 1..MaxWorkers
NoWorker == 0

VARIABLES
    lock,       \* the mutex of WORKER_STATE
    current,    \* WORKER_STATE
    started,    \* workers started so far
    process,    \* the worker processes
    reader,     \* their reader tasks; "drained": emptied the map, not finished yet
    requests,   \* requests written to a worker and not answered
    output,     \* responses in a worker's output pipe
    pending,    \* each worker's pending map
    phase,      \* where each call is
    at,         \* the worker a call was registered with
    chan,       \* the call's response channel
    late        \* history: calls registered after the reader had emptied the map

bridgeVars == <<lock, current, started, process, reader, requests, output, pending, phase, at, chan,
          late>>
workerVars == <<current, started, process, reader>>
pipeVars == <<requests, output>>

BridgeTypeOK ==
    /\ lock \in Calls \cup {Nobody}
    /\ started \in 0..MaxWorkers /\ current \in 0..started
    /\ process \in [Workers -> {"none", "alive", "dead"}]
    /\ reader \in [Workers -> {"none", "reading", "drained", "finished"}]
    /\ requests \in [Workers -> SUBSET Calls]
    /\ output \in [Workers -> SUBSET Calls]
    /\ pending \in [Workers -> SUBSET Calls]
    /\ phase \in [Calls -> {"idle", "locking", "writing", "waiting", "expired", "failed", "done"}]
    /\ at \in [Calls -> Workers \cup {NoWorker}]
    /\ chan \in [Calls -> {"empty", "answer", "transport"}]
    /\ late \subseteq Calls

BridgeInit ==
    /\ lock = Nobody
    /\ current = NoWorker
    /\ started = 0
    /\ process = [w \in Workers |-> "none"]
    /\ reader = [w \in Workers |-> "none"]
    /\ requests = [w \in Workers |-> {}]
    /\ output = [w \in Workers |-> {}]
    /\ pending = [w \in Workers |-> {}]
    /\ phase = [c \in Calls |-> "idle"]
    /\ at = [c \in Calls |-> NoWorker]
    /\ chan = [c \in Calls |-> "empty"]
    /\ late = {}

Proceed(c, p) == phase' = [phase EXCEPT ![c] = p]

-----------------------------------------------------------------------------
(* drain_pending, stop_worker and ensure_worker_running.                   *)

\* drain_pending: every caller in the map gets a transport error.
Drain(w) ==
    chan' = [c \in Calls |-> IF c \in pending[w] THEN "transport" ELSE chan[c]]

\* stop_worker.  The mutex is held.
StopWorker ==
    IF current = NoWorker
    THEN UNCHANGED <<current, process, reader, requests, output, pending, chan>>
    ELSE /\ Drain(current)
         /\ pending' = [pending EXCEPT ![current] = {}]
         /\ process' = [process EXCEPT ![current] = "dead"]
         /\ reader' = [reader EXCEPT ![current] = "finished"]
         /\ requests' = [requests EXCEPT ![current] = {}]
         /\ output' = [output EXCEPT ![current] = {}]
         /\ current' = NoWorker

\* The current worker's reader has finished: the worker is of no more use.
Useless(w) == w # NoWorker /\ reader[w] = "finished"

Fresh == current = NoWorker \/ Useless(current)

\* ensure_worker_running drains a useless worker once more ...
Channels ==
    [c \in Calls |-> IF Useless(current) /\ c \in pending[current] THEN "transport" ELSE chan[c]]

\* Mutant: the process of a useless worker is left running.
ProcessesUnkilled(new) == [process EXCEPT ![new] = "alive"]

\* ... drops it, which kills its process (kill_on_drop), and starts a new one.
Processes(new) ==
    [w \in Workers |-> IF w = new THEN "alive" ELSE IF w = current THEN "dead" ELSE process[w]]

\* ensure_worker_running with a call's registration.
Registered(c) ==
    /\ IF Fresh
       THEN /\ started < MaxWorkers
            /\ started' = started + 1
            /\ current' = started'
            /\ process' = Processes(started')
            /\ reader' = [reader EXCEPT ![started'] = "reading"]
            /\ requests' = [w \in Workers |-> IF w = current THEN {} ELSE requests[w]]
       ELSE UNCHANGED <<started, current, process, reader, requests>>
    /\ chan' = Channels
    /\ pending' = [w \in Workers |-> IF w = current' THEN pending[w] \cup {c}
                                     ELSE IF w = current THEN {} ELSE pending[w]]
    /\ at' = [at EXCEPT ![c] = current']

\* The worker could not be started: the useless one is gone all the same.
NotStarted ==
    /\ Fresh
    /\ IF Useless(current) THEN StopWorker
       ELSE UNCHANGED <<current, process, reader, requests, output, pending, chan>>
    /\ UNCHANGED started

-----------------------------------------------------------------------------
(* call_worker.                                                            *)

Call(c) ==
    /\ phase[c] = "idle"
    /\ Proceed(c, "locking")
    /\ UNCHANGED <<lock, workerVars, pipeVars, pending, at, chan, late>>

Register(c) ==
    /\ phase[c] = "locking" /\ lock = Nobody
    /\ Registered(c)
    /\ lock' = c
    /\ Proceed(c, "writing")
    /\ late' = IF reader'[current'] = "reading" THEN late ELSE late \cup {c}
    /\ UNCHANGED output

SpawnFails(c) ==
    /\ phase[c] = "locking" /\ lock = Nobody
    /\ NotStarted
    /\ Proceed(c, "done")
    /\ UNCHANGED <<lock, at, late>>

WriteRequest(c) ==
    /\ phase[c] = "writing" /\ process[current] = "alive"
    /\ requests' = [requests EXCEPT ![current] = @ \cup {c}]
    /\ lock' = Nobody
    /\ Proceed(c, "waiting")
    /\ UNCHANGED <<workerVars, output, pending, at, chan, late>>

\* The process is gone and its pipe with it.  The call's own entry leaves the
\* map with the others; nobody reads its channel any more.
WriteFails(c) ==
    /\ phase[c] = "writing" /\ process[current] = "dead"
    /\ StopWorker
    /\ lock' = Nobody
    /\ Proceed(c, "done")
    /\ UNCHANGED <<started, at, late>>

\* The response is there.  A transport error sends the caller to stop the worker.
Take(c) ==
    /\ phase[c] = "waiting" /\ chan[c] # "empty"
    /\ Proceed(c, IF chan[c] = "transport" THEN "failed" ELSE "done")
    /\ UNCHANGED <<lock, workerVars, pipeVars, pending, at, chan, late>>

\* The timeout drops the channel, and removes the entry once it has the mutex.
Expire(c) ==
    /\ phase[c] = "waiting" /\ c \in Timed /\ chan[c] = "empty"
    /\ Proceed(c, "expired")
    /\ UNCHANGED <<lock, workerVars, pipeVars, pending, at, chan, late>>

CleanUp(c) ==
    /\ phase[c] = "expired" /\ lock = Nobody
    /\ pending' = [w \in Workers |-> IF w = current THEN pending[w] \ {c} ELSE pending[w]]
    /\ Proceed(c, "done")
    /\ UNCHANGED <<lock, workerVars, pipeVars, at, chan, late>>

\* After a transport error: whichever worker is current is stopped.
StopAfterFailure(c) ==
    /\ phase[c] = "failed" /\ lock = Nobody
    /\ StopWorker
    /\ Proceed(c, "done")
    /\ UNCHANGED <<lock, started, at, late>>

-----------------------------------------------------------------------------
(* The worker process and its reader task.                                 *)

\* WorkerDispatch answers every request, in any order.
WorkerAnswers(w) ==
    /\ process[w] = "alive" /\ reader[w] # "finished"
    /\ \E c \in requests[w] :
         /\ requests' = [requests EXCEPT ![w] = @ \ {c}]
         /\ output' = [output EXCEPT ![w] = @ \cup {c}]
    /\ UNCHANGED <<lock, workerVars, pending, phase, at, chan, late>>

Crash(w) ==
    /\ process[w] = "alive"
    /\ process' = [process EXCEPT ![w] = "dead"]
    /\ requests' = [requests EXCEPT ![w] = {}]
    /\ UNCHANGED <<lock, current, started, reader, output, pending, phase, at, chan, late>>

\* reader_loop routes a response by its id; without an entry it is discarded.
\* One of another protocol version is a transport error for its caller.
Deliver(w) ==
    /\ reader[w] = "reading"
    /\ \E c \in output[w] :
         /\ output' = [output EXCEPT ![w] = @ \ {c}]
         /\ pending' = [pending EXCEPT ![w] = @ \ {c}]
         /\ IF c \in pending[w]
            THEN \E r \in {"answer", "transport"} :
                   /\ chan' = [chan EXCEPT ![c] = r]
            ELSE UNCHANGED <<chan, late>>
    /\ UNCHANGED <<lock, workerVars, requests, phase, at, late>>

\* Mutant: the reader stops without telling the callers in its map.
ReaderStopsSilently(w) ==
    /\ reader[w] = "reading"
    /\ reader' = [reader EXCEPT ![w] = "drained"]
    /\ UNCHANGED <<lock, current, started, process, pipeVars, pending, phase, at, chan, late>>

\* End of output, or a frame that is too long, malformed or of another version.
ReaderStops(w) ==
    /\ reader[w] = "reading"
    /\ reader' = [reader EXCEPT ![w] = "drained"]
    /\ Drain(w)
    /\ pending' = [pending EXCEPT ![w] = {}]
    /\ UNCHANGED <<lock, current, started, process, pipeVars, phase, at, late>>

ReaderFinishes(w) ==
    /\ reader[w] = "drained"
    /\ reader' = [reader EXCEPT ![w] = "finished"]
    /\ output' = [output EXCEPT ![w] = {}]
    /\ UNCHANGED <<lock, current, started, process, requests, pending, phase, at, chan, late>>

Start(c) == Register(c) \/ SpawnFails(c)
Respond(c) == Take(c) \/ CleanUp(c) \/ StopAfterFailure(c)
EndOfOutput(w) == process[w] = "dead" /\ ReaderStops(w)

\* Every call has returned or waits; whether a wait ends is a liveness property.
NothingLeft ==
    /\ \A c \in Calls : phase[c] = "done" \/ (phase[c] = "waiting" /\ chan[c] = "empty")
    /\ UNCHANGED bridgeVars

BridgeNext ==
    \/ \E c \in Calls : Call(c) \/ Start(c) \/ WriteRequest(c) \/ WriteFails(c) \/ Expire(c) \/ Respond(c)
    \/ \E w \in Workers :
         WorkerAnswers(w) \/ Crash(w) \/ Deliver(w) \/ ReaderStops(w) \/ ReaderFinishes(w)
    \/ NothingLeft

BridgeSpec == BridgeInit /\ [][BridgeNext]_bridgeVars

\* Tasks keep running, the mutex is granted in order, the worker answers every
\* request it has read (WorkerDispatch!AllAnswered), the end of a worker's
\* output is noticed and a timer rings.  A call is made once, so the mutex is
\* free for good after finitely many steps and weak fairness is enough for it.
BridgeFairness ==
    /\ \A c \in Calls : /\ WF_bridgeVars(Start(c)) /\ WF_bridgeVars(WriteRequest(c) \/ WriteFails(c))
                        /\ WF_bridgeVars(Respond(c)) /\ WF_bridgeVars(Expire(c))
    /\ \A w \in Workers : /\ WF_bridgeVars(WorkerAnswers(w)) /\ WF_bridgeVars(Deliver(w))
                          /\ WF_bridgeVars(EndOfOutput(w)) /\ WF_bridgeVars(ReaderFinishes(w))

BridgeFairSpec == BridgeSpec /\ BridgeFairness

-----------------------------------------------------------------------------
(* Properties.                                                             *)

\* At most one worker process is alive, and it is the current one: a second
\* one would have a source gate and run ids of its own (kill_on_drop,
\* stop_worker and ensure_worker_running under the mutex).
OneProcess == \A w \in Workers : process[w] = "alive" => w = current

\* A pending map holds no channel whose caller has returned, and that of a
\* worker that was given up holds none at all (the removals on timeout, on a
\* failed write and in drain_pending).
NoLeftoverChannel ==
    \A w \in Workers : \A c \in pending[w] :
        w = current /\ at[c] = w /\ phase[c] \in {"writing", "waiting", "expired"}

\* The call was entered in the map after the reader had emptied it.
Stranded(c) == phase[c] = "waiting" /\ chan[c] = "empty" /\ at[c] = current /\ c \in late

\* No call hangs: it returns, or it was entered in the map too late and waits for
\* the next call.
CallsReturn ==
    \A c \in Calls : phase[c] = "waiting" ~> phase[c] = "done" \/ Stranded(c)

\* Once the reader task has finished, the next call ends such a wait (for a run
\* that hangs this is the user's Stop).
NextCallRescues ==
    \A c, d \in Calls :
        Stranded(c) /\ Useless(current) /\ phase[d] = "locking" ~> phase[c] = "done"

\* No call hangs for good: what CallsReturn leaves open the next call ends.
NoCallHangs == CallsReturn /\ NextCallRescues

=============================================================================
