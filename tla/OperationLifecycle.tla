-------------------------- MODULE OperationLifecycle --------------------------
(***************************************************************************)
(* Destructive message operations as the desktop interface sees them       *)
(* (src/hooks/useScript.ts, src/store/operationSlice.ts, the event log of  *)
(* src/store/appStore.ts and src/store/operationJournal.ts).               *)
(*                                                                         *)
(* runOperation checks that nothing conflicts, takes the run's lock,       *)
(* registers its listeners and invokes the bridge.  The command response   *)
(* and a completion event both carry the terminal result; the first to     *)
(* arrive ends the run and releases the lock, either may be lost.  A       *)
(* watchdog turns silence into "unknown", and so does a rejected Stop.     *)
(* The event log is cut at its capacity, saved at every change and read    *)
(* back at start-up, as far as saving worked and the entries are recent.   *)
(*                                                                         *)
(* The bridge and the worker (run_worker_operation) are reduced to their   *)
(* terminal result.  pendingMessageOperations is not a variable: a         *)
(* component sets and clears it around runOperation, so it never names a   *)
(* message without an active run.                                          *)
(***************************************************************************)
EXTENDS Sequences, SequencesExt, Integers

CONSTANTS
    Runs,       \* ids of destructive operations
    Scope,      \* "bulk" or "atomic"
    Conn,       \* the connection of each run
    Message,    \* the message an atomic run acts on
    Others,     \* ids of other logged operations
    OtherKind,  \* "Browse", or "Create" for entity management and sends
    MaxLog,     \* JOURNAL_MAX_ENTRIES
    MaxStops, MaxRestarts, MaxFailures, \* bounds of the model
    None

ASSUME LifecycleAssumption ==
    /\ Scope \in [Runs -> {"bulk", "atomic"}]
    /\ DOMAIN Conn = Runs /\ DOMAIN Message = Runs
    /\ OtherKind \in [Others -> {"Browse", "Create"}]
    /\ Runs \cap Others = {} /\ None \notin Runs \cup {Conn[r] : r \in Runs}
    /\ None \notin {"running", "stopRequested", "unknown", "success", "stopped", "error", "rejected"}
    /\ MaxLog \in Nat \ {0} /\ MaxStops \in Nat /\ MaxRestarts \in Nat /\ MaxFailures \in Nat

VARIABLES
    active,     \* activeOperationRuns: the phase of each run, None without one
    bulk,       \* isRunning and runId: the bulk run in progress
    log,        \* eventLog, newest entry first
    saved,      \* the journal: the event log as it was last saved
    failures,   \* saves that failed since the last one that worked, or the start
    forgotten,  \* history: runs whose entry was pushed out or not read back
    stage,      \* where runOperation is for each run
    stops,      \* stop_current_operation calls in flight
    backend,    \* the command in the bridge and the worker
    outcome,    \* the terminal result the bridge reports
    reply, event, \* its two messages to the interface
    other,      \* where the other operations are
    restarts,   \* restarts so far
    unreviewed  \* history: runs that ended unknown, not reviewed by the user

logVars == <<log, saved, failures, forgotten>>
bridgeVars == <<backend, outcome, reply, event>>
vars == <<active, bulk, logVars, stage, stops, backend, outcome, reply, event, other, restarts,
          unreviewed>>

Phases == {"running", "stopRequested", "unknown"}
Results == {"success", "stopped", "error", "unknown"}
Statuses == Results \cup {"running"}
Entries == [id : Runs \cup Others, status : Statuses, conn : {Conn[r] : r \in Runs} \cup {None},
            reviewed : BOOLEAN]

TypeOK ==
    /\ active \in [Runs -> Phases \cup {None}]
    /\ bulk \in Runs \cup {None}
    /\ log \in Seq(Entries) /\ Len(log) <= MaxLog
    /\ saved \in Seq(Entries) /\ Len(saved) <= MaxLog
    /\ failures \in 0..MaxFailures
    /\ forgotten \subseteq Runs
    /\ stage \in [Runs -> {"idle", "registering", "waiting", "ended", "lost"}]
    /\ stops \in [Runs -> 0..MaxStops]
    /\ backend \in [Runs -> {"none", "called", "done"}]
    /\ outcome \in [Runs -> Results \cup {"rejected", None}]
    /\ reply \in [Runs -> {"none", "sent", "taken", "lost"}]
    /\ event \in [Runs -> {"none", "sent", "taken", "lost"}]
    /\ other \in [Others -> {"idle", "busy", "ended"}]
    /\ restarts \in 0..MaxRestarts
    /\ unreviewed \subseteq Runs

Init ==
    /\ active = [r \in Runs |-> None]
    /\ bulk = None
    /\ log = <<>> /\ saved = <<>> /\ failures = 0 /\ forgotten = {}
    /\ stage = [r \in Runs |-> "idle"]
    /\ stops = [r \in Runs |-> 0]
    /\ backend = [r \in Runs |-> "none"]
    /\ outcome = [r \in Runs |-> None]
    /\ reply = [r \in Runs |-> "none"]
    /\ event = [r \in Runs |-> "none"]
    /\ other = [o \in Others |-> "idle"]
    /\ restarts = 0
    /\ unreviewed = {}

-----------------------------------------------------------------------------
(* The event log.                                                          *)

\* addEventLogEntry: the newest entry first; the oldest beyond the cap are gone.
Push(entries, id) ==
    LET new == [id |-> id, status |-> "running", conn |-> None, reviewed |-> FALSE]
        all == <<new>> \o entries
    IN  SubSeq(all, 1, IF Len(all) > MaxLog THEN MaxLog ELSE Len(all))

\* updateEventLogEntry and recordOperationScope: nothing happens without the entry.
Update(entries, id, status) ==
    [i \in DOMAIN entries |-> IF entries[i].id = id THEN [entries[i] EXCEPT !.status = status]
                                                   ELSE entries[i]]
SetConn(entries, id, conn) ==
    [i \in DOMAIN entries |-> IF entries[i].id = id THEN [entries[i] EXCEPT !.conn = conn]
                                                   ELSE entries[i]]

Unresolved(entry) == entry.status = "unknown" /\ ~entry.reviewed

\* loadOperationJournal: what start-up makes of the saved entries.
Interrupted(entry) ==
    IF entry.status # "running" THEN entry
    ELSE [entry EXCEPT !.status =
            IF entry.id \in Others /\ OtherKind[entry.id] = "Browse" THEN "error" ELSE "unknown"]

Logged(entries, r) == \E e \in ToSet(entries) : e.id = r

\* The log changes, and the subscriber saves it.  A save fails when the text is
\* too long or the storage refuses it: then an earlier text stays, the last one
\* or one of those in "between", which the log goes through in the same step.
\* A log that does not change is not saved.  Bounds: MaxFailures failures in a
\* row, and none after the last restart, when nobody will read what is saved.
Store(new, between) ==
    /\ log' = new
    /\ IF new = log THEN UNCHANGED <<saved, failures>>
       ELSE \/ saved' = new /\ failures' = 0
            \/ /\ failures < MaxFailures /\ restarts < MaxRestarts
               /\ failures' = failures + 1
               /\ saved' \in {saved} \cup between

\* The runs whose entries a new log no longer has.
Forget(new) ==
    forgotten' = {r \in Runs : (r \in forgotten \/ Logged(log, r)) /\ ~Logged(new, r)}

\* An entry changes.
Log(new) == Store(new, {}) /\ UNCHANGED forgotten

-----------------------------------------------------------------------------
(* runOperation.                                                           *)

IsActive(r) == active[r] # None

\* The guards; "entries" is the log, in which the run is already entered.
Conflict(r, entries) ==
    \/ \E o \in Runs : active[o] = "unknown"
    \/ \E e \in ToSet(entries) : Unresolved(e) /\ e.conn \in {None, Conn[r]}
    \/ bulk # None
    \/ Scope[r] = "bulk" /\ \E o \in Runs : IsActive(o)
    \/ Scope[r] = "atomic" /\ \E o \in Runs :
         /\ IsActive(o) /\ Scope[o] = "atomic"
         /\ Conn[o] = Conn[r] /\ Message[o] = Message[r]

\* The component logs the run and calls runOperation, which throws on a
\* conflict and else takes the lock; no await comes between check and lock.
Begin(r) ==
    /\ stage[r] = "idle"
    /\ Forget(Push(log, r))
    /\ IF Conflict(r, Push(log, r))
       THEN /\ Store(Update(Push(log, r), r, "error"), {Push(log, r)})
            /\ stage' = [stage EXCEPT ![r] = "ended"]
            /\ UNCHANGED <<active, bulk>>
       ELSE /\ active' = [active EXCEPT ![r] = "running"]
            /\ bulk' = IF Scope[r] = "bulk" THEN r ELSE bulk
            /\ Store(SetConn(Push(log, r), r, Conn[r]), {Push(log, r)})
            /\ stage' = [stage EXCEPT ![r] = "registering"]
    /\ UNCHANGED <<stops, bridgeVars, other, restarts, unreviewed>>

\* The end of runOperation and of the component's continuation: the result is
\* logged, the lock released.  No other event interleaves: both are
\* continuations of one promise.
Complete(r, result) ==
    /\ Log(Update(log, r, result))
    /\ active' = [active EXCEPT ![r] = None]
    /\ bulk' = IF bulk = r THEN None ELSE bulk
    /\ stage' = [stage EXCEPT ![r] = "ended"]
    /\ unreviewed' = IF result = "unknown" THEN unreviewed \cup {r} ELSE unreviewed

\* A listener could not be registered: nothing was dispatched.
RegisterFails(r) ==
    /\ stage[r] = "registering"
    /\ Complete(r, "error")
    /\ UNCHANGED <<stops, bridgeVars, other, restarts>>

Invoke(r) ==
    /\ stage[r] = "registering"
    /\ stage' = [stage EXCEPT ![r] = "waiting"]
    /\ backend' = [backend EXCEPT ![r] = "called"]
    /\ UNCHANGED <<active, bulk, logVars, stops, outcome, reply, event, other, restarts,
                   unreviewed>>

\* Mutant: a rejected command, or one without an outcome, counts as stopped.
SettleWithoutError(r) ==
    IF stage[r] = "waiting"
    THEN Complete(r, IF outcome[r] = "rejected" THEN "stopped" ELSE outcome[r])
    ELSE UNCHANGED <<logVars, active, bulk, stage, unreviewed>>

\* The first terminal message ends the run; the second finds it settled.  A
\* rejected command did not reach the worker.
Settle(r) ==
    IF stage[r] = "waiting"
    THEN Complete(r, IF outcome[r] = "rejected" THEN "error" ELSE outcome[r])
    ELSE UNCHANGED <<logVars, active, bulk, stage, unreviewed>>

\* Mutant: the completion event is not a terminal acknowledgment.
TakeEventIgnored(r) ==
    /\ event[r] = "sent" /\ stage[r] # "lost"
    /\ event' = [event EXCEPT ![r] = "taken"]
    /\ UNCHANGED <<logVars, active, bulk, stage, unreviewed>>
    /\ UNCHANGED <<stops, backend, outcome, reply, other, restarts>>

\* After a restart nobody takes the messages of an earlier run.
TakeReply(r) ==
    /\ reply[r] = "sent" /\ stage[r] # "lost"
    /\ reply' = [reply EXCEPT ![r] = "taken"]
    /\ Settle(r)
    /\ UNCHANGED <<stops, backend, outcome, event, other, restarts>>

TakeEvent(r) ==
    /\ event[r] = "sent" /\ stage[r] # "lost"
    /\ event' = [event EXCEPT ![r] = "taken"]
    /\ Settle(r)
    /\ UNCHANGED <<stops, backend, outcome, reply, other, restarts>>

\* 90 seconds without an update.
Watchdog(r) ==
    /\ stage[r] = "waiting" /\ active[r] # "unknown"
    /\ active' = [active EXCEPT ![r] = "unknown"]
    /\ UNCHANGED <<bulk, logVars, stage, stops, bridgeVars, other, restarts, unreviewed>>

\* stop(): a second click is ignored while a Stop is requested.
Stop(r) ==
    /\ active[r] \in {"running", "unknown"} /\ stops[r] < MaxStops
    /\ active' = [active EXCEPT ![r] = "stopRequested"]
    /\ stops' = [stops EXCEPT ![r] = @ + 1]
    /\ UNCHANGED <<bulk, logVars, stage, bridgeVars, other, restarts, unreviewed>>

\* Mutant: an acknowledged Stop releases the lock.
StopAcknowledgedReleases(r) ==
    /\ stops[r] > 0
    /\ stops' = [stops EXCEPT ![r] = @ - 1]
    /\ active' = [active EXCEPT ![r] = None]
    /\ bulk' = IF bulk = r THEN None ELSE bulk
    /\ UNCHANGED <<logVars, stage, bridgeVars, other, restarts, unreviewed>>

StopAcknowledged(r) ==
    /\ stops[r] > 0
    /\ stops' = [stops EXCEPT ![r] = @ - 1]
    /\ UNCHANGED <<active, bulk, logVars, stage, bridgeVars, other, restarts, unreviewed>>

\* A rejected Stop matters only while the run is still active.
StopRejected(r) ==
    /\ stops[r] > 0
    /\ stops' = [stops EXCEPT ![r] = @ - 1]
    /\ IF IsActive(r)
       THEN /\ active' = [active EXCEPT ![r] = "unknown"]
       ELSE UNCHANGED active
    /\ UNCHANGED <<bulk, logVars, stage, bridgeVars, other, restarts, unreviewed>>

-----------------------------------------------------------------------------
(* The bridge: run_worker_operation.                                       *)

\* The connection could not be resolved: only the response says so.
Reject(r) ==
    /\ backend[r] = "called"
    /\ backend' = [backend EXCEPT ![r] = "done"]
    /\ outcome' = [outcome EXCEPT ![r] = "rejected"]
    /\ reply' = [reply EXCEPT ![r] = "sent"]
    /\ UNCHANGED <<active, bulk, logVars, stage, stops, event, other, restarts, unreviewed>>

\* The worker answered, or its transport failed (reported as unknown).
WorkerEnds(r) ==
    /\ backend[r] = "called"
    /\ backend' = [backend EXCEPT ![r] = "done"]
    /\ \E o \in Results : outcome' = [outcome EXCEPT ![r] = o]
    /\ reply' = [reply EXCEPT ![r] = "sent"]
    /\ event' = [event EXCEPT ![r] = "sent"]
    /\ UNCHANGED <<active, bulk, logVars, stage, stops, other, restarts, unreviewed>>

\* Losing a message that no run waits for is no different from taking it.
LoseReply(r) ==
    /\ reply[r] = "sent" /\ stage[r] = "waiting"
    /\ reply' = [reply EXCEPT ![r] = "lost"]
    /\ UNCHANGED <<active, bulk, logVars, stage, stops, backend, outcome, event, other, restarts,
                   unreviewed>>

LoseEvent(r) ==
    /\ event[r] = "sent" /\ stage[r] = "waiting"
    /\ event' = [event EXCEPT ![r] = "lost"]
    /\ UNCHANGED <<active, bulk, logVars, stage, stops, backend, outcome, reply, other, restarts,
                   unreviewed>>

-----------------------------------------------------------------------------
(* The user, other operations and restarts.                                *)

\* "I checked the broker".
Reconcile ==
    /\ \E i \in DOMAIN log :
         /\ Unresolved(log[i])
         /\ Log([log EXCEPT ![i].reviewed = TRUE])
         /\ unreviewed' = unreviewed \ {log[i].id}
    /\ UNCHANGED <<active, bulk, stage, stops, bridgeVars, other, restarts>>

\* Mutant: clearing the log does not look for unreviewed entries.
ClearLogUnreviewed ==
    /\ log # <<>> /\ bulk = None
    /\ \A e \in ToSet(log) : e.status # "running"
    /\ Log(<<>>)
    /\ UNCHANGED <<active, bulk, stage, stops, bridgeVars, other, restarts, unreviewed>>

ClearLog ==
    /\ log # <<>> /\ bulk = None
    /\ \A e \in ToSet(log) : e.status # "running" /\ ~Unresolved(e)
    /\ Log(<<>>)
    /\ UNCHANGED <<active, bulk, stage, stops, bridgeVars, other, restarts, unreviewed>>

OtherBegins(o) ==
    /\ other[o] = "idle"
    /\ other' = [other EXCEPT ![o] = "busy"]
    /\ Forget(Push(log, o)) /\ Store(Push(log, o), {})
    /\ UNCHANGED <<active, bulk, stage, stops, bridgeVars, restarts, unreviewed>>

\* A failure instead of success changes nothing that is modelled.
OtherEnds(o) ==
    /\ other[o] = "busy"
    /\ other' = [other EXCEPT ![o] = "ended"]
    /\ Log(Update(log, o, "success"))
    /\ UNCHANGED <<active, bulk, stage, stops, bridgeVars, restarts, unreviewed>>

\* The interface starts anew from the saved journal; a command in progress goes
\* on in the bridge, unobserved, or dies with it.  The first n entries are read
\* back: the older ones are past their 30 days, and of a journal that cannot be
\* read there is none.
Restart ==
    /\ restarts < MaxRestarts
    /\ restarts' = restarts + 1
    /\ \E n \in 0..Len(saved) :
         /\ log' = [i \in 1..n |-> Interrupted(saved[i])]
         /\ Forget(SubSeq(saved, 1, n))
    /\ active' = [r \in Runs |-> None]
    /\ bulk' = None
    /\ stage' = [r \in Runs |-> IF IsActive(r) THEN "lost" ELSE stage[r]]
    /\ stops' = [r \in Runs |-> 0]
    /\ other' = [o \in Others |-> IF other[o] = "busy" THEN "ended" ELSE other[o]]
    /\ unreviewed' = unreviewed \cup {r \in Runs : stage[r] = "waiting"}
    /\ failures' = 0
    /\ UNCHANGED <<saved, bridgeVars>>

Bridge(r) == Reject(r) \/ WorkerEnds(r)

\* Every terminal message there was is lost; a rejected command sends no event.
Unheard(r) == reply[r] = "lost" /\ event[r] \in {"lost", "none"}

\* Nothing is left to happen: every operation has ended, or both of its terminal
\* messages are lost and it stays locked until a restart (docs/operations.md:43).
Terminated ==
    /\ \A r \in Runs : stage[r] \in {"ended", "lost"} \/ Unheard(r)
    /\ UNCHANGED vars

Next ==
    \/ \E r \in Runs :
         \/ Begin(r) \/ RegisterFails(r) \/ Invoke(r) \/ TakeReply(r) \/ TakeEvent(r)
         \/ Watchdog(r) \/ Stop(r) \/ StopAcknowledged(r) \/ StopRejected(r)
         \/ Bridge(r) \/ LoseReply(r) \/ LoseEvent(r)
    \/ Reconcile \/ ClearLog \/ Restart
    \/ \E o \in Others : OtherBegins(o) \/ OtherEnds(o)
    \/ Terminated

Spec == Init /\ [][Next]_vars

\* The worker answers every run (WorkerDispatch!AllAnswered), the bridge passes
\* the answer on, and a message that is not lost is delivered.
FairSpec ==
    /\ Spec
    /\ \A r \in Runs : /\ WF_vars(Bridge(r))
                       /\ WF_vars(RegisterFails(r) \/ Invoke(r))
                       /\ WF_vars(TakeReply(r) \/ LoseReply(r))
                       /\ WF_vars(TakeEvent(r) \/ LoseEvent(r))

-----------------------------------------------------------------------------
(* Properties.                                                             *)

Starts(r) == active[r] = None /\ active'[r] # None

\* A bulk operation has the interface to itself, and no two operations act on
\* one message (the guards of runOperation, kept by every later step: Stop, the
\* watchdog and late messages of earlier runs).
Exclusive ==
    \A r, o \in Runs : r # o /\ IsActive(r) /\ IsActive(o) =>
        /\ Scope[r] = "atomic" /\ Scope[o] = "atomic"
        /\ Conn[r] = Conn[o] => Message[r] # Message[o]

\* The lock is released only by a terminal result: while the command is at work
\* and the interface has not restarted, the run stays active, whatever Stop, the
\* watchdog and lost messages do ("The interface stays locked until a terminal
\* response or event arrives", docs/operations.md:14).
LockedUntilTerminal ==
    \A r \in Runs : backend[r] = "called" /\ stage[r] # "lost" => IsActive(r)

\* What is under way is locked, and excludes what conflicts with it.
LockHolds == Exclusive /\ LockedUntilTerminal

\* The log is honest: a definite status is the one the bridge reported, or
\* "error" for a run that never reached the worker.
HonestLog ==
    \A e \in ToSet(log) : e.id \in Runs =>
        /\ e.status \in {"success", "stopped"} => outcome[e.id] = e.status
        /\ e.status = "error" => outcome[e.id] \in {"error", "rejected", None}
                                 /\ backend[e.id] # "called"

\* Until the user has reviewed an operation that ended with an unknown outcome,
\* or was interrupted, no destructive operation starts on its connection, except
\* when its entry is gone from the log: pushed out at 500 entries, by the new
\* operation's own entry even (appStore.ts:611), or not read back at start-up
\* (operationJournal.ts).  Failed saves, clearing the log, Stop, late messages
\* and further restarts never lift the block otherwise.
UnknownBlocks ==
    [][\A r \in Runs : Starts(r) =>
          \A o \in unreviewed \ forgotten' : Conn[o] # Conn[r]]_vars

\* One of the two terminal messages is enough to end the run ("Command response
\* and event are independent terminal acknowledgments", useScript.ts:95): a run
\* that waits ends unless every message there was has been lost.  A run waits
\* only once, so it is enough that again and again no other run waits.
EitherMessageEndsRun ==
    []<>(\A r \in Runs : stage[r] = "waiting" => Unheard(r))

=============================================================================
