--------------------------- MODULE SingleMessage ---------------------------
(***************************************************************************)
(* One singleMessageAction run (src-tauri/worker-go/handlers_single.go):   *)
(* delete, move or replay one message the user picked in a browsed list.   *)
(* The broker cannot receive an active message by its sequence number, so  *)
(* the handler receives whatever comes first, holds the locks of the       *)
(* messages that are not the target until the target was acted on, and     *)
(* gives them back at the end.  A second goroutine, the held-message lock  *)
(* renewer, renews those locks meanwhile; a third party, the user, may     *)
(* press Stop, and other receivers of the entity take and return messages. *)
(*                                                                         *)
(* A receipt is a received message object: the number of the receipt is    *)
(* its place in the order of the scan, and a message whose lock ran out    *)
(* may be received again under a new receipt.                              *)
(***************************************************************************)
EXTENDS Integers, Sequences, FiniteSets, OperationOutcome

CONSTANTS
    Target,      \* the message with the sequence number of the request
    Others,      \* the other messages of the source
    ScanBudget,  \* messages received before the scan gives up
    BatchSize,   \* messages asked for while the target is not known to exist
    IdleRetries  \* empty receives tolerated for a target known to exist

ASSUME ScanAssumption ==
    /\ Target \notin Others
    /\ IsFiniteSet(Others)
    /\ ScanBudget \in Nat \ {0}
    /\ BatchSize \in 1..ScanBudget
    /\ IdleRetries \in Nat

Messages == Others \cup {Target}
Receipts == 1..ScanBudget
NoReceipt == 0

\* The source label the tracker records under; one run acts on one subqueue.
Mode == "normal"

VARIABLES
    req,         \* the request: what to do, and whether the message under the
                 \* sequence number still is the one the user saw
    stopped,     \* requestCtx was cancelled by a Stop
    phase,       \* where the handler's goroutine stands
    known,       \* the peek found the target
    idle,        \* consecutive empty receives
    received,    \* the messages received so far, in order: receipt -> message
    held,        \* receipts the cleanup will give back
    target,      \* the receipt being acted on
    recvErr,     \* the last receive returned an error beside its messages
    err,         \* the causes joined into the error the handler returns
    tracker,     \* the run's operationTracker
    rstate,      \* the renewer's goroutine
    round,       \* receipts of its snapshot still to renew
    renewing,    \* the receipt it is renewing
    registered,  \* the receipts it must keep locked
    rerr,        \* it recorded a failed renewal
    rcancelled,  \* its context, the context of the target's action, is cancelled
    session,     \* the session lock renewer
    place,       \* where each message is at the broker
    holder,      \* the receipt its lock belongs to, when it is ours
    credit,      \* receive credit the link still has at the broker
    wire,        \* requests the broker may still carry out
    delivered    \* copies the destination accepted

request   == <<req>>
scanVars  == <<known, idle, received, recvErr>>
renewVars == <<rstate, round, renewing, registered, rerr, rcancelled>>
srcVars   == <<place, holder, credit>>
wireVars  == <<wire, delivered>>
handlerVars == <<phase, held, target, err, tracker>>
vars == <<request, stopped, handlerVars, scanVars, renewVars, session, srcVars, wireVars>>

Requests == [transfer : BOOLEAN, session : BOOLEAN, matches : BOOLEAN,
             deferred : BOOLEAN]

Phases == {"peek", "accept", "deferred", "head", "receiving", "received",
           "acting", "sending", "settle", "completing", "giveBack",
           "acted", "unregistering", "cleanup", "stopping", "releasing",
           "finishing", "ended"}

\* Outcomes of an errors.Is question on the error: a cause that wraps
\* context.Canceled, or any other.
Causes == {"cancelled", "failed"}

Places == {"free", "ours", "stray", "other", "deferred", "scheduled", "gone"}

\* Where a message of the source goes when nobody holds its lock.
Home(m) == IF m = Target /\ req.deferred THEN "deferred" ELSE "free"

\* A receipt still owns the lock of its message.
Valid(n) == place[received[n]] = "ours" /\ holder[received[n]] = n

\* The causes an aborted call may return: the broker's or a timeout's, and
\* the cancellation of the context it ran under.
CallCauses == {"failed"} \cup (IF rcancelled THEN {"cancelled"} ELSE {})

----------------------------------------------------------------------------
Init ==
    /\ req \in Requests
    /\ stopped = FALSE
    /\ phase = "peek"
    /\ known = FALSE
    /\ idle = 0
    /\ received = <<>>
    /\ held = {}
    /\ target = NoReceipt
    /\ recvErr = FALSE
    /\ err = {}
    /\ tracker = NewTracker
    /\ rstate = "off"
    /\ round = {}
    /\ renewing = NoReceipt
    /\ registered = {}
    /\ rerr = FALSE
    /\ rcancelled = FALSE
    /\ session = "off"
    /\ \E p \in IF req.deferred THEN {"deferred"} ELSE {"free", "other", "scheduled", "gone"} :
           place = [m \in Messages |-> IF m = Target THEN p ELSE "free"]
    /\ holder = [m \in Messages |-> NoReceipt]
    /\ credit = 0
    /\ wire = {}
    /\ delivered = 0

\* The handler returns through its deferred cleanup with one more cause.
FailTo(p, cause) ==
    /\ err' = err \cup {cause}
    /\ phase' = p

----------------------------------------------------------------------------
(* Resolving the target.                                                   *)

\* The peek fails (an outage, or the Stop that cancelled its context): the
\* handler goes on without knowing whether the target exists.
PeekFails ==
    /\ phase = "peek"
    /\ phase' = IF req.session THEN "accept" ELSE "head"
    /\ UNCHANGED <<request, stopped, held, target, err, tracker, scanVars,
                   renewVars, session, srcVars, wireVars>>

\* The peek finds the target: its identity is compared with what the user
\* saw, a deferred one is received directly, a scheduled one refused.
PeekFinds ==
    /\ phase = "peek"
    /\ place[Target] # "gone"
    /\ IF ~req.matches \/ place[Target] = "scheduled"
       THEN FailTo("finishing", "failed") /\ UNCHANGED known
       ELSE /\ known' = TRUE
            /\ phase' = CASE req.session -> "accept"
                          [] ~req.session /\ req.deferred -> "deferred"
                          [] OTHER -> "head"
            /\ UNCHANGED err
    /\ UNCHANGED <<request, stopped, held, target, tracker, idle, received, recvErr,
                   renewVars, session, srcVars, wireVars>>

PeekFindsNothing ==
    /\ phase = "peek"
    /\ place[Target] = "gone"
    /\ FailTo("finishing", "failed")
    /\ UNCHANGED <<request, stopped, held, target, tracker, scanVars, renewVars,
                   session, srcVars, wireVars>>

\* A target with a session is received through its session.
AcceptSession ==
    /\ phase = "accept"
    /\ ~stopped
    /\ session' = "on"
    /\ phase' = IF known /\ req.deferred THEN "deferred" ELSE "head"
    /\ UNCHANGED <<request, stopped, held, target, err, tracker, scanVars,
                   renewVars, srcVars, wireVars>>

AcceptFails ==
    /\ phase = "accept"
    /\ \E cause \in {"failed"} \cup (IF stopped THEN {"cancelled"} ELSE {}) :
           FailTo("finishing", cause)
    /\ UNCHANGED <<request, stopped, held, target, tracker, scanVars, renewVars,
                   session, srcVars, wireVars>>

\* receiveDeferredTarget: the target is received by its sequence number and
\* acted on under the run's own context.
ReceiveDeferred ==
    /\ phase = "deferred"
    /\ place[Target] = "deferred"
    /\ received' = <<Target>>
    /\ target' = 1
    /\ place' = [place EXCEPT ![Target] = "ours"]
    /\ holder' = [holder EXCEPT ![Target] = 1]
    /\ phase' = "acting"
    /\ UNCHANGED <<request, stopped, held, err, tracker, known, idle, recvErr,
                   renewVars, session, credit, wireVars>>

ReceiveDeferredFails ==
    /\ phase = "deferred"
    /\ \E cause \in {"failed"} \cup (IF stopped THEN {"cancelled"} ELSE {}) :
           FailTo("finishing", cause)
    /\ UNCHANGED <<request, stopped, held, target, tracker, scanVars, renewVars,
                   session, srcVars, wireVars>>

----------------------------------------------------------------------------
(* scanActiveSingleMessage.                                                *)

\* A lock the scan depends on is known to be lost.
LockLost == session = "failed" \/ rerr

\* The messages the next receive asks for: one at a time once the target is
\* known to exist, and never past the budget.
Fetch ==
    LET batch == IF known THEN 1 ELSE BatchSize
        left  == ScanBudget - Len(received)
    IN  IF batch > left THEN left ELSE batch

ScanHead ==
    /\ phase = "head"
    /\ IF Len(received) < ScanBudget /\ ~LockLost
       THEN phase' = "receiving" /\ UNCHANGED err
       ELSE FailTo("cleanup", "failed")
    /\ UNCHANGED <<request, stopped, held, target, tracker, scanVars, renewVars,
                   session, srcVars, wireVars>>

Strays == {m \in Messages : place[m] = "stray"}

\* What one receive may return: distinct messages, the ones the link already
\* caught on leftover credit among them, within the credit.
Batches ==
    {q \in UNION {[1..k -> Messages] : k \in 1..Fetch} :
        /\ \A i, j \in DOMAIN q : q[i] = q[j] => i = j
        /\ \A i \in DOMAIN q : place[q[i]] \in {"free", "stray"}
        /\ Cardinality({q[i] : i \in DOMAIN q} \cup Strays) =< Fetch}

\* A receive returns messages: they are held, and, outside a session,
\* registered with the renewer, which starts with the first of them.
ReceiveSome ==
    /\ phase = "receiving"
    /\ \E q \in Batches, e \in BOOLEAN :
        LET got == {q[i] : i \in DOMAIN q}
            new == Len(received) + 1 .. Len(received) + Len(q)
        IN  /\ received' = received \o q
            /\ held' = held \cup new
            /\ recvErr' = e
            /\ place' = [m \in Messages |-> IF m \in got THEN "ours" ELSE place[m]]
            /\ holder' = [m \in Messages |->
                            IF m \in got
                            THEN Len(received) + CHOOSE i \in DOMAIN q : q[i] = m
                            ELSE holder[m]]
            /\ credit' = Fetch - Cardinality(got \cup Strays)
            /\ IF req.session
               THEN UNCHANGED <<rstate, registered>>
               ELSE /\ registered' = registered \cup new
                    /\ rstate' = IF rstate = "off" THEN "waiting" ELSE rstate
    /\ idle' = 0
    /\ phase' = "received"
    /\ UNCHANGED <<request, stopped, target, err, tracker, known, round, renewing, rerr,
                   rcancelled, session, wireVars>>

\* Mutant: an empty receive is retried without counting.
RetryUncounted ==
    /\ phase = "receiving"
    /\ Strays = {}
    /\ credit' = Fetch
    /\ IF known /\ ~stopped
       THEN phase' = "head" /\ UNCHANGED <<idle, err>>
       ELSE FailTo("cleanup", IF stopped THEN "cancelled" ELSE "failed") /\ UNCHANGED idle
    /\ UNCHANGED <<request, stopped, held, target, tracker, known, received, recvErr, renewVars,
                   session, place, holder, wireVars>>

\* A receive returns nothing: a Stop ends the scan, so does a broker error;
\* after a timeout the scan retries for a target known to exist, a few times.
ReceiveNothing ==
    /\ phase = "receiving"
    /\ Strays = {}
    /\ credit' = Fetch
    /\ \/ /\ stopped
          /\ FailTo("cleanup", "cancelled")
          /\ UNCHANGED idle
       \/ /\ ~stopped
          /\ FailTo("cleanup", "failed")
          /\ UNCHANGED idle
       \/ /\ ~stopped
          /\ known /\ idle < IdleRetries
          /\ idle' = idle + 1
          /\ phase' = "head"
          /\ UNCHANGED err
    /\ UNCHANGED <<request, stopped, held, target, tracker, known, received, recvErr, renewVars,
                   session, place, holder, wireVars>>

\* The first held receipt of the target.
TargetReceipts == {n \in held : received[n] = Target}

\* After the messages are held and registered: a Stop, a lost lock, the
\* target, an error beside the messages, or the next step of the scan.
Inspect ==
    /\ phase = "received"
    /\ \/ /\ stopped
          /\ FailTo("cleanup", "cancelled")
          /\ UNCHANGED <<held, target>>
       \/ /\ ~stopped /\ LockLost
          /\ FailTo("cleanup", "failed")
          /\ UNCHANGED <<held, target>>
       \/ /\ ~stopped /\ ~LockLost
          /\ \E n \in TargetReceipts :
                /\ target' = n
                /\ held' = held \ {n}
          /\ phase' = "acting"
          /\ UNCHANGED err
       \/ /\ ~stopped /\ ~LockLost /\ TargetReceipts = {}
          /\ IF recvErr THEN FailTo("cleanup", "failed")
                        ELSE phase' = "head" /\ UNCHANGED err
          /\ UNCHANGED <<held, target>>
    /\ UNCHANGED <<request, stopped, tracker, scanVars, renewVars, session, srcVars, wireVars>>

----------------------------------------------------------------------------
(* performSingleMessageTargetAction.                                       *)

\* Mutant: trusts the comparison made when the message was peeked.
TrustsPeek == TRUE

\* Whether the received message still is the one the user picked.
TargetMatches == req.matches

\* The message is compared once more, a Stop that arrived before is obeyed,
\* and the removal (delete) or the send (move, replay) may begin.  A
\* cancelled action context refuses both.
BeginAction ==
    /\ phase = "acting"
    /\ \/ /\ ~TargetMatches
          /\ FailTo("giveBack", "failed")
          /\ UNCHANGED <<tracker, wire>>
       \/ /\ TargetMatches /\ stopped
          /\ FailTo("giveBack", "cancelled")
          /\ UNCHANGED <<tracker, wire>>
       \/ /\ TargetMatches /\ ~stopped /\ ~req.transfer
          /\ phase' = "settle"
          /\ UNCHANGED <<err, tracker, wire>>
       \/ /\ TargetMatches /\ ~stopped /\ req.transfer /\ rcancelled
          /\ FailTo("giveBack", "cancelled")
          /\ UNCHANGED <<tracker, wire>>
       \/ /\ TargetMatches /\ ~stopped /\ req.transfer /\ ~rcancelled
          /\ tracker' = Record(tracker, Mode, 0, 0, 1, 0)
          /\ wire' = wire \cup {"send"}
          /\ phase' = "sending"
          /\ UNCHANGED err
    /\ UNCHANGED <<request, stopped, held, target, scanVars, renewVars, session, srcVars,
                   delivered>>

\* SendMessage is acknowledged.
SendReturns ==
    /\ phase = "sending"
    /\ delivered = 1
    /\ tracker' = Record(tracker, Mode, 1, 0, -1, 0)
    /\ phase' = "settle"
    /\ UNCHANGED <<request, stopped, held, target, err, scanVars, renewVars, session, srcVars,
                   wireVars>>

\* Mutant: a send that may have been accepted no longer counts as open.
SendFailsForgotten ==
    /\ phase = "sending"
    /\ \E cause \in CallCauses : FailTo("giveBack", cause)
    /\ tracker' = Record(tracker, Mode, 0, 0, -1, 0)
    /\ UNCHANGED <<request, stopped, held, target, scanVars, renewVars, session, srcVars,
                   wireVars>>

\* SendMessage returns an error; the destination may have accepted the copy,
\* or may still.
SendFails ==
    /\ phase = "sending"
    /\ \E cause \in CallCauses : FailTo("giveBack", cause)
    /\ UNCHANGED <<request, stopped, held, target, tracker, scanVars, renewVars, session,
                   srcVars, wireVars>>

\* Mutant: a Stop that arrives while the send is under way ends the action.
StopEndsAction ==
    /\ phase = "settle"
    /\ IF rcancelled \/ stopped
       THEN FailTo("acted", "cancelled") /\ UNCHANGED <<tracker, wire>>
       ELSE /\ tracker' = Record(tracker, Mode, 0, 0, 0, 1)
            /\ wire' = wire \cup {"remove"}
            /\ phase' = "completing"
            /\ UNCHANGED err
    /\ UNCHANGED <<request, stopped, held, target, scanVars, renewVars, session, srcVars,
                   delivered>>

\* completeTarget: an action context cancelled by a failed renewal ends the
\* action before the removal; the target is not given back.
BeginComplete ==
    /\ phase = "settle"
    /\ IF rcancelled
       THEN FailTo("acted", "cancelled") /\ UNCHANGED <<tracker, wire>>
       ELSE /\ tracker' = Record(tracker, Mode, 0, 0, 0, 1)
            /\ wire' = wire \cup {"remove"}
            /\ phase' = "completing"
            /\ UNCHANGED err
    /\ UNCHANGED <<request, stopped, held, target, scanVars, renewVars, session, srcVars,
                   delivered>>

\* CompleteMessage is acknowledged: the broker removed the target.
CompleteReturns ==
    /\ phase = "completing"
    /\ "removed" \in wire
    /\ tracker' = Record(tracker, Mode, 0, 1, 0, -1)
    /\ phase' = "acted"
    /\ UNCHANGED <<request, stopped, held, target, err, scanVars, renewVars, session, srcVars,
                   wireVars>>

CompleteFails ==
    /\ phase = "completing"
    /\ \E cause \in CallCauses : FailTo("acted", cause)
    /\ UNCHANGED <<request, stopped, held, target, tracker, scanVars, renewVars, session,
                   srcVars, wireVars>>

\* The broker gives the lock of a receipt back; an expired receipt is refused.
Abandon(n) ==
    /\ Valid(n)
    /\ place' = [place EXCEPT ![received[n]] = Home(received[n])]
    /\ holder' = [holder EXCEPT ![received[n]] = NoReceipt]

\* failAndReleaseTarget: the target is abandoned under a context of its own.
GiveTargetBack ==
    /\ phase = "giveBack"
    /\ \/ Abandon(target) /\ UNCHANGED err
       \/ Abandon(target) /\ err' = err \cup {"failed"}
       \/ err' = err \cup {"failed"} /\ UNCHANGED <<place, holder>>
    /\ phase' = "acted"
    /\ UNCHANGED <<request, stopped, held, target, tracker, scanVars, renewVars, session,
                   credit, wireVars>>

----------------------------------------------------------------------------
(* The end of the scan.                                                    *)

\* The action returned.  A failed renewal known by now is joined to its
\* error; then the target is taken out of the renewer's list.
Unregister ==
    /\ phase = "acted"
    /\ IF rerr THEN err' = err \cup {"failed"} ELSE UNCHANGED err
    /\ registered' = registered \ {target}
    /\ phase' = IF rstate = "off" THEN "cleanup" ELSE "unregistering"
    /\ UNCHANGED <<request, stopped, held, target, tracker, scanVars, rstate, round, renewing,
                   rerr, rcancelled, session, srcVars, wireVars>>

\* unregister returns once no renewal of the target is under way.
Unregistered ==
    /\ phase = "unregistering"
    /\ renewing # target
    /\ phase' = "cleanup"
    /\ UNCHANGED <<request, stopped, held, target, err, tracker, scanVars, renewVars, session,
                   srcVars, wireVars>>

\* The deferred cleanup cancels the renewer, if one was started.
StopRenewer ==
    /\ phase = "cleanup"
    /\ rcancelled' = (rcancelled \/ rstate # "off")
    /\ phase' = IF rstate = "off" THEN "releasing" ELSE "stopping"
    /\ UNCHANGED <<request, stopped, held, target, err, tracker, scanVars, rstate, round,
                   renewing, registered, rerr, session, srcVars, wireVars>>

\* ... and waits for its goroutine to return.
RenewerStopped ==
    /\ phase = "stopping"
    /\ rstate = "stopped"
    /\ IF rerr THEN err' = err \cup {"failed"} ELSE UNCHANGED err
    /\ phase' = "releasing"
    /\ UNCHANGED <<request, stopped, held, target, tracker, scanVars, renewVars, session,
                   srcVars, wireVars>>

\* The receipts an abandon may take next: a session's are given back in the
\* order of receipt, one at a time, others by concurrent goroutines.
NextReleases ==
    {n \in held : req.session => \A k \in held : n =< k}

\* abandonHeldMessages: each held receipt is given back once, whatever the
\* others' calls returned.
ReleaseHeld ==
    /\ phase = "releasing"
    /\ \E n \in NextReleases :
        /\ held' = held \ {n}
        /\ \/ Abandon(n) /\ UNCHANGED err
           \/ Abandon(n) /\ err' = err \cup {"failed"}
           \/ err' = err \cup {"failed"} /\ UNCHANGED <<place, holder>>
    /\ UNCHANGED <<request, stopped, phase, target, tracker, scanVars, renewVars, session,
                   credit, wireVars>>

\* Mutant: leaves the messages held when the action failed.
ReleasedOrFailed ==
    /\ phase = "releasing"
    /\ held = {} \/ target # NoReceipt
    /\ phase' = "finishing"
    /\ UNCHANGED <<request, stopped, held, target, err, tracker, scanVars, renewVars, session,
                   srcVars, wireVars>>

Released ==
    /\ phase = "releasing"
    /\ held = {}
    /\ phase' = "finishing"
    /\ UNCHANGED <<request, stopped, held, target, err, tracker, scanVars, renewVars, session,
                   srcVars, wireVars>>

\* The session renewer is stopped, its error joined, and the handler returns.
HandlerReturns ==
    /\ phase = "finishing"
    /\ IF session = "failed" THEN err' = err \cup {"failed"} ELSE UNCHANGED err
    /\ session' = "off"
    /\ phase' = "ended"
    /\ UNCHANGED <<request, stopped, held, target, tracker, scanVars, renewVars, srcVars,
                   wireVars>>

----------------------------------------------------------------------------
(* heldMessageLockRenewer.                                                 *)

\* The ticker fires: the renewer takes a snapshot of its list.
Tick ==
    /\ rstate = "waiting"
    /\ round' = registered
    /\ rstate' = "round"
    /\ UNCHANGED <<request, stopped, handlerVars, scanVars, renewing, registered, rerr,
                   rcancelled, session, srcVars, wireVars>>

\* The next receipt of the snapshot: skipped when it left the list meanwhile.
RenewNext ==
    /\ rstate = "round"
    /\ IF round = {}
       THEN rstate' = "waiting" /\ UNCHANGED <<round, renewing>>
       ELSE \E n \in round :
              /\ \A k \in round : n =< k
              /\ round' = round \ {n}
              /\ IF n \in registered THEN renewing' = n /\ rstate' = "renewing"
                                     ELSE UNCHANGED <<renewing, rstate>>
    /\ UNCHANGED <<request, stopped, handlerVars, scanVars, registered, rerr, rcancelled,
                   session, srcVars, wireVars>>

RenewReturns ==
    /\ rstate = "renewing"
    /\ renewing' = NoReceipt
    /\ rstate' = "round"
    /\ UNCHANGED <<request, stopped, handlerVars, scanVars, round, registered, rerr, rcancelled,
                   session, srcVars, wireVars>>

\* A renewal fails: the failure is recorded unless the renewer was stopped or
\* the receipt left the list; a stopped renewer returns.
RenewFails ==
    /\ rstate = "renewing"
    /\ renewing' = NoReceipt
    /\ IF rcancelled
       THEN rstate' = "stopped" /\ UNCHANGED rerr
       ELSE IF renewing \in registered
            THEN rstate' = "failing" /\ rerr' = TRUE
            ELSE rstate' = "round" /\ UNCHANGED rerr
    /\ UNCHANGED <<request, stopped, handlerVars, scanVars, round, registered, rcancelled,
                   session, srcVars, wireVars>>

\* After the failure is recorded the renewer cancels its context, which the
\* target's action runs under, and returns.
RenewerGivesUp ==
    /\ rstate = "failing"
    /\ rcancelled' = TRUE
    /\ rstate' = "stopped"
    /\ UNCHANGED <<request, stopped, handlerVars, scanVars, round, renewing, registered, rerr,
                   session, srcVars, wireVars>>

RenewerQuits ==
    /\ rstate = "waiting"
    /\ rcancelled
    /\ rstate' = "stopped"
    /\ UNCHANGED <<request, stopped, handlerVars, scanVars, round, renewing, registered, rerr,
                   rcancelled, session, srcVars, wireVars>>

\* The session renewer: a failed renewal ends it.
SessionRenewFails ==
    /\ session = "on"
    /\ session' = "failed"
    /\ UNCHANGED <<request, stopped, handlerVars, scanVars, renewVars, srcVars, wireVars>>

----------------------------------------------------------------------------
(* The user, the broker and the other receivers.                           *)

Stop ==
    /\ ~stopped /\ phase # "ended"
    /\ stopped' = TRUE
    /\ UNCHANGED <<request, handlerVars, scanVars, renewVars, session, srcVars, wireVars>>

\* The destination accepts the copy on the wire, or it is lost there.
BrokerAccepts ==
    /\ "send" \in wire
    /\ \E k \in 0..1 : delivered' = delivered + k
    /\ wire' = wire \ {"send"}
    /\ UNCHANGED <<request, stopped, handlerVars, scanVars, renewVars, session, srcVars>>

\* The broker removes the target, if the receipt still holds its lock.
BrokerRemoves ==
    /\ "remove" \in wire
    /\ IF Valid(target)
       THEN /\ place' = [place EXCEPT ![Target] = "gone"]
            /\ holder' = [holder EXCEPT ![Target] = NoReceipt]
            /\ wire' = (wire \ {"remove"}) \cup {"removed"}
       ELSE wire' = wire \ {"remove"} /\ UNCHANGED <<place, holder>>
    /\ UNCHANGED <<request, stopped, handlerVars, scanVars, renewVars, session, credit,
                   delivered>>

\* A lock runs out before the message is settled.
LockExpires ==
    /\ \E m \in Messages :
        /\ place[m] \in {"ours", "stray"}
        /\ place' = [place EXCEPT ![m] = Home(m)]
        /\ holder' = [holder EXCEPT ![m] = NoReceipt]
    /\ UNCHANGED <<request, stopped, handlerVars, scanVars, renewVars, session, credit,
                   wireVars>>

\* Another receiver of the entity locks a message, gives it back or removes it.
OtherReceiver ==
    /\ \E m \in Messages :
        \/ place[m] = "free" /\ place' = [place EXCEPT ![m] = "other"]
        \/ place[m] = "other" /\ place' = [place EXCEPT ![m] = "free"]
        \/ place[m] = "other" /\ place' = [place EXCEPT ![m] = "gone"]
    /\ UNCHANGED <<request, stopped, handlerVars, scanVars, renewVars, session, holder, credit,
                   wireVars>>

\* Credit the link still has catches a message nobody is waiting for.
LeftoverCreditCatches ==
    /\ credit > 0
    /\ phase # "receiving"
    /\ \E m \in Messages :
        /\ place[m] = "free"
        /\ place' = [place EXCEPT ![m] = "stray"]
    /\ credit' = credit - 1
    /\ UNCHANGED <<request, stopped, handlerVars, scanVars, renewVars, session, holder,
                   wireVars>>

----------------------------------------------------------------------------
Resolve == PeekFails \/ PeekFinds \/ PeekFindsNothing \/ AcceptSession \/ AcceptFails
           \/ ReceiveDeferred \/ ReceiveDeferredFails
Scan    == ScanHead \/ ReceiveSome \/ ReceiveNothing \/ Inspect
Act     == BeginAction \/ SendReturns \/ SendFails \/ BeginComplete \/ CompleteReturns
           \/ CompleteFails \/ GiveTargetBack
CleanUp == Unregister \/ Unregistered \/ StopRenewer \/ RenewerStopped \/ ReleaseHeld
           \/ Released \/ HandlerReturns
Handler == Resolve \/ Scan \/ Act \/ CleanUp
Renewal == RenewNext \/ RenewReturns \/ RenewFails \/ RenewerGivesUp

Environment ==
    \/ Stop \/ BrokerAccepts \/ BrokerRemoves \/ LockExpires \/ OtherReceiver
    \/ LeftoverCreditCatches \/ SessionRenewFails

\* The run is over once the handler has returned; the goroutines it waited
\* for are over too.
Ended == phase = "ended" /\ UNCHANGED vars

Next == Handler \/ Renewal \/ Tick \/ RenewerQuits \/ Environment \/ Ended

\* The goroutines run, and every call returns within its timeout.  The
\* renewer's select picks at random among what is ready, so a cancelled
\* context it keeps finding is seen in the end.
Fairness ==
    /\ WF_vars(Handler)
    /\ WF_vars(Renewal)
    /\ SF_vars(RenewerQuits)

Spec == Init /\ [][Next]_vars
FairSpec == Spec /\ Fairness

----------------------------------------------------------------------------
(* Properties.                                                             *)

RunType == req \in Requests /\ stopped \in BOOLEAN /\ session \in {"off", "on", "failed"}

ScanType ==
    /\ known \in BOOLEAN
    /\ idle \in 0..IdleRetries
    /\ received \in Seq(Messages) /\ Len(received) =< ScanBudget
    /\ recvErr \in BOOLEAN

HandlerType ==
    /\ phase \in Phases
    /\ held \subseteq 1..Len(received)
    /\ target \in 0..Len(received)
    /\ err \subseteq Causes
    /\ tracker \in [SourceModes -> SourceOutcome]

RenewerType ==
    /\ rstate \in {"off", "waiting", "round", "renewing", "failing", "stopped"}
    /\ round \subseteq 1..Len(received)
    /\ renewing \in 0..Len(received)
    /\ registered \subseteq 1..Len(received)
    /\ rerr \in BOOLEAN
    /\ rcancelled \in BOOLEAN

BrokerType ==
    /\ place \in [Messages -> Places]
    /\ holder \in [Messages -> 0..Len(received)]
    /\ credit \in 0..ScanBudget
    /\ wire \subseteq {"send", "remove", "removed"}
    /\ delivered \in 0..1

TypeOK == RunType /\ ScanType /\ HandlerType /\ RenewerType /\ BrokerType

\* The class operationTracker.finish sees in the error the handler returns.
Result == IF err = {} THEN "none"
          ELSE IF "cancelled" \in err THEN "cancelled" ELSE "failed"
Status == FinishStatus(tracker, Result)
Removed == IF "removed" \in wire THEN 1 ELSE 0

\* A run that reports success did what was asked, to the message the user
\* picked, and keeps no lock: every message it held on the way to the target
\* was given back or ran out.
SuccessMeansDone ==
    phase = "ended" /\ err = {} =>
        /\ Removed = 1
        /\ req.transfer => delivered = 1
        /\ \A m \in Messages : place[m] # "ours"

\* When the sequence number now belongs to another message (the entity was
\* recreated or the list is stale), that message is neither sent nor removed,
\* also when the peek that would have noticed failed.
WrongMessageUntouched ==
    ~req.matches => Removed = 0 /\ delivered = 0

\* A moved or replayed message is removed from its source only after the
\* destination accepted it, however sends, settlements, a Stop and a failing
\* renewal interleave.
RemovedOnlyIfAccepted ==
    Removed = 1 /\ req.transfer => delivered = 1

\* A Stop or a late answer never makes the handler leave an accepted transfer
\* half done: once the send is acknowledged the removal is at least requested,
\* unless a lock renewal failed.
AcceptedIsSettled ==
    phase \in {"unregistering", "cleanup", "stopping", "releasing", "finishing", "ended"} =>
        LET c == Snapshot(tracker)
        IN  c.Sent =< c.Settled + c.SettlementUnconfirmed \/ rerr \/ ~req.transfer

\* A transfer is never left half done by the handler itself: nothing is removed
\* that was not accepted, and what was accepted goes on to its removal.
TransferIsWhole == RemovedOnlyIfAccepted /\ AcceptedIsSettled

\* The counters bound what really happened while the run goes on and after
\* it, late effects included, and are exact unless the status says unknown.
ReportHolds ==
    LET c == Snapshot(tracker)
    IN  /\ c.Sent =< delivered /\ delivered =< c.Sent + c.SendUnconfirmed
        /\ c.Settled =< Removed /\ Removed =< c.Settled + c.SettlementUnconfirmed
        /\ phase = "ended" /\ Status # "unknown" =>
               c.Sent = delivered /\ c.Settled = Removed

\* While a target that is known to exist is acted on and released, the link
\* catches no unrelated message: nothing is left locked that the handler does
\* not know it holds.
NoStrayCapture ==
    known /\ target # NoReceipt => credit = 0 /\ Strays = {}

\* When the held messages are given back no renewal is under way that could
\* lock them again, and none of the target once its action is over.
RenewerQuiet ==
    /\ phase \in {"releasing", "finishing", "ended"} => rstate \in {"off", "stopped"}
    /\ phase \in {"cleanup", "stopping", "releasing", "finishing", "ended"}
          /\ target # NoReceipt => renewing # target

\* The handler always returns: the scan is bounded and neither unregister nor
\* stop waits for ever for the renewer.
HandlerEnds == <>(phase = "ended")

=============================================================================
