------------------------ MODULE SingleMessageProofs ------------------------
(***************************************************************************)
(* Proofs about SingleMessage: the safety properties of one               *)
(* singleMessageAction run, for any other messages in the source, any scan *)
(* budget, batch size and number of retries.                               *)
(***************************************************************************)
EXTENDS SingleMessage, FiniteSetTheorems, TLAPS

-----------------------------------------------------------------------------
(* The inductive invariant.                                                *)

\* The phases before the target is acted on, and those after.
Before == {"peek", "accept", "deferred", "head", "receiving", "received", "acting"}
After  == {"acted", "unregistering", "cleanup", "stopping", "releasing", "finishing", "ended"}

\* The copies a run that goes through has accepted.
Asked == IF req.transfer THEN 1 ELSE 0

\* What the tracker holds.
Tracked(sent, settled, sendUnc, settleUnc) ==
    /\ tracker["dlq"] = ZeroOutcome
    /\ tracker["normal"] = [Sent |-> sent, Settled |-> settled,
                            SendUnconfirmed |-> sendUnc, SettlementUnconfirmed |-> settleUnc]

\* How far a run got: nothing was asked of the broker; a send is open (or its
\* answer was lost); the send is acknowledged; the removal is open; all is done.
Untouched   == Tracked(0, 0, 0, 0) /\ wire = {} /\ delivered = 0
OpenSend    == /\ Tracked(0, 0, 1, 0) /\ req.matches /\ req.transfer
               /\ wire \subseteq {"send"} /\ ("send" \in wire => delivered = 0)
Accepted    == Tracked(Asked, 0, 0, 0) /\ wire = {} /\ delivered = Asked /\ req.matches
OpenRemoval == /\ Tracked(Asked, 0, 0, 1) /\ delivered = Asked /\ req.matches /\ target # NoReceipt
               /\ wire \in {{}, {"remove"}, {"removed"}}
Done        == Tracked(Asked, 1, 0, 0) /\ wire = {"removed"} /\ delivered = Asked /\ req.matches

\* The tracker against the requests and what the broker did, by phase.
Ledger ==
    /\ phase \in Before => Untouched
    /\ phase = "sending" => OpenSend
    /\ phase = "settle" => Accepted
    /\ phase = "completing" => OpenRemoval
    /\ phase = "giveBack" => err # {} /\ (Untouched \/ OpenSend)
    /\ phase \in After =>
         \/ err # {} /\ (Untouched \/ OpenSend \/ OpenRemoval \/ (Accepted /\ rerr))
         \/ Done

\* A lock of ours belongs to a receipt the handler will give back or is acting
\* on, or the handler knows it failed to.
Kept(m) ==
    place[m] = "ours" =>
        /\ holder[m] # NoReceipt /\ received[holder[m]] = m
        /\ holder[m] \in held \/ holder[m] = target \/ err # {}

\* When there is a target, and that it is the one.
TargetStage ==
    /\ target # NoReceipt => received[target] = Target
    /\ phase \in Before \ {"acting"} => target = NoReceipt
    /\ phase \in {"acting", "sending", "settle", "completing", "giveBack"} => target # NoReceipt
    /\ phase \in {"finishing", "ended"} /\ err = {} => held = {}

Locks ==
    /\ \A m \in Messages : Kept(m)
    /\ "removed" \in wire => place[Target] = "gone"
    /\ TargetStage

\* Where the renewer may stand, and why its context was cancelled.
RenewerStage ==
    /\ phase \in {"peek", "accept", "deferred"} => rstate = "off"
    /\ phase \in {"releasing", "finishing", "ended"} => rstate \in {"off", "stopped"}
    /\ renewing # NoReceipt => rstate = "renewing"
    /\ phase \in {"unregistering", "cleanup", "stopping", "releasing", "finishing", "ended"} =>
         target \notin registered
    /\ phase \in {"cleanup", "stopping", "releasing", "finishing", "ended"} /\ target # NoReceipt =>
         renewing # target
    /\ rstate = "failing" => rerr
    /\ rcancelled => rerr \/ phase \in {"stopping", "releasing", "finishing", "ended"}

\* A target known to exist is asked for one message at a time, so its receipt
\* uses up the credit.
NoCredit == credit = 0 /\ Strays = {}
CreditStage ==
    /\ phase \in {"peek", "accept", "deferred"} => NoCredit
    /\ known /\ (phase = "received" \/ target # NoReceipt) => NoCredit

\* Nothing is received before the scan, except a deferred target.
Start == phase \in {"peek", "accept", "deferred"} => received = <<>>

IInv == TypeOK /\ Start /\ Ledger /\ Locks /\ RenewerStage /\ CreditStage

-----------------------------------------------------------------------------
(* Facts about the tracker, the source and a receive.                      *)

\* recordOperation keeps the tracker's type.
LEMMA Recorded ==
    ASSUME NEW t \in [SourceModes -> SourceOutcome],
           NEW a \in Int, NEW b \in Int, NEW x \in Int, NEW y \in Int
    PROVE  Record(t, Mode, a, b, x, y) \in [SourceModes -> SourceOutcome]
  <1>1. t["normal"] \in SourceOutcome
    BY DEF SourceModes
  <1>2. [Sent |-> t["normal"].Sent + a, Settled |-> t["normal"].Settled + b,
         SendUnconfirmed |-> t["normal"].SendUnconfirmed + x,
         SettlementUnconfirmed |-> t["normal"].SettlementUnconfirmed + y] \in SourceOutcome
    BY <1>1 DEF SourceOutcome
  <1> QED
    BY <1>2 DEF Record, Mode

\* A message nobody holds is available, or deferred.
LEMMA Homes == \A m : Home(m) \in {"free", "deferred"}
  BY DEF Home

\* What the next receive asks for fits into the budget.
LEMMA FetchBounds ==
    ASSUME ScanType
    PROVE  /\ Fetch \in Int /\ Fetch =< ScanBudget /\ Fetch >= 0
           /\ Len(received) + Fetch =< ScanBudget
           /\ known => Fetch =< 1
  <1>1. Len(received) \in Nat /\ ScanBudget \in Nat /\ BatchSize \in 1..ScanBudget
    BY ScanAssumption DEF ScanType
  <1> QED
    BY <1>1 DEF Fetch, ScanType

\* The source is finite and the target is one of its messages.
LEMMA FiniteMessages == IsFiniteSet(Messages) /\ Target \in Messages
  <1>1. IsFiniteSet(Others) /\ IsFiniteSet({Target})
    BY ScanAssumption, FS_Singleton
  <1> QED
    BY <1>1, FS_Union DEF Messages

\* The messages of a receive get the receipts that follow.
LEMMA ReceiveFacts ==
    ASSUME ScanType, NEW q \in Batches
    PROVE  /\ Len(q) \in Nat \ {0} /\ DOMAIN q = 1..Len(q)
           /\ q \in Seq(Messages) /\ Len(q) =< Fetch
           /\ received \o q \in Seq(Messages)
           /\ Len(received \o q) = Len(received) + Len(q)
           /\ Len(received) + Len(q) =< ScanBudget
           /\ \A n \in 1..Len(received) : (received \o q)[n] = received[n]
           /\ \A i \in 1..Len(q) : (received \o q)[Len(received) + i] = q[i]
  <1>1. Fetch \in Int /\ Fetch >= 0 /\ Len(received) + Fetch =< ScanBudget
    BY FetchBounds
  <1>2. PICK k \in 1..Fetch : q \in [1..k -> Messages]
    BY DEF Batches
  <1>3. k \in Nat \ {0}
    BY <1>1, <1>2
  <1>4. q \in Seq(Messages) /\ Len(q) = k
    BY <1>2, <1>3
  <1>5. received \in Seq(Messages) /\ Len(received) \in Nat
    BY DEF ScanType
  <1> QED
    BY <1>1, <1>2, <1>3, <1>4, <1>5, ScanAssumption

\* The credit a receive uses is within what it asked for.
LEMMA CreditUsed ==
    ASSUME ScanType, NEW q \in Batches, NEW got, got = {q[i] : i \in DOMAIN q}
    PROVE  /\ IsFiniteSet(got \cup Strays)
           /\ Fetch - Cardinality(got \cup Strays) \in 0..ScanBudget
           /\ got \subseteq Messages /\ got # {}
           /\ Cardinality(got \cup Strays) =< Fetch
  <1>1. Len(q) \in Nat \ {0} /\ DOMAIN q = 1..Len(q) /\ q \in Seq(Messages)
    BY ReceiveFacts
  <1>2. got \subseteq Messages /\ q[1] \in got
    BY <1>1
  <1>3. IsFiniteSet(got \cup Strays)
    <2>1. got \cup Strays \subseteq Messages
      BY <1>2 DEF Strays
    <2> QED
      BY <2>1, FiniteMessages, FS_Subset
  <1>4. Cardinality(got \cup Strays) \in Nat
    BY <1>3, FS_CardinalityType
  <1>5. Cardinality(got \cup Strays) =< Fetch
    BY DEF Batches
  <1>6. Fetch \in Int /\ Fetch =< ScanBudget /\ ScanBudget \in Nat
    BY FetchBounds, ScanAssumption
  <1> QED
    BY <1>2, <1>3, <1>4, <1>5, <1>6

\* The receipt of each message received.
LEMMA ReceiptOf ==
    ASSUME ScanType, NEW q \in Batches, NEW i \in DOMAIN q
    PROVE  /\ (CHOOSE j \in DOMAIN q : q[j] = q[i]) \in 1..Len(q)
           /\ q[CHOOSE j \in DOMAIN q : q[j] = q[i]] = q[i]
  BY ReceiveFacts

-----------------------------------------------------------------------------
(* Types.                                                                  *)

\* Every step keeps the types; that at most one copy is accepted needs the ledger.
LEMMA NextType ==
    ASSUME TypeOK, Start, Ledger, [Next]_vars
    PROVE  TypeOK'
  <1>1. CASE PeekFails
    BY <1>1 DEF PeekFails, request, scanVars, renewVars, srcVars, wireVars,
                TypeOK, RunType, ScanType, HandlerType, RenewerType,
                BrokerType, Phases, Causes, CallCauses, NoReceipt
  <1>2. CASE PeekFinds
    <2>1. RunType' /\ RenewerType' /\ BrokerType'
      BY <1>2 DEF PeekFinds, request, renewVars, srcVars, wireVars, FailTo,
                 TypeOK, RunType, ScanType, HandlerType, RenewerType,
                 BrokerType, Phases, Causes, CallCauses, NoReceipt
    <2>2. ScanType'
      BY <1>2 DEF PeekFinds, request, renewVars, srcVars, wireVars, FailTo,
                 TypeOK, ScanType
    <2>3. HandlerType'
      <3>1. phase' \in {"finishing", "accept", "deferred", "head"} /\ err' \in {err, err \cup {"failed"}}
        BY <1>2 DEF PeekFinds, FailTo
      <3>2. UNCHANGED <<held, target, tracker, received>>
        BY <1>2 DEF PeekFinds
      <3> QED
        BY <3>1, <3>2 DEF TypeOK, HandlerType, Phases, Causes
    <2> QED
      BY <2>1, <2>2, <2>3 DEF TypeOK
  <1>3. CASE PeekFindsNothing
    BY <1>3 DEF PeekFindsNothing, request, scanVars, renewVars, srcVars,
                wireVars, FailTo, TypeOK, RunType, ScanType, HandlerType,
                RenewerType, BrokerType, Phases, Causes, CallCauses,
                NoReceipt
  <1>4. CASE AcceptSession
    BY <1>4 DEF AcceptSession, request, scanVars, renewVars, srcVars,
                wireVars, TypeOK, RunType, ScanType, HandlerType,
                RenewerType, BrokerType, Phases, Causes, CallCauses,
                NoReceipt
  <1>5. CASE AcceptFails
    BY <1>5 DEF AcceptFails, request, scanVars, renewVars, srcVars, wireVars,
                FailTo, TypeOK, RunType, ScanType, HandlerType, RenewerType,
                BrokerType, Phases, Causes, CallCauses, NoReceipt
  <1>6. CASE ReceiveDeferred
    <2>1. received = <<>> /\ held = {} /\ round = {} /\ renewing = 0 /\ registered = {}
      BY <1>6 DEF ReceiveDeferred, Start, TypeOK, HandlerType, RenewerType
    <2>2. received' = <<Target>> /\ received' \in Seq(Messages) /\ Len(received') = 1
      BY <1>6, FiniteMessages DEF ReceiveDeferred
    <2>3. RunType' /\ ScanType'
      BY <1>6, <2>2, ScanAssumption DEF ReceiveDeferred, request, TypeOK, RunType, ScanType
    <2>4. HandlerType' /\ RenewerType'
      <3>1. /\ phase' = "acting" /\ target' = 1 /\ UNCHANGED <<held, err, tracker>>
            /\ UNCHANGED <<rstate, round, renewing, registered, rerr, rcancelled>>
        BY <1>6 DEF ReceiveDeferred, renewVars
      <3>2. HandlerType'
        BY <2>1, <2>2, <3>1 DEF TypeOK, HandlerType, Phases
      <3>3. RenewerType'
        BY <2>1, <2>2, <3>1 DEF TypeOK, RenewerType
      <3> QED
        BY <3>2, <3>3
    <2>5. BrokerType'
      BY <1>6, <2>1, <2>2 DEF ReceiveDeferred, wireVars, TypeOK, BrokerType, Places
    <2> QED
      BY <2>3, <2>4, <2>5 DEF TypeOK
  <1>7. CASE ReceiveDeferredFails
    BY <1>7 DEF ReceiveDeferredFails, request, scanVars, renewVars, srcVars,
                wireVars, FailTo, TypeOK, RunType, ScanType, HandlerType,
                RenewerType, BrokerType, Phases, Causes, CallCauses,
                NoReceipt
  <1>8. CASE ScanHead
    BY <1>8 DEF ScanHead, request, scanVars, renewVars, srcVars, wireVars,
                FailTo, LockLost, TypeOK, RunType, ScanType, HandlerType,
                RenewerType, BrokerType, Phases, Causes, CallCauses,
                NoReceipt
  <1>9. CASE ReceiveSome
    <2>1. PICK q \in Batches, e \in BOOLEAN :
            LET got == {q[i] : i \in DOMAIN q}
                new == Len(received) + 1 .. Len(received) + Len(q)
            IN  /\ received' = received \o q
                /\ held' = held \cup new
                /\ recvErr' = e
                /\ place' = [m \in Messages |-> IF m \in got THEN "ours" ELSE place[m]]
                /\ holder' = [m \in Messages |->
                                IF m \in got
                                THEN Len(received) + CHOOSE i \in DOMAIN q : q[i] = m
                                ELSE holder[m]]
                /\ credit' = Fetch - Cardinality(got \cup Strays)
                /\ registered' \in {registered, registered \cup new}
      BY <1>9 DEF ReceiveSome, renewVars
    <2>2. ScanType
      BY DEF TypeOK
    <2>3. /\ Len(q) \in Nat /\ DOMAIN q = 1..Len(q) /\ Len(received) \in Nat
          /\ received' \in Seq(Messages) /\ Len(received') = Len(received) + Len(q)
          /\ Len(received') =< ScanBudget
      BY <2>1, <2>2, ReceiveFacts DEF ScanType
    <2>4. RunType' /\ ScanType'
      BY <1>9, <2>1, <2>3, ScanAssumption
         DEF ReceiveSome, request, TypeOK, RunType, ScanType
    <2>5. HandlerType'
      <3>1. phase' = "received" /\ UNCHANGED <<target, err, tracker>>
        BY <1>9 DEF ReceiveSome
      <3>2. held \subseteq 1..Len(received) /\ held' = held \cup (Len(received) + 1 .. Len(received) + Len(q))
        BY <2>1 DEF TypeOK, HandlerType
      <3>3. ASSUME NEW n \in held' PROVE n \in 1..Len(received')
        BY <2>3, <3>2, <3>3
      <3> QED
        BY <2>3, <3>1, <3>3 DEF TypeOK, HandlerType, Phases
    <2>6. RenewerType'
      BY <1>9, <2>1, <2>3 DEF ReceiveSome, TypeOK, RenewerType
    <2>7. BrokerType'
      <3>1. credit' \in 0..ScanBudget
        BY <2>1, <2>2, CreditUsed
      <3>2. place' \in [Messages -> Places]
        BY <2>1 DEF TypeOK, BrokerType, Places
      <3>3. holder' \in [Messages -> 0..Len(received')]
        <4>1. ASSUME NEW i \in DOMAIN q
              PROVE  Len(received) + (CHOOSE j \in DOMAIN q : q[j] = q[i]) \in 0..Len(received')
          BY <2>2, <2>3, ReceiptOf
        <4> QED
          BY <2>1, <2>3, <4>1 DEF TypeOK, BrokerType
      <3> QED
        BY <1>9, <3>1, <3>2, <3>3 DEF ReceiveSome, wireVars, TypeOK, BrokerType
    <2> QED
      BY <2>4, <2>5, <2>6, <2>7 DEF TypeOK
  <1>10. CASE ReceiveNothing
    <2>1. RunType' /\ HandlerType' /\ RenewerType'
      BY <1>10 DEF ReceiveNothing, request, renewVars, wireVars, FailTo,
                 TypeOK, RunType, ScanType, HandlerType, RenewerType,
                 BrokerType, Phases, Causes, CallCauses, NoReceipt
    <2>2. ScanType'
      BY <1>10, ScanAssumption DEF ReceiveNothing, request, renewVars,
                                 wireVars, FailTo, TypeOK, ScanType
    <2>3. BrokerType'
      BY <1>10, FetchBounds, ScanAssumption DEF ReceiveNothing, request,
                                              renewVars, wireVars, FailTo,
                                              TypeOK, BrokerType, ScanType
    <2> QED
      BY <2>1, <2>2, <2>3 DEF TypeOK
  <1>11. CASE Inspect
    <2>1. RunType' /\ ScanType' /\ RenewerType' /\ BrokerType'
      BY <1>11 DEF Inspect, request, scanVars, renewVars, srcVars, wireVars,
                 FailTo, LockLost, TypeOK, RunType, ScanType, HandlerType,
                 RenewerType, BrokerType, Phases, Causes, CallCauses,
                 NoReceipt
    <2>2. HandlerType'
      <3>1. /\ phase' \in {"cleanup", "acting", "head"}
            /\ err' \in {err, err \cup {"failed"}, err \cup {"cancelled"}}
            /\ UNCHANGED <<tracker, received>>
        BY <1>11 DEF Inspect, FailTo, scanVars
      <3>2. held' \subseteq held /\ target' \in {target} \cup held
        BY <1>11 DEF Inspect, TargetReceipts
      <3> QED
        BY <3>1, <3>2 DEF TypeOK, HandlerType, Phases, Causes
    <2> QED
      BY <2>1, <2>2 DEF TypeOK
  <1>12. CASE BeginAction
    <2>1. RunType' /\ ScanType' /\ RenewerType'
      BY <1>12 DEF BeginAction, request, scanVars, renewVars, srcVars, FailTo,
                 TypeOK, RunType, ScanType, HandlerType, RenewerType,
                 BrokerType, Phases, Causes, CallCauses, NoReceipt
    <2>2. HandlerType'
      <3>1. tracker \in [SourceModes -> SourceOutcome]
        BY DEF TypeOK, HandlerType
      <3>2. tracker' = tracker \/ tracker' = Record(tracker, Mode, 0, 0, 1, 0)
        BY <1>12 DEF BeginAction
      <3>3. tracker' \in [SourceModes -> SourceOutcome]
        BY <3>1, <3>2, Recorded
      <3>4. phase' \in Phases /\ err' \subseteq Causes /\ UNCHANGED <<held, target, received>>
        BY <1>12 DEF BeginAction, request, scanVars, renewVars, srcVars,
                   FailTo, TypeOK, HandlerType, Phases, Causes, CallCauses
      <3> QED
        BY <3>3, <3>4 DEF TypeOK, HandlerType
    <2>3. BrokerType'
      <3>1. wire' \in {wire, wire \cup {"send"}} /\ UNCHANGED <<place, holder, credit, delivered, received>>
        BY <1>12 DEF BeginAction, srcVars, scanVars
      <3> QED
        BY <3>1 DEF TypeOK, BrokerType
    <2> QED
      BY <2>1, <2>2, <2>3 DEF TypeOK
  <1>13. CASE SendReturns
    <2>1. RunType' /\ ScanType' /\ RenewerType' /\ BrokerType'
      BY <1>13 DEF SendReturns, request, scanVars, renewVars, srcVars,
                 wireVars, TypeOK, RunType, ScanType, HandlerType,
                 RenewerType, BrokerType, Phases, Causes, CallCauses,
                 NoReceipt
    <2>2. HandlerType'
      <3>1. tracker \in [SourceModes -> SourceOutcome]
        BY DEF TypeOK, HandlerType
      <3>2. tracker' = Record(tracker, Mode, 1, 0, -1, 0)
        BY <1>13 DEF SendReturns
      <3>3. tracker' \in [SourceModes -> SourceOutcome]
        BY <3>1, <3>2, Recorded
      <3>4. phase' \in Phases /\ err' \subseteq Causes /\ UNCHANGED <<held, target, received>>
        BY <1>13 DEF SendReturns, request, scanVars, renewVars, srcVars,
                   wireVars, TypeOK, HandlerType, Phases, Causes, CallCauses
      <3> QED
        BY <3>3, <3>4 DEF TypeOK, HandlerType
    <2> QED
      BY <2>1, <2>2 DEF TypeOK
  <1>14. CASE SendFails
    BY <1>14 DEF SendFails, request, scanVars, renewVars, srcVars, wireVars,
                 FailTo, TypeOK, RunType, ScanType, HandlerType, RenewerType,
                 BrokerType, Phases, Causes, CallCauses, NoReceipt
  <1>15. CASE BeginComplete
    <2>1. RunType' /\ ScanType' /\ RenewerType' /\ BrokerType'
      BY <1>15 DEF BeginComplete, request, scanVars, renewVars, srcVars,
                 FailTo, TypeOK, RunType, ScanType, HandlerType, RenewerType,
                 BrokerType, Phases, Causes, CallCauses, NoReceipt
    <2>2. HandlerType'
      <3>1. tracker \in [SourceModes -> SourceOutcome]
        BY DEF TypeOK, HandlerType
      <3>2. tracker' = tracker \/ tracker' = Record(tracker, Mode, 0, 0, 0, 1)
        BY <1>15 DEF BeginComplete
      <3>3. tracker' \in [SourceModes -> SourceOutcome]
        BY <3>1, <3>2, Recorded
      <3>4. phase' \in Phases /\ err' \subseteq Causes /\ UNCHANGED <<held, target, received>>
        BY <1>15 DEF BeginComplete, request, scanVars, renewVars, srcVars,
                   FailTo, TypeOK, HandlerType, Phases, Causes, CallCauses
      <3> QED
        BY <3>3, <3>4 DEF TypeOK, HandlerType
    <2> QED
      BY <2>1, <2>2 DEF TypeOK
  <1>16. CASE CompleteReturns
    <2>1. RunType' /\ ScanType' /\ RenewerType' /\ BrokerType'
      BY <1>16 DEF CompleteReturns, request, scanVars, renewVars, srcVars,
                 wireVars, TypeOK, RunType, ScanType, HandlerType,
                 RenewerType, BrokerType, Phases, Causes, CallCauses,
                 NoReceipt
    <2>2. HandlerType'
      <3>1. tracker \in [SourceModes -> SourceOutcome]
        BY DEF TypeOK, HandlerType
      <3>2. tracker' = Record(tracker, Mode, 0, 1, 0, -1)
        BY <1>16 DEF CompleteReturns
      <3>3. tracker' \in [SourceModes -> SourceOutcome]
        BY <3>1, <3>2, Recorded
      <3>4. phase' \in Phases /\ err' \subseteq Causes /\ UNCHANGED <<held, target, received>>
        BY <1>16 DEF CompleteReturns, request, scanVars, renewVars, srcVars,
                   wireVars, TypeOK, HandlerType, Phases, Causes, CallCauses
      <3> QED
        BY <3>3, <3>4 DEF TypeOK, HandlerType
    <2> QED
      BY <2>1, <2>2 DEF TypeOK
  <1>17. CASE CompleteFails
    BY <1>17 DEF CompleteFails, request, scanVars, renewVars, srcVars,
                 wireVars, FailTo, TypeOK, RunType, ScanType, HandlerType,
                 RenewerType, BrokerType, Phases, Causes, CallCauses,
                 NoReceipt
  <1>18. CASE GiveTargetBack
    <2>1. RunType' /\ ScanType' /\ RenewerType'
      BY <1>18 DEF GiveTargetBack, request, scanVars, renewVars, wireVars,
                 Abandon, Home, TypeOK, RunType, ScanType, HandlerType,
                 RenewerType, BrokerType, Phases, Causes, CallCauses,
                 NoReceipt
    <2>2. HandlerType'
      <3>1. /\ phase' = "acted" /\ err' \in {err, err \cup {"failed"}} /\ held' \subseteq held
            /\ UNCHANGED <<target, tracker, received>>
        BY <1>18 DEF GiveTargetBack, scanVars
      <3> QED
        BY <3>1 DEF TypeOK, HandlerType, Phases, Causes
    <2>3. BrokerType'
      <3>1. UNCHANGED <<credit, wire, delivered, received>>
        BY <1>18 DEF GiveTargetBack, scanVars, wireVars
      <3>2. \/ UNCHANGED <<place, holder>>
            \/ \E m : /\ place' = [place EXCEPT ![m] = Home(m)]
                     /\ holder' = [holder EXCEPT ![m] = NoReceipt]
        BY <1>18 DEF GiveTargetBack, Abandon
      <3> QED
        BY <3>1, <3>2, Homes DEF TypeOK, ScanType, BrokerType, NoReceipt, Places
    <2> QED
      BY <2>1, <2>2, <2>3 DEF TypeOK
  <1>19. CASE Unregister
    BY <1>19 DEF Unregister, request, scanVars, srcVars, wireVars, TypeOK,
                 RunType, ScanType, HandlerType, RenewerType, BrokerType,
                 Phases, Causes, CallCauses, NoReceipt
  <1>20. CASE Unregistered
    BY <1>20 DEF Unregistered, request, scanVars, renewVars, srcVars,
                 wireVars, TypeOK, RunType, ScanType, HandlerType,
                 RenewerType, BrokerType, Phases, Causes, CallCauses,
                 NoReceipt
  <1>21. CASE StopRenewer
    BY <1>21 DEF StopRenewer, request, scanVars, srcVars, wireVars, TypeOK,
                 RunType, ScanType, HandlerType, RenewerType, BrokerType,
                 Phases, Causes, CallCauses, NoReceipt
  <1>22. CASE RenewerStopped
    BY <1>22 DEF RenewerStopped, request, scanVars, renewVars, srcVars,
                 wireVars, TypeOK, RunType, ScanType, HandlerType,
                 RenewerType, BrokerType, Phases, Causes, CallCauses,
                 NoReceipt
  <1>23. CASE ReleaseHeld
    <2>1. RunType' /\ ScanType' /\ RenewerType'
      BY <1>23 DEF ReleaseHeld, request, scanVars, renewVars, wireVars,
                 Abandon, Home, TypeOK, RunType, ScanType, HandlerType,
                 RenewerType, BrokerType, Phases, Causes, CallCauses,
                 NoReceipt
    <2>2. HandlerType'
      <3>1. /\ phase' = phase /\ err' \in {err, err \cup {"failed"}} /\ held' \subseteq held
            /\ UNCHANGED <<target, tracker, received>>
        BY <1>23 DEF ReleaseHeld, scanVars
      <3> QED
        BY <3>1 DEF TypeOK, HandlerType, Phases, Causes
    <2>3. BrokerType'
      <3>1. UNCHANGED <<credit, wire, delivered, received>>
        BY <1>23 DEF ReleaseHeld, scanVars, wireVars
      <3>2. \/ UNCHANGED <<place, holder>>
            \/ \E m : /\ place' = [place EXCEPT ![m] = Home(m)]
                     /\ holder' = [holder EXCEPT ![m] = NoReceipt]
        BY <1>23 DEF ReleaseHeld, Abandon
      <3> QED
        BY <3>1, <3>2, Homes DEF TypeOK, ScanType, BrokerType, NoReceipt, Places
    <2> QED
      BY <2>1, <2>2, <2>3 DEF TypeOK
  <1>24. CASE Released
    BY <1>24 DEF Released, request, scanVars, renewVars, srcVars, wireVars,
                 TypeOK, RunType, ScanType, HandlerType, RenewerType,
                 BrokerType, Phases, Causes, CallCauses, NoReceipt
  <1>25. CASE HandlerReturns
    BY <1>25 DEF HandlerReturns, request, scanVars, renewVars, srcVars,
                 wireVars, TypeOK, RunType, ScanType, HandlerType,
                 RenewerType, BrokerType, Phases, Causes, CallCauses,
                 NoReceipt
  <1>26. CASE RenewNext
    <2>1. RunType' /\ ScanType' /\ HandlerType' /\ BrokerType'
      BY <1>26 DEF RenewNext, request, scanVars, srcVars, wireVars,
                 handlerVars, TypeOK, RunType, ScanType, HandlerType,
                 RenewerType, BrokerType, Phases, Causes, CallCauses,
                 NoReceipt
    <2>2. RenewerType'
      <3>1. /\ round' \subseteq round /\ renewing' \in {renewing} \cup round
            /\ rstate' \in {rstate, "waiting", "renewing"}
            /\ UNCHANGED <<received, registered, rerr, rcancelled>>
        BY <1>26 DEF RenewNext, scanVars
      <3> QED
        BY <3>1 DEF TypeOK, RenewerType
    <2> QED
      BY <2>1, <2>2 DEF TypeOK
  <1>27. CASE RenewReturns
    <2>1. RunType' /\ ScanType' /\ HandlerType' /\ BrokerType'
      BY <1>27 DEF RenewReturns, request, scanVars, srcVars, wireVars,
                 handlerVars, TypeOK, RunType, ScanType, HandlerType,
                 RenewerType, BrokerType, Phases, Causes, CallCauses,
                 NoReceipt
    <2>2. RenewerType'
      BY <1>27 DEF RenewReturns, request, scanVars, srcVars, wireVars,
                 handlerVars, TypeOK, RenewerType, ScanType, NoReceipt
    <2> QED
      BY <2>1, <2>2 DEF TypeOK
  <1>28. CASE RenewFails
    <2>1. RunType' /\ ScanType' /\ HandlerType' /\ BrokerType'
      BY <1>28 DEF RenewFails, request, scanVars, srcVars, wireVars,
                 handlerVars, TypeOK, RunType, ScanType, HandlerType,
                 RenewerType, BrokerType, Phases, Causes, CallCauses,
                 NoReceipt
    <2>2. RenewerType'
      <3>1. /\ renewing' = 0 /\ rerr' \in {rerr, TRUE}
            /\ rstate' \in {"stopped", "failing", "round"}
            /\ UNCHANGED <<received, round, registered, rcancelled>>
        BY <1>28 DEF RenewFails, scanVars, NoReceipt
      <3>2. Len(received) \in Nat
        BY DEF TypeOK, ScanType
      <3>3. rerr' \in BOOLEAN
        BY <3>1 DEF TypeOK, RenewerType
      <3> QED
        BY <3>1, <3>2, <3>3 DEF TypeOK, RenewerType
    <2> QED
      BY <2>1, <2>2 DEF TypeOK
  <1>29. CASE RenewerGivesUp
    BY <1>29 DEF RenewerGivesUp, request, scanVars, srcVars, wireVars,
                 handlerVars, TypeOK, RunType, ScanType, HandlerType,
                 RenewerType, BrokerType, Phases, Causes, CallCauses,
                 NoReceipt
  <1>30. CASE Tick
    BY <1>30 DEF Tick, request, scanVars, srcVars, wireVars, handlerVars,
                 TypeOK, RunType, ScanType, HandlerType, RenewerType,
                 BrokerType, Phases, Causes, CallCauses, NoReceipt
  <1>31. CASE RenewerQuits
    BY <1>31 DEF RenewerQuits, request, scanVars, srcVars, wireVars,
                 handlerVars, TypeOK, RunType, ScanType, HandlerType,
                 RenewerType, BrokerType, Phases, Causes, CallCauses,
                 NoReceipt
  <1>32. CASE Stop
    BY <1>32 DEF Stop, request, scanVars, renewVars, srcVars, wireVars,
                 handlerVars, TypeOK, RunType, ScanType, HandlerType,
                 RenewerType, BrokerType, Phases, Causes, CallCauses,
                 NoReceipt
  <1>33. CASE BrokerAccepts
    <2>1. RunType' /\ ScanType' /\ HandlerType' /\ RenewerType'
      BY <1>33 DEF BrokerAccepts, request, scanVars, renewVars, srcVars,
                 handlerVars, TypeOK, RunType, ScanType, HandlerType,
                 RenewerType, BrokerType, Phases, Causes, CallCauses,
                 NoReceipt
    <2>2. BrokerType'
      <3>1. delivered = 0
        BY <1>33
           DEF BrokerAccepts, Ledger, Untouched, OpenSend, Accepted,
               OpenRemoval, Done, TypeOK,
                   HandlerType, Phases, Before, After
      <3> QED
        BY <1>33, <3>1 DEF BrokerAccepts, scanVars, srcVars, TypeOK, BrokerType
    <2> QED
      BY <2>1, <2>2 DEF TypeOK
  <1>34. CASE BrokerRemoves
    <2>1. RunType' /\ ScanType' /\ HandlerType' /\ RenewerType'
      BY <1>34 DEF BrokerRemoves, request, scanVars, renewVars, handlerVars,
                 TypeOK, RunType, ScanType, HandlerType, RenewerType,
                 BrokerType, Phases, Causes, CallCauses, NoReceipt
    <2>2. BrokerType'
      <3>1. /\ wire' \subseteq wire \cup {"removed"}
            /\ place' \in {place, [place EXCEPT ![Target] = "gone"]}
            /\ holder' \in {holder, [holder EXCEPT ![Target] = 0]}
            /\ UNCHANGED <<credit, delivered, received>>
        BY <1>34 DEF BrokerRemoves, NoReceipt, scanVars
      <3>2. Len(received) \in Nat
        BY DEF TypeOK, ScanType
      <3> QED
        BY <3>1, <3>2 DEF TypeOK, BrokerType, Places
    <2> QED
      BY <2>1, <2>2 DEF TypeOK
  <1>35. CASE LockExpires
    <2>1. RunType' /\ ScanType' /\ HandlerType' /\ RenewerType'
      BY <1>35 DEF LockExpires, request, scanVars, renewVars, wireVars,
                 handlerVars, Home, TypeOK, RunType, ScanType, HandlerType,
                 RenewerType, BrokerType, Phases, Causes, CallCauses,
                 NoReceipt
    <2>2. BrokerType'
      BY <1>35, Homes DEF LockExpires, request, scanVars, renewVars, wireVars,
                        handlerVars, TypeOK, ScanType, BrokerType, NoReceipt,
                        Places
    <2> QED
      BY <2>1, <2>2 DEF TypeOK
  <1>36. CASE OtherReceiver
    <2>1. RunType' /\ ScanType' /\ HandlerType' /\ RenewerType'
      BY <1>36 DEF OtherReceiver, request, scanVars, renewVars, wireVars,
                 handlerVars, TypeOK, RunType, ScanType, HandlerType,
                 RenewerType, BrokerType, Phases, Causes, CallCauses,
                 NoReceipt
    <2>2. BrokerType'
      BY <1>36, ScanAssumption DEF OtherReceiver, request, scanVars, renewVars,
                                 wireVars, handlerVars, TypeOK, BrokerType,
                                 NoReceipt, Places
    <2> QED
      BY <2>1, <2>2 DEF TypeOK
  <1>37. CASE LeftoverCreditCatches
    <2>1. RunType' /\ ScanType' /\ HandlerType' /\ RenewerType'
      BY <1>37 DEF LeftoverCreditCatches, request, scanVars, renewVars,
                 wireVars, handlerVars, TypeOK, RunType, ScanType,
                 HandlerType, RenewerType, BrokerType, Phases, Causes,
                 CallCauses, NoReceipt
    <2>2. BrokerType'
      BY <1>37, ScanAssumption DEF LeftoverCreditCatches, request, scanVars,
                                 renewVars, wireVars, handlerVars, TypeOK,
                                 BrokerType, NoReceipt, Places
    <2> QED
      BY <2>1, <2>2 DEF TypeOK
  <1>38. CASE SessionRenewFails
    BY <1>38 DEF SessionRenewFails, request, scanVars, renewVars, srcVars,
                 wireVars, handlerVars, TypeOK, RunType, ScanType,
                 HandlerType, RenewerType, BrokerType, Phases, Causes,
                 CallCauses, NoReceipt
  <1>39. CASE UNCHANGED vars
    BY <1>39
       DEF vars, request, handlerVars, scanVars, renewVars, srcVars,
           wireVars, TypeOK, RunType, ScanType, HandlerType, RenewerType,
           BrokerType, Phases, Causes, CallCauses, NoReceipt
  <1> QED
    BY <1>1, <1>2, <1>3, <1>4, <1>5, <1>6, <1>7, <1>8, <1>9, <1>10, <1>11,
       <1>12, <1>13, <1>14, <1>15, <1>16, <1>17, <1>18, <1>19, <1>20, <1>21,
       <1>22, <1>23, <1>24, <1>25, <1>26, <1>27, <1>28, <1>29, <1>30, <1>31,
       <1>32, <1>33, <1>34, <1>35, <1>36, <1>37, <1>38,
       <1>39 DEF Next, Handler, Resolve, Scan, Act, CleanUp, Renewal,
       Environment, Ended

-----------------------------------------------------------------------------
(* The tracker, the requests and the broker.                               *)

\* Every step keeps the ledger: the tracker moves with the requests.
LEMMA NextLedger ==
    ASSUME TypeOK, Ledger, Locks, RenewerStage, [Next]_vars
    PROVE  Ledger'
  <1>1. CASE PeekFails
    BY <1>1 DEF PeekFails, request, scanVars, renewVars, srcVars, wireVars,
                Ledger, NoReceipt, Untouched, OpenSend, Accepted,
                OpenRemoval, Done, Tracked, Asked, Before, After
  <1>2. CASE PeekFinds
    BY <1>2 DEF PeekFinds, request, renewVars, srcVars, wireVars, FailTo,
                Ledger, NoReceipt, Untouched, OpenSend, Accepted,
                OpenRemoval, Done, Tracked, Asked, Before, After
  <1>3. CASE PeekFindsNothing
    BY <1>3 DEF PeekFindsNothing, request, scanVars, renewVars, srcVars,
                wireVars, FailTo, Ledger, NoReceipt, Untouched, OpenSend,
                Accepted, OpenRemoval, Done, Tracked, Asked, Before, After
  <1>4. CASE AcceptSession
    BY <1>4 DEF AcceptSession, request, scanVars, renewVars, srcVars,
                wireVars, Ledger, NoReceipt, Untouched, OpenSend, Accepted,
                OpenRemoval, Done, Tracked, Asked, Before, After
  <1>5. CASE AcceptFails
    BY <1>5 DEF AcceptFails, request, scanVars, renewVars, srcVars, wireVars,
                FailTo, Ledger, NoReceipt, Untouched, OpenSend, Accepted,
                OpenRemoval, Done, Tracked, Asked, Before, After
  <1>6. CASE ReceiveDeferred
    BY <1>6 DEF ReceiveDeferred, request, renewVars, wireVars, Ledger,
                NoReceipt, Untouched, OpenSend, Accepted, OpenRemoval, Done,
                Tracked, Asked, Before, After
  <1>7. CASE ReceiveDeferredFails
    BY <1>7 DEF ReceiveDeferredFails, request, scanVars, renewVars, srcVars,
                wireVars, FailTo, Ledger, NoReceipt, Untouched, OpenSend,
                Accepted, OpenRemoval, Done, Tracked, Asked, Before, After
  <1>8. CASE ScanHead
    BY <1>8 DEF ScanHead, request, scanVars, renewVars, srcVars, wireVars,
                FailTo, LockLost, Ledger, NoReceipt, Untouched, OpenSend,
                Accepted, OpenRemoval, Done, Tracked, Asked, Before, After
  <1>9. CASE ReceiveSome
    BY <1>9 DEF ReceiveSome, request, wireVars, Ledger, NoReceipt, Untouched,
                OpenSend, Accepted, OpenRemoval, Done, Tracked, Asked,
                Before, After
  <1>10. CASE ReceiveNothing
    BY <1>10 DEF ReceiveNothing, request, renewVars, wireVars, FailTo,
                 Ledger, NoReceipt, Untouched, OpenSend, Accepted,
                 OpenRemoval, Done, Tracked, Asked, Before, After
  <1>11. CASE Inspect
    BY <1>11 DEF Inspect, request, scanVars, renewVars, srcVars, wireVars,
                 FailTo, LockLost, Ledger, NoReceipt, Untouched, OpenSend,
                 Accepted, OpenRemoval, Done, Tracked, Asked, Before, After
  <1>12. CASE BeginAction
    <2>1. Untouched /\ req' = req /\ delivered' = delivered
      BY <1>12 DEF BeginAction, Ledger, Before, request
    <2>2. CASE TargetMatches /\ ~stopped /\ req.transfer /\ ~rcancelled
      <3>1. /\ tracker \in [SourceModes -> SourceOutcome] /\ "normal" \in SourceModes /\ "dlq" \in SourceModes
            /\ tracker' = Record(tracker, Mode, 0, 0, 1, 0) /\ phase' = "sending" /\ wire' = wire \cup {"send"}
        BY <1>12, <2>2 DEF BeginAction, TypeOK, HandlerType, SourceModes
      <3>2. tracker'["dlq"] = tracker["dlq"]
        BY <3>1 DEF Record, Mode
      <3>3. Tracked(0, 0, 1, 0)'
        BY <2>1, <3>1, <3>2 DEF Record, Mode, Untouched, Tracked
      <3> QED
        BY <2>1, <2>2, <3>1, <3>3
           DEF Ledger, TargetMatches, Untouched, OpenSend, Before, After
    <2>3. CASE ~(TargetMatches /\ ~stopped /\ req.transfer /\ ~rcancelled)
      <3>1. /\ UNCHANGED <<tracker, wire>>
            /\ \/ phase' = "giveBack" /\ err' # {}
               \/ phase' = "settle" /\ TargetMatches /\ ~req.transfer
        BY <1>12, <2>3 DEF BeginAction, FailTo
      <3> QED
        BY <2>1, <3>1
           DEF Ledger, TargetMatches, Untouched, Accepted, Asked, Tracked,
               Before, After
    <2> QED
      BY <2>2, <2>3
  <1>13. CASE SendReturns
    <2>1. OpenSend
      BY <1>13 DEF SendReturns, Ledger, Before
    <2>2. /\ tracker \in [SourceModes -> SourceOutcome] /\ "normal" \in SourceModes /\ "dlq" \in SourceModes
          /\ tracker' = Record(tracker, Mode, 1, 0, -1, 0)
      BY <1>13 DEF SendReturns, TypeOK, HandlerType, SourceModes
    <2>3. tracker'["dlq"] = tracker["dlq"]
      BY <2>2 DEF Record, Mode
    <2>4. Tracked(1, 0, 0, 0)'
      BY <2>1, <2>2, <2>3 DEF Record, Mode, OpenSend, Tracked
    <2> QED
      BY <1>13, <2>1, <2>4
         DEF SendReturns, request, wireVars, Ledger, OpenSend, Accepted,
             Asked, Before, After
  <1>14. CASE SendFails
    BY <1>14 DEF SendFails, request, scanVars, renewVars, srcVars, wireVars,
                 FailTo, Ledger, NoReceipt, Untouched, OpenSend, Accepted,
                 OpenRemoval, Done, Tracked, Asked, Before, After
  <1>15. CASE BeginComplete
    <2>1. Accepted /\ target # NoReceipt
      BY <1>15 DEF BeginComplete, Ledger, Locks, TargetStage
    <2>2. CASE rcancelled
      BY <1>15, <2>1, <2>2
         DEF BeginComplete, FailTo, request, renewVars, Ledger, RenewerStage,
                             Accepted, Tracked, Asked, Before, After
    <2>3. CASE ~rcancelled
      <3>1. /\ tracker \in [SourceModes -> SourceOutcome] /\ "normal" \in SourceModes /\ "dlq" \in SourceModes
            /\ tracker' = Record(tracker, Mode, 0, 0, 0, 1)
        BY <1>15, <2>3 DEF BeginComplete, TypeOK, HandlerType, SourceModes
      <3>2. tracker'["dlq"] = tracker["dlq"]
        BY <3>1 DEF Record, Mode
      <3>3. Tracked(Asked, 0, 0, 1)'
        <4>1. req' = req
          BY <1>15 DEF BeginComplete, request
        <4> QED
          BY <2>1, <3>1, <3>2, <4>1 DEF Record, Mode, Accepted, Tracked, Asked
      <3> QED
        BY <1>15, <2>1, <2>3, <3>3
           DEF BeginComplete, request, Ledger, Accepted, OpenRemoval, Asked,
               Before, After
    <2> QED
      BY <2>2, <2>3
  <1>16. CASE CompleteReturns
    <2>1. OpenRemoval /\ wire = {"removed"}
      BY <1>16 DEF CompleteReturns, Ledger, OpenRemoval
    <2>2. /\ tracker \in [SourceModes -> SourceOutcome] /\ "normal" \in SourceModes /\ "dlq" \in SourceModes
          /\ tracker' = Record(tracker, Mode, 0, 1, 0, -1) /\ req' = req
      BY <1>16 DEF CompleteReturns, TypeOK, HandlerType, SourceModes, request
    <2>3. tracker'["dlq"] = tracker["dlq"]
      BY <2>2 DEF Record, Mode
    <2>4. Tracked(Asked, 1, 0, 0)'
      BY <2>1, <2>2, <2>3 DEF Record, Mode, OpenRemoval, Tracked, Asked
    <2> QED
      BY <1>16, <2>1, <2>2, <2>4
         DEF CompleteReturns, wireVars, Ledger, OpenRemoval, Done, Asked,
             Before, After
  <1>17. CASE CompleteFails
    BY <1>17 DEF CompleteFails, request, scanVars, renewVars, srcVars,
                 wireVars, FailTo, Ledger, NoReceipt, Untouched, OpenSend,
                 Accepted, OpenRemoval, Done, Tracked, Asked, Before, After
  <1>18. CASE GiveTargetBack
    BY <1>18 DEF GiveTargetBack, request, scanVars, renewVars, wireVars,
                 Abandon, Home, Ledger, NoReceipt, Untouched, OpenSend,
                 Accepted, OpenRemoval, Done, Tracked, Asked, Before, After
  <1>19. CASE Unregister
    BY <1>19 DEF Unregister, request, scanVars, srcVars, wireVars, Ledger,
                 NoReceipt, Untouched, OpenSend, Accepted, OpenRemoval, Done,
                 Tracked, Asked, Before, After
  <1>20. CASE Unregistered
    BY <1>20 DEF Unregistered, request, scanVars, renewVars, srcVars,
                 wireVars, Ledger, NoReceipt, Untouched, OpenSend, Accepted,
                 OpenRemoval, Done, Tracked, Asked, Before, After
  <1>21. CASE StopRenewer
    BY <1>21 DEF StopRenewer, request, scanVars, srcVars, wireVars, Ledger,
                 NoReceipt, Untouched, OpenSend, Accepted, OpenRemoval, Done,
                 Tracked, Asked, Before, After
  <1>22. CASE RenewerStopped
    BY <1>22 DEF RenewerStopped, request, scanVars, renewVars, srcVars,
                 wireVars, Ledger, NoReceipt, Untouched, OpenSend, Accepted,
                 OpenRemoval, Done, Tracked, Asked, Before, After
  <1>23. CASE ReleaseHeld
    BY <1>23 DEF ReleaseHeld, request, scanVars, renewVars, wireVars,
                 Abandon, Home, Ledger, NoReceipt, Untouched, OpenSend,
                 Accepted, OpenRemoval, Done, Tracked, Asked, Before, After
  <1>24. CASE Released
    BY <1>24 DEF Released, request, scanVars, renewVars, srcVars, wireVars,
                 Ledger, NoReceipt, Untouched, OpenSend, Accepted,
                 OpenRemoval, Done, Tracked, Asked, Before, After
  <1>25. CASE HandlerReturns
    BY <1>25 DEF HandlerReturns, request, scanVars, renewVars, srcVars,
                 wireVars, Ledger, NoReceipt, Untouched, OpenSend, Accepted,
                 OpenRemoval, Done, Tracked, Asked, Before, After
  <1>26. CASE RenewNext
    BY <1>26 DEF RenewNext, request, scanVars, srcVars, wireVars,
                 handlerVars, Ledger, NoReceipt, Untouched, OpenSend,
                 Accepted, OpenRemoval, Done, Tracked, Asked, Before, After
  <1>27. CASE RenewReturns
    BY <1>27 DEF RenewReturns, request, scanVars, srcVars, wireVars,
                 handlerVars, Ledger, NoReceipt, Untouched, OpenSend,
                 Accepted, OpenRemoval, Done, Tracked, Asked, Before, After
  <1>28. CASE RenewFails
    BY <1>28 DEF RenewFails, request, scanVars, srcVars, wireVars,
                 handlerVars, Ledger, NoReceipt, Untouched, OpenSend,
                 Accepted, OpenRemoval, Done, Tracked, Asked, Before, After
  <1>29. CASE RenewerGivesUp
    BY <1>29 DEF RenewerGivesUp, request, scanVars, srcVars, wireVars,
                 handlerVars, Ledger, NoReceipt, Untouched, OpenSend,
                 Accepted, OpenRemoval, Done, Tracked, Asked, Before, After
  <1>30. CASE Tick
    BY <1>30 DEF Tick, request, scanVars, srcVars, wireVars, handlerVars,
                 Ledger, NoReceipt, Untouched, OpenSend, Accepted,
                 OpenRemoval, Done, Tracked, Asked, Before, After
  <1>31. CASE RenewerQuits
    BY <1>31 DEF RenewerQuits, request, scanVars, srcVars, wireVars,
                 handlerVars, Ledger, NoReceipt, Untouched, OpenSend,
                 Accepted, OpenRemoval, Done, Tracked, Asked, Before, After
  <1>32. CASE Stop
    BY <1>32 DEF Stop, request, scanVars, renewVars, srcVars, wireVars,
                 handlerVars, Ledger, NoReceipt, Untouched, OpenSend,
                 Accepted, OpenRemoval, Done, Tracked, Asked, Before, After
  <1>33. CASE BrokerAccepts
    BY <1>33 DEF BrokerAccepts, request, scanVars, renewVars, srcVars,
                 handlerVars, Ledger, NoReceipt, Untouched, OpenSend,
                 Accepted, OpenRemoval, Done, Tracked, Asked, Before, After
  <1>34. CASE BrokerRemoves
    BY <1>34 DEF BrokerRemoves, request, scanVars, renewVars, handlerVars,
                 Ledger, NoReceipt, Untouched, OpenSend, Accepted,
                 OpenRemoval, Done, Tracked, Asked, Before, After
  <1>35. CASE LockExpires
    BY <1>35 DEF LockExpires, request, scanVars, renewVars, wireVars,
                 handlerVars, Home, Ledger, NoReceipt, Untouched, OpenSend,
                 Accepted, OpenRemoval, Done, Tracked, Asked, Before, After
  <1>36. CASE OtherReceiver
    BY <1>36 DEF OtherReceiver, request, scanVars, renewVars, wireVars,
                 handlerVars, Ledger, NoReceipt, Untouched, OpenSend,
                 Accepted, OpenRemoval, Done, Tracked, Asked, Before, After
  <1>37. CASE LeftoverCreditCatches
    BY <1>37 DEF LeftoverCreditCatches, request, scanVars, renewVars,
                 wireVars, handlerVars, Ledger, NoReceipt, Untouched,
                 OpenSend, Accepted, OpenRemoval, Done, Tracked, Asked,
                 Before, After
  <1>38. CASE SessionRenewFails
    BY <1>38 DEF SessionRenewFails, request, scanVars, renewVars, srcVars,
                 wireVars, handlerVars, Ledger, NoReceipt, Untouched,
                 OpenSend, Accepted, OpenRemoval, Done, Tracked, Asked,
                 Before, After
  <1>39. CASE UNCHANGED vars
    BY <1>39
       DEF vars, request, handlerVars, scanVars, renewVars, srcVars,
           wireVars, Ledger, NoReceipt, Untouched, OpenSend, Accepted,
           OpenRemoval, Done, Tracked, Asked, Before, After
  <1> QED
    BY <1>1, <1>2, <1>3, <1>4, <1>5, <1>6, <1>7, <1>8, <1>9, <1>10, <1>11,
       <1>12, <1>13, <1>14, <1>15, <1>16, <1>17, <1>18, <1>19, <1>20, <1>21,
       <1>22, <1>23, <1>24, <1>25, <1>26, <1>27, <1>28, <1>29, <1>30, <1>31,
       <1>32, <1>33, <1>34, <1>35, <1>36, <1>37, <1>38,
       <1>39 DEF Next, Handler, Resolve, Scan, Act, CleanUp, Renewal,
       Environment, Ended

-----------------------------------------------------------------------------
(* The locks.                                                              *)

\* Every step keeps track of the locks and of the target.
LEMMA NextLocks ==
    ASSUME TypeOK, Start, Ledger, Locks, [Next]_vars
    PROVE  Locks'
  <1>1. CASE PeekFails
    BY <1>1 DEF PeekFails, request, scanVars, renewVars, srcVars, wireVars,
                Locks, Kept, TargetStage, NoReceipt, Before
  <1>2. CASE PeekFinds
    BY <1>2 DEF PeekFinds, request, renewVars, srcVars, wireVars, FailTo,
                Locks, Kept, TargetStage, NoReceipt, Before
  <1>3. CASE PeekFindsNothing
    BY <1>3 DEF PeekFindsNothing, request, scanVars, renewVars, srcVars,
                wireVars, FailTo, Locks, Kept, TargetStage, NoReceipt, Before
  <1>4. CASE AcceptSession
    BY <1>4 DEF AcceptSession, request, scanVars, renewVars, srcVars,
                wireVars, Locks, Kept, TargetStage, NoReceipt, Before
  <1>5. CASE AcceptFails
    BY <1>5 DEF AcceptFails, request, scanVars, renewVars, srcVars, wireVars,
                FailTo, Locks, Kept, TargetStage, NoReceipt, Before
  <1>6. CASE ReceiveDeferred
    <2>1. received = <<>> /\ received' = <<Target>> /\ target' = 1 /\ target = 0
      BY <1>6 DEF ReceiveDeferred, Start, Locks, TargetStage, NoReceipt, Before
    <2>2. received'[1] = Target /\ Target \in Messages
      BY <2>1, FiniteMessages
    <2>3. ASSUME NEW m \in Messages PROVE Kept(m)'
      <3>1. place[m] # "ours"
        <4>1. holder[m] = 0
          BY <2>1 DEF TypeOK, BrokerType
        <4> QED
          BY <4>1 DEF Locks, Kept, NoReceipt
      <3> QED
        BY <1>6, <2>1, <2>2, <3>1 DEF ReceiveDeferred, Kept, NoReceipt, TypeOK, BrokerType
    <2>4. ("removed" \in wire => place[Target] = "gone")'
      BY <1>6 DEF ReceiveDeferred, wireVars, Locks
    <2>5. TargetStage'
      BY <1>6, <2>1, <2>2 DEF ReceiveDeferred, TargetStage, NoReceipt, Before
    <2> QED
      BY <2>3, <2>4, <2>5 DEF Locks
  <1>7. CASE ReceiveDeferredFails
    BY <1>7 DEF ReceiveDeferredFails, request, scanVars, renewVars, srcVars,
                wireVars, FailTo, Locks, Kept, TargetStage, NoReceipt, Before
  <1>8. CASE ScanHead
    BY <1>8 DEF ScanHead, request, scanVars, renewVars, srcVars, wireVars,
                FailTo, LockLost, Locks, Kept, TargetStage, NoReceipt, Before
  <1>9. CASE ReceiveSome
    <2>1. PICK q \in Batches :
            LET got == {q[i] : i \in DOMAIN q}
            IN  /\ received' = received \o q
                /\ held' = held \cup (Len(received) + 1 .. Len(received) + Len(q))
                /\ place' = [m \in Messages |-> IF m \in got THEN "ours" ELSE place[m]]
                /\ holder' = [m \in Messages |->
                                IF m \in got
                                THEN Len(received) + CHOOSE i \in DOMAIN q : q[i] = m
                                ELSE holder[m]]
      BY <1>9 DEF ReceiveSome
    <2>2. ScanType /\ Len(received) \in Nat
      BY DEF TypeOK, ScanType
    <2>3. target' = 0 /\ target = 0 /\ phase' = "received" /\ UNCHANGED <<err, wire>>
      BY <1>9 DEF ReceiveSome, Locks, TargetStage, Before, NoReceipt, wireVars
    <2>4. ASSUME NEW i \in DOMAIN q PROVE Kept(q[i])'
      <3>1. PICK j \in 1..Len(q) : j = (CHOOSE k \in DOMAIN q : q[k] = q[i]) /\ q[j] = q[i]
        BY <2>2, ReceiptOf
      <3>2. q[i] \in Messages /\ Len(q) \in Nat /\ (received \o q)[Len(received) + j] = q[j]
        BY <2>2, ReceiveFacts
      <3>3. holder'[q[i]] = Len(received) + j
        BY <2>1, <3>1, <3>2
      <3>4. Len(received) + j \in Len(received) + 1 .. Len(received) + Len(q)
        BY <2>2, <3>1, <3>2
      <3> QED
        BY <2>1, <2>2, <3>1, <3>2, <3>3, <3>4 DEF Kept, NoReceipt
    <2>5. ASSUME NEW m \in Messages, \A i \in DOMAIN q : m # q[i] PROVE Kept(m)'
      <3>1. place'[m] = place[m] /\ holder'[m] = holder[m]
        BY <2>1, <2>5
      <3>2. holder[m] \in 0..Len(received) /\ Kept(m)
        BY DEF TypeOK, BrokerType, Locks
      <3>3. holder[m] # 0 => received'[holder[m]] = received[holder[m]]
        BY <2>1, <2>2, <3>2, ReceiveFacts
      <3> QED
        BY <2>1, <2>3, <3>1, <3>2, <3>3 DEF Kept, NoReceipt
    <2>6. \A m \in Messages : Kept(m)'
      BY <2>4, <2>5
    <2>7. "removed" \notin wire
      BY <1>9 DEF ReceiveSome, Ledger, Before, Untouched
    <2> QED
      BY <2>3, <2>6, <2>7 DEF Locks, TargetStage, NoReceipt, Before
  <1>10. CASE ReceiveNothing
    BY <1>10 DEF ReceiveNothing, request, renewVars, wireVars, FailTo, Locks,
                 Kept, TargetStage, NoReceipt, Before
  <1>11. CASE Inspect
    <2>1. UNCHANGED <<received, place, holder, wire>> /\ target = 0 /\ err \subseteq err'
      BY <1>11
         DEF Inspect, scanVars, srcVars, wireVars, FailTo, Locks,
             TargetStage, Before, NoReceipt
    <2>2. CASE UNCHANGED <<held, target>>
      <3>1. \A m \in Messages : Kept(m)'
        BY <2>1, <2>2 DEF Locks, Kept
      <3>2. phase' \in {"cleanup", "head", "acting"}
        BY <1>11 DEF Inspect, FailTo
      <3>3. phase' # "acting"
        <4>1. ASSUME phase' = "acting" PROVE FALSE
          <5>1. PICK n \in TargetReceipts : target' = n
            BY <1>11, <4>1 DEF Inspect, FailTo
          <5>2. n # 0
            BY <5>1 DEF TargetReceipts, TypeOK, HandlerType
          <5> QED
            BY <2>1, <2>2, <5>1, <5>2
        <4> QED
          BY <4>1
      <3> QED
        BY <2>1, <2>2, <3>1, <3>2, <3>3 DEF Locks, TargetStage, Before, NoReceipt
    <2>3. CASE ~UNCHANGED <<held, target>>
      <3>1. PICK n \in TargetReceipts : target' = n /\ held' = held \ {n} /\ phase' = "acting"
        BY <1>11, <2>3 DEF Inspect
      <3>2. n \in held /\ n # 0 /\ received[n] = Target
        BY <3>1 DEF TargetReceipts, TypeOK, HandlerType
      <3>3. ASSUME NEW m \in Messages PROVE Kept(m)'
        BY <2>1, <3>1, <3>2 DEF Locks, Kept, NoReceipt
      <3> QED
        BY <2>1, <3>1, <3>2, <3>3 DEF Locks, TargetStage, Before, NoReceipt
    <2> QED
      BY <2>2, <2>3
  <1>12. CASE BeginAction
    BY <1>12 DEF BeginAction, request, scanVars, renewVars, srcVars, FailTo,
                 Locks, Kept, TargetStage, NoReceipt, Before
  <1>13. CASE SendReturns
    BY <1>13 DEF SendReturns, request, scanVars, renewVars, srcVars,
                 wireVars, Locks, Kept, TargetStage, NoReceipt, Before
  <1>14. CASE SendFails
    BY <1>14 DEF SendFails, request, scanVars, renewVars, srcVars, wireVars,
                 FailTo, Locks, Kept, TargetStage, NoReceipt, Before
  <1>15. CASE BeginComplete
    BY <1>15 DEF BeginComplete, request, scanVars, renewVars, srcVars,
                 FailTo, Locks, Kept, TargetStage, NoReceipt, Before
  <1>16. CASE CompleteReturns
    BY <1>16 DEF CompleteReturns, request, scanVars, renewVars, srcVars,
                 wireVars, Locks, Kept, TargetStage, NoReceipt, Before
  <1>17. CASE CompleteFails
    BY <1>17 DEF CompleteFails, request, scanVars, renewVars, srcVars,
                 wireVars, FailTo, Locks, Kept, TargetStage, NoReceipt,
                 Before
  <1>18. CASE GiveTargetBack
    <2>1. /\ target # 0 /\ received[target] = Target /\ phase' = "acted" /\ err # {} /\ err' # {}
          /\ UNCHANGED <<received, held, target, wire>>
      BY <1>18 DEF GiveTargetBack, scanVars, wireVars, Locks, TargetStage, NoReceipt, Ledger
    <2>2. \/ UNCHANGED <<place, holder>>
          \/ /\ place[Target] = "ours" /\ place' = [place EXCEPT ![Target] = Home(Target)]
             /\ holder' = [holder EXCEPT ![Target] = NoReceipt]
      BY <1>18, <2>1 DEF GiveTargetBack, Abandon, Valid
    <2>3. ASSUME NEW m \in Messages PROVE Kept(m)'
      BY <2>1, <2>2, Homes DEF Locks, Kept, TypeOK, BrokerType
    <2>4. ("removed" \in wire => place[Target] = "gone")'
      BY <2>1, <2>2 DEF Locks
    <2> QED
      BY <2>1, <2>3, <2>4 DEF Locks, TargetStage, Before, NoReceipt
  <1>19. CASE Unregister
    BY <1>19 DEF Unregister, request, scanVars, srcVars, wireVars, Locks,
                 Kept, TargetStage, NoReceipt, Before
  <1>20. CASE Unregistered
    BY <1>20 DEF Unregistered, request, scanVars, renewVars, srcVars,
                 wireVars, Locks, Kept, TargetStage, NoReceipt, Before
  <1>21. CASE StopRenewer
    BY <1>21 DEF StopRenewer, request, scanVars, srcVars, wireVars, Locks,
                 Kept, TargetStage, NoReceipt, Before
  <1>22. CASE RenewerStopped
    BY <1>22 DEF RenewerStopped, request, scanVars, renewVars, srcVars,
                 wireVars, Locks, Kept, TargetStage, NoReceipt, Before
  <1>23. CASE ReleaseHeld
    <2>1. PICK n \in held :
            /\ held' = held \ {n}
            /\ \/ Abandon(n) /\ err' \in {err, err \cup {"failed"}}
               \/ err' = err \cup {"failed"} /\ UNCHANGED <<place, holder>>
      BY <1>23 DEF ReleaseHeld, NextReleases
    <2>2. UNCHANGED <<received, phase, target, wire>> /\ phase = "releasing" /\ err \subseteq err'
      BY <1>23, <2>1 DEF ReleaseHeld, scanVars, wireVars
    <2>3. CASE Abandon(n)
      <3>1. PICK x : /\ x = received[n] /\ place[x] = "ours"
                     /\ place' = [place EXCEPT ![x] = Home(x)]
                     /\ holder' = [holder EXCEPT ![x] = NoReceipt]
        BY <2>3 DEF Abandon, Valid
      <3>2. ASSUME NEW m \in Messages PROVE Kept(m)'
        <4>1. CASE m = x
          BY <3>1, <4>1, Homes DEF Kept, TypeOK, BrokerType
        <4>2. CASE m # x
          <5>1. place'[m] = place[m] /\ holder'[m] = holder[m] /\ Kept(m)
            BY <3>1, <4>2 DEF Locks, TypeOK, BrokerType
          <5> QED
            BY <2>1, <2>2, <3>1, <4>2, <5>1 DEF Kept
        <4> QED
          BY <4>1, <4>2
      <3>3. ("removed" \in wire => place[Target] = "gone")'
        BY <2>2, <3>1 DEF Locks
      <3> QED
        BY <2>2, <3>2, <3>3 DEF Locks, TargetStage, Before
    <2>4. CASE UNCHANGED <<place, holder>> /\ err' # {}
      <3>1. \A m \in Messages : Kept(m)'
        BY <2>2, <2>4 DEF Locks, Kept
      <3> QED
        BY <2>2, <2>4, <3>1 DEF Locks, TargetStage, Before
    <2> QED
      BY <2>1, <2>3, <2>4
  <1>24. CASE Released
    BY <1>24 DEF Released, request, scanVars, renewVars, srcVars, wireVars,
                 Locks, Kept, TargetStage, NoReceipt, Before
  <1>25. CASE HandlerReturns
    BY <1>25 DEF HandlerReturns, request, scanVars, renewVars, srcVars,
                 wireVars, Locks, Kept, TargetStage, NoReceipt, Before
  <1>26. CASE RenewNext
    BY <1>26 DEF RenewNext, request, scanVars, srcVars, wireVars,
                 handlerVars, Locks, Kept, TargetStage, NoReceipt, Before
  <1>27. CASE RenewReturns
    BY <1>27 DEF RenewReturns, request, scanVars, srcVars, wireVars,
                 handlerVars, Locks, Kept, TargetStage, NoReceipt, Before
  <1>28. CASE RenewFails
    BY <1>28 DEF RenewFails, request, scanVars, srcVars, wireVars,
                 handlerVars, Locks, Kept, TargetStage, NoReceipt, Before
  <1>29. CASE RenewerGivesUp
    BY <1>29 DEF RenewerGivesUp, request, scanVars, srcVars, wireVars,
                 handlerVars, Locks, Kept, TargetStage, NoReceipt, Before
  <1>30. CASE Tick
    BY <1>30 DEF Tick, request, scanVars, srcVars, wireVars, handlerVars,
                 Locks, Kept, TargetStage, NoReceipt, Before
  <1>31. CASE RenewerQuits
    BY <1>31 DEF RenewerQuits, request, scanVars, srcVars, wireVars,
                 handlerVars, Locks, Kept, TargetStage, NoReceipt, Before
  <1>32. CASE Stop
    BY <1>32 DEF Stop, request, scanVars, renewVars, srcVars, wireVars,
                 handlerVars, Locks, Kept, TargetStage, NoReceipt, Before
  <1>33. CASE BrokerAccepts
    BY <1>33 DEF BrokerAccepts, request, scanVars, renewVars, srcVars,
                 handlerVars, Locks, Kept, TargetStage, NoReceipt, Before
  <1>34. CASE BrokerRemoves
    <2>1. target # NoReceipt /\ received[target] = Target /\ Target \in Messages
      BY <1>34, FiniteMessages
         DEF BrokerRemoves, Ledger, Locks, TargetStage, Untouched, OpenSend,
             Accepted,
                 OpenRemoval, Done, TypeOK, HandlerType, Phases, Before, After
    <2>2. UNCHANGED <<phase, held, target, err, received>>
      BY <1>34 DEF BrokerRemoves, handlerVars, scanVars
    <2>3. CASE Valid(target)
      <3>1. /\ place' = [place EXCEPT ![Target] = "gone"]
            /\ holder' = [holder EXCEPT ![Target] = NoReceipt]
        BY <1>34, <2>3 DEF BrokerRemoves
      <3>2. ASSUME NEW m \in Messages PROVE Kept(m)'
        BY <2>2, <3>1 DEF Locks, Kept, TypeOK, BrokerType
      <3>3. place'[Target] = "gone"
        BY <2>1, <3>1 DEF TypeOK, BrokerType
      <3> QED
        BY <2>2, <3>2, <3>3 DEF Locks, TargetStage
    <2>4. CASE ~Valid(target)
      <3>1. UNCHANGED <<place, holder>> /\ wire' \subseteq wire
        BY <1>34, <2>4 DEF BrokerRemoves
      <3>2. \A m \in Messages : Kept(m)'
        BY <2>2, <3>1 DEF Locks, Kept
      <3> QED
        BY <2>2, <3>1, <3>2 DEF Locks, TargetStage
    <2> QED
      BY <2>3, <2>4
  <1>35. CASE LockExpires
    <2>1. PICK x \in Messages : /\ place[x] \in {"ours", "stray"}
                                /\ place' = [place EXCEPT ![x] = Home(x)]
                                /\ holder' = [holder EXCEPT ![x] = NoReceipt]
      BY <1>35 DEF LockExpires
    <2>2. UNCHANGED <<phase, held, target, err, received, wire>>
      BY <1>35 DEF LockExpires, handlerVars, scanVars, wireVars
    <2>3. ASSUME NEW m \in Messages PROVE Kept(m)'
      BY <2>1, <2>2, Homes DEF Locks, Kept, TypeOK, BrokerType
    <2>4. ("removed" \in wire => place[Target] = "gone")'
      BY <2>1, <2>2 DEF Locks, TypeOK, BrokerType
    <2> QED
      BY <2>2, <2>3, <2>4 DEF Locks, TargetStage
  <1>36. CASE OtherReceiver
    <2>1. PICK x \in Messages : /\ place[x] \in {"free", "other"} /\ holder' = holder
                                /\ \E p \in {"free", "other", "gone"} : place' = [place EXCEPT ![x] = p]
      BY <1>36 DEF OtherReceiver
    <2>2. UNCHANGED <<phase, held, target, err, received, wire>>
      BY <1>36 DEF OtherReceiver, handlerVars, scanVars, wireVars
    <2>3. ASSUME NEW m \in Messages PROVE Kept(m)'
      BY <2>1, <2>2, Homes DEF Locks, Kept, TypeOK, BrokerType
    <2>4. ("removed" \in wire => place[Target] = "gone")'
      BY <2>1, <2>2 DEF Locks, TypeOK, BrokerType
    <2> QED
      BY <2>2, <2>3, <2>4 DEF Locks, TargetStage
  <1>37. CASE LeftoverCreditCatches
    BY <1>37 DEF LeftoverCreditCatches, request, scanVars, renewVars,
                 wireVars, handlerVars, Locks, Kept, TargetStage, NoReceipt,
                 Before
  <1>38. CASE SessionRenewFails
    BY <1>38 DEF SessionRenewFails, request, scanVars, renewVars, srcVars,
                 wireVars, handlerVars, Locks, Kept, TargetStage, NoReceipt,
                 Before
  <1>39. CASE UNCHANGED vars
    BY <1>39
       DEF vars, request, handlerVars, scanVars, renewVars, srcVars,
           wireVars, Locks, Kept, TargetStage, NoReceipt, Before
  <1> QED
    BY <1>1, <1>2, <1>3, <1>4, <1>5, <1>6, <1>7, <1>8, <1>9, <1>10, <1>11,
       <1>12, <1>13, <1>14, <1>15, <1>16, <1>17, <1>18, <1>19, <1>20, <1>21,
       <1>22, <1>23, <1>24, <1>25, <1>26, <1>27, <1>28, <1>29, <1>30, <1>31,
       <1>32, <1>33, <1>34, <1>35, <1>36, <1>37, <1>38,
       <1>39 DEF Next, Handler, Resolve, Scan, Act, CleanUp, Renewal,
       Environment, Ended

-----------------------------------------------------------------------------
(* The renewer.                                                            *)

\* Every step leaves the renewer where the handler's phase allows it.
LEMMA NextRenewer ==
    ASSUME TypeOK, Locks, RenewerStage, [Next]_vars
    PROVE  RenewerStage'
  <1>1. CASE PeekFails
    BY <1>1 DEF PeekFails, request, scanVars, renewVars, srcVars, wireVars,
                RenewerStage, NoReceipt, Before, Locks, TargetStage, TypeOK,
                RenewerType
  <1>2. CASE PeekFinds
    BY <1>2 DEF PeekFinds, request, renewVars, srcVars, wireVars, FailTo,
                RenewerStage, NoReceipt, Before, Locks, TargetStage, TypeOK,
                RenewerType
  <1>3. CASE PeekFindsNothing
    BY <1>3 DEF PeekFindsNothing, request, scanVars, renewVars, srcVars,
                wireVars, FailTo, RenewerStage, NoReceipt, Before, Locks,
                TargetStage, TypeOK, RenewerType
  <1>4. CASE AcceptSession
    BY <1>4 DEF AcceptSession, request, scanVars, renewVars, srcVars,
                wireVars, RenewerStage, NoReceipt, Before, Locks,
                TargetStage, TypeOK, RenewerType
  <1>5. CASE AcceptFails
    BY <1>5 DEF AcceptFails, request, scanVars, renewVars, srcVars, wireVars,
                FailTo, RenewerStage, NoReceipt, Before, Locks, TargetStage,
                TypeOK, RenewerType
  <1>6. CASE ReceiveDeferred
    BY <1>6 DEF ReceiveDeferred, request, renewVars, wireVars, RenewerStage,
                NoReceipt, Before, Locks, TargetStage, TypeOK, RenewerType
  <1>7. CASE ReceiveDeferredFails
    BY <1>7 DEF ReceiveDeferredFails, request, scanVars, renewVars, srcVars,
                wireVars, FailTo, RenewerStage, NoReceipt, Before, Locks,
                TargetStage, TypeOK, RenewerType
  <1>8. CASE ScanHead
    BY <1>8 DEF ScanHead, request, scanVars, renewVars, srcVars, wireVars,
                FailTo, LockLost, RenewerStage, NoReceipt, Before, Locks,
                TargetStage, TypeOK, RenewerType
  <1>9. CASE ReceiveSome
    BY <1>9 DEF ReceiveSome, request, wireVars, RenewerStage, NoReceipt,
                Before, Locks, TargetStage, TypeOK, RenewerType
  <1>10. CASE ReceiveNothing
    BY <1>10 DEF ReceiveNothing, request, renewVars, wireVars, FailTo,
                 RenewerStage, NoReceipt, Before, Locks, TargetStage, TypeOK,
                 RenewerType
  <1>11. CASE Inspect
    BY <1>11 DEF Inspect, request, scanVars, renewVars, srcVars, wireVars,
                 FailTo, LockLost, RenewerStage, NoReceipt, Before, Locks,
                 TargetStage, TypeOK, RenewerType
  <1>12. CASE BeginAction
    BY <1>12 DEF BeginAction, request, scanVars, renewVars, srcVars, FailTo,
                 RenewerStage, NoReceipt, Before, Locks, TargetStage, TypeOK,
                 RenewerType
  <1>13. CASE SendReturns
    BY <1>13 DEF SendReturns, request, scanVars, renewVars, srcVars,
                 wireVars, RenewerStage, NoReceipt, Before, Locks,
                 TargetStage, TypeOK, RenewerType
  <1>14. CASE SendFails
    BY <1>14 DEF SendFails, request, scanVars, renewVars, srcVars, wireVars,
                 FailTo, RenewerStage, NoReceipt, Before, Locks, TargetStage,
                 TypeOK, RenewerType
  <1>15. CASE BeginComplete
    BY <1>15 DEF BeginComplete, request, scanVars, renewVars, srcVars,
                 FailTo, RenewerStage, NoReceipt, Before, Locks, TargetStage,
                 TypeOK, RenewerType
  <1>16. CASE CompleteReturns
    BY <1>16 DEF CompleteReturns, request, scanVars, renewVars, srcVars,
                 wireVars, RenewerStage, NoReceipt, Before, Locks,
                 TargetStage, TypeOK, RenewerType
  <1>17. CASE CompleteFails
    BY <1>17 DEF CompleteFails, request, scanVars, renewVars, srcVars,
                 wireVars, FailTo, RenewerStage, NoReceipt, Before, Locks,
                 TargetStage, TypeOK, RenewerType
  <1>18. CASE GiveTargetBack
    BY <1>18 DEF GiveTargetBack, request, scanVars, renewVars, wireVars,
                 Abandon, Home, RenewerStage, NoReceipt, Before, Locks,
                 TargetStage, TypeOK, RenewerType
  <1>19. CASE Unregister
    BY <1>19 DEF Unregister, request, scanVars, srcVars, wireVars,
                 RenewerStage, NoReceipt, Before, Locks, TargetStage, TypeOK,
                 RenewerType
  <1>20. CASE Unregistered
    BY <1>20 DEF Unregistered, request, scanVars, renewVars, srcVars,
                 wireVars, RenewerStage, NoReceipt, Before, Locks,
                 TargetStage, TypeOK, RenewerType
  <1>21. CASE StopRenewer
    BY <1>21 DEF StopRenewer, request, scanVars, srcVars, wireVars,
                 RenewerStage, NoReceipt, Before, Locks, TargetStage, TypeOK,
                 RenewerType
  <1>22. CASE RenewerStopped
    BY <1>22 DEF RenewerStopped, request, scanVars, renewVars, srcVars,
                 wireVars, RenewerStage, NoReceipt, Before, Locks,
                 TargetStage, TypeOK, RenewerType
  <1>23. CASE ReleaseHeld
    BY <1>23 DEF ReleaseHeld, request, scanVars, renewVars, wireVars,
                 Abandon, Home, RenewerStage, NoReceipt, Before, Locks,
                 TargetStage, TypeOK, RenewerType
  <1>24. CASE Released
    BY <1>24 DEF Released, request, scanVars, renewVars, srcVars, wireVars,
                 RenewerStage, NoReceipt, Before, Locks, TargetStage, TypeOK,
                 RenewerType
  <1>25. CASE HandlerReturns
    BY <1>25 DEF HandlerReturns, request, scanVars, renewVars, srcVars,
                 wireVars, RenewerStage, NoReceipt, Before, Locks,
                 TargetStage, TypeOK, RenewerType
  <1>26. CASE RenewNext
    BY <1>26 DEF RenewNext, request, scanVars, srcVars, wireVars,
                 handlerVars, RenewerStage, NoReceipt, Before, Locks,
                 TargetStage, TypeOK, RenewerType
  <1>27. CASE RenewReturns
    BY <1>27 DEF RenewReturns, request, scanVars, srcVars, wireVars,
                 handlerVars, RenewerStage, NoReceipt, Before, Locks,
                 TargetStage, TypeOK, RenewerType
  <1>28. CASE RenewFails
    BY <1>28 DEF RenewFails, request, scanVars, srcVars, wireVars,
                 handlerVars, RenewerStage, NoReceipt, Before, Locks,
                 TargetStage, TypeOK, RenewerType
  <1>29. CASE RenewerGivesUp
    BY <1>29 DEF RenewerGivesUp, request, scanVars, srcVars, wireVars,
                 handlerVars, RenewerStage, NoReceipt, Before, Locks,
                 TargetStage, TypeOK, RenewerType
  <1>30. CASE Tick
    BY <1>30 DEF Tick, request, scanVars, srcVars, wireVars, handlerVars,
                 RenewerStage, NoReceipt, Before, Locks, TargetStage, TypeOK,
                 RenewerType
  <1>31. CASE RenewerQuits
    BY <1>31 DEF RenewerQuits, request, scanVars, srcVars, wireVars,
                 handlerVars, RenewerStage, NoReceipt, Before, Locks,
                 TargetStage, TypeOK, RenewerType
  <1>32. CASE Stop
    BY <1>32 DEF Stop, request, scanVars, renewVars, srcVars, wireVars,
                 handlerVars, RenewerStage, NoReceipt, Before, Locks,
                 TargetStage, TypeOK, RenewerType
  <1>33. CASE BrokerAccepts
    BY <1>33 DEF BrokerAccepts, request, scanVars, renewVars, srcVars,
                 handlerVars, RenewerStage, NoReceipt, Before, Locks,
                 TargetStage, TypeOK, RenewerType
  <1>34. CASE BrokerRemoves
    BY <1>34 DEF BrokerRemoves, request, scanVars, renewVars, handlerVars,
                 RenewerStage, NoReceipt, Before, Locks, TargetStage, TypeOK,
                 RenewerType
  <1>35. CASE LockExpires
    BY <1>35 DEF LockExpires, request, scanVars, renewVars, wireVars,
                 handlerVars, Home, RenewerStage, NoReceipt, Before, Locks,
                 TargetStage, TypeOK, RenewerType
  <1>36. CASE OtherReceiver
    BY <1>36 DEF OtherReceiver, request, scanVars, renewVars, wireVars,
                 handlerVars, RenewerStage, NoReceipt, Before, Locks,
                 TargetStage, TypeOK, RenewerType
  <1>37. CASE LeftoverCreditCatches
    BY <1>37 DEF LeftoverCreditCatches, request, scanVars, renewVars,
                 wireVars, handlerVars, RenewerStage, NoReceipt, Before,
                 Locks, TargetStage, TypeOK, RenewerType
  <1>38. CASE SessionRenewFails
    BY <1>38 DEF SessionRenewFails, request, scanVars, renewVars, srcVars,
                 wireVars, handlerVars, RenewerStage, NoReceipt, Before,
                 Locks, TargetStage, TypeOK, RenewerType
  <1>39. CASE UNCHANGED vars
    BY <1>39
       DEF vars, request, handlerVars, scanVars, renewVars, srcVars,
           wireVars, RenewerStage, NoReceipt, Before, Locks, TargetStage,
           TypeOK, RenewerType
  <1> QED
    BY <1>1, <1>2, <1>3, <1>4, <1>5, <1>6, <1>7, <1>8, <1>9, <1>10, <1>11,
       <1>12, <1>13, <1>14, <1>15, <1>16, <1>17, <1>18, <1>19, <1>20, <1>21,
       <1>22, <1>23, <1>24, <1>25, <1>26, <1>27, <1>28, <1>29, <1>30, <1>31,
       <1>32, <1>33, <1>34, <1>35, <1>36, <1>37, <1>38,
       <1>39 DEF Next, Handler, Resolve, Scan, Act, CleanUp, Renewal,
       Environment, Ended

-----------------------------------------------------------------------------
(* Receive credit.                                                         *)

\* Every step keeps the credit of a receive for a known target used up.
LEMMA NextCredit ==
    ASSUME TypeOK, Start, Locks, CreditStage, [Next]_vars
    PROVE  CreditStage' /\ Start'
  <1>1. CASE PeekFails
    BY <1>1 DEF PeekFails, request, scanVars, renewVars, srcVars, wireVars,
                CreditStage, NoCredit, Strays, NoReceipt, Before, Locks,
                TargetStage, Start
  <1>2. CASE PeekFinds
    BY <1>2 DEF PeekFinds, request, renewVars, srcVars, wireVars, FailTo,
                CreditStage, NoCredit, Strays, NoReceipt, Before, Locks,
                TargetStage, Start
  <1>3. CASE PeekFindsNothing
    BY <1>3 DEF PeekFindsNothing, request, scanVars, renewVars, srcVars,
                wireVars, FailTo, CreditStage, NoCredit, Strays, NoReceipt,
                Before, Locks, TargetStage, Start
  <1>4. CASE AcceptSession
    BY <1>4 DEF AcceptSession, request, scanVars, renewVars, srcVars,
                wireVars, CreditStage, NoCredit, Strays, NoReceipt, Before,
                Locks, TargetStage, Start
  <1>5. CASE AcceptFails
    BY <1>5 DEF AcceptFails, request, scanVars, renewVars, srcVars, wireVars,
                FailTo, CreditStage, NoCredit, Strays, NoReceipt, Before,
                Locks, TargetStage, Start
  <1>6. CASE ReceiveDeferred
    BY <1>6 DEF ReceiveDeferred, request, renewVars, wireVars, CreditStage,
                NoCredit, Strays, NoReceipt, Before, Locks, TargetStage,
                Start
  <1>7. CASE ReceiveDeferredFails
    BY <1>7 DEF ReceiveDeferredFails, request, scanVars, renewVars, srcVars,
                wireVars, FailTo, CreditStage, NoCredit, Strays, NoReceipt,
                Before, Locks, TargetStage, Start
  <1>8. CASE ScanHead
    BY <1>8 DEF ScanHead, request, scanVars, renewVars, srcVars, wireVars,
                FailTo, LockLost, CreditStage, NoCredit, Strays, NoReceipt,
                Before, Locks, TargetStage, Start
  <1>9. CASE ReceiveSome
    <2>1. PICK q \in Batches :
            LET got == {q[i] : i \in DOMAIN q}
            IN  /\ place' = [m \in Messages |-> IF m \in got THEN "ours" ELSE place[m]]
                /\ credit' = Fetch - Cardinality(got \cup Strays)
      BY <1>9 DEF ReceiveSome
    <2>2. /\ phase = "receiving" /\ phase' = "received" /\ known' = known
          /\ target = NoReceipt /\ target' = target
      BY <1>9 DEF ReceiveSome, Locks, TargetStage, Before
    <2>3. ASSUME known PROVE NoCredit'
      <3> DEFINE got == {q[i] : i \in DOMAIN q}
      <3>1. /\ IsFiniteSet(got \cup Strays) /\ got # {} /\ Cardinality(got \cup Strays) =< Fetch
            /\ Fetch \in Int /\ Fetch =< 1
        BY <2>3, CreditUsed, FetchBounds DEF TypeOK
      <3>2. PICK x : x \in got
        BY <3>1
      <3>3. {x} \subseteq got \cup Strays /\ Cardinality({x}) = 1
        BY <3>2, FS_Singleton
      <3>4. Cardinality(got \cup Strays) = 1 /\ got \cup Strays = {x}
        <4>1. Cardinality(got \cup Strays) \in Nat /\ Cardinality({x}) =< Cardinality(got \cup Strays)
          BY <3>1, <3>3, FS_CardinalityType, FS_Subset
        <4>2. Cardinality(got \cup Strays) = Cardinality({x})
          BY <3>1, <3>3, <4>1
        <4> QED
          BY <3>1, <3>3, <4>2, FS_Subset
      <3>5. credit' = 0
        BY <2>1, <3>1, <3>4
      <3>6. Strays' = {}
        BY <2>1, <3>2, <3>4 DEF Strays
      <3> QED
        BY <3>5, <3>6 DEF NoCredit
    <2> QED
      BY <2>2, <2>3 DEF CreditStage, Start
  <1>10. CASE ReceiveNothing
    BY <1>10 DEF ReceiveNothing, request, renewVars, wireVars, FailTo,
                 CreditStage, NoCredit, Strays, NoReceipt, Before, Locks,
                 TargetStage, Start
  <1>11. CASE Inspect
    BY <1>11 DEF Inspect, request, scanVars, renewVars, srcVars, wireVars,
                 FailTo, LockLost, CreditStage, NoCredit, Strays, NoReceipt,
                 Before, Locks, TargetStage, Start
  <1>12. CASE BeginAction
    BY <1>12 DEF BeginAction, request, scanVars, renewVars, srcVars, FailTo,
                 CreditStage, NoCredit, Strays, NoReceipt, Before, Locks,
                 TargetStage, Start
  <1>13. CASE SendReturns
    BY <1>13 DEF SendReturns, request, scanVars, renewVars, srcVars,
                 wireVars, CreditStage, NoCredit, Strays, NoReceipt, Before,
                 Locks, TargetStage, Start
  <1>14. CASE SendFails
    BY <1>14 DEF SendFails, request, scanVars, renewVars, srcVars, wireVars,
                 FailTo, CreditStage, NoCredit, Strays, NoReceipt, Before,
                 Locks, TargetStage, Start
  <1>15. CASE BeginComplete
    BY <1>15 DEF BeginComplete, request, scanVars, renewVars, srcVars,
                 FailTo, CreditStage, NoCredit, Strays, NoReceipt, Before,
                 Locks, TargetStage, Start
  <1>16. CASE CompleteReturns
    BY <1>16 DEF CompleteReturns, request, scanVars, renewVars, srcVars,
                 wireVars, CreditStage, NoCredit, Strays, NoReceipt, Before,
                 Locks, TargetStage, Start
  <1>17. CASE CompleteFails
    BY <1>17 DEF CompleteFails, request, scanVars, renewVars, srcVars,
                 wireVars, FailTo, CreditStage, NoCredit, Strays, NoReceipt,
                 Before, Locks, TargetStage, Start
  <1>18. CASE GiveTargetBack
    <2>1. Strays' \subseteq Strays
      BY <1>18, Homes DEF GiveTargetBack, Abandon, Strays, TypeOK, BrokerType
    <2> QED
      BY <1>18, <2>1 DEF GiveTargetBack, scanVars, CreditStage, NoCredit, Start
  <1>19. CASE Unregister
    BY <1>19 DEF Unregister, request, scanVars, srcVars, wireVars,
                 CreditStage, NoCredit, Strays, NoReceipt, Before, Locks,
                 TargetStage, Start
  <1>20. CASE Unregistered
    BY <1>20 DEF Unregistered, request, scanVars, renewVars, srcVars,
                 wireVars, CreditStage, NoCredit, Strays, NoReceipt, Before,
                 Locks, TargetStage, Start
  <1>21. CASE StopRenewer
    BY <1>21 DEF StopRenewer, request, scanVars, srcVars, wireVars,
                 CreditStage, NoCredit, Strays, NoReceipt, Before, Locks,
                 TargetStage, Start
  <1>22. CASE RenewerStopped
    BY <1>22 DEF RenewerStopped, request, scanVars, renewVars, srcVars,
                 wireVars, CreditStage, NoCredit, Strays, NoReceipt, Before,
                 Locks, TargetStage, Start
  <1>23. CASE ReleaseHeld
    <2>1. Strays' \subseteq Strays
      BY <1>23, Homes DEF ReleaseHeld, Abandon, Strays, TypeOK, BrokerType
    <2> QED
      BY <1>23, <2>1 DEF ReleaseHeld, scanVars, CreditStage, NoCredit, Start
  <1>24. CASE Released
    BY <1>24 DEF Released, request, scanVars, renewVars, srcVars, wireVars,
                 CreditStage, NoCredit, Strays, NoReceipt, Before, Locks,
                 TargetStage, Start
  <1>25. CASE HandlerReturns
    BY <1>25 DEF HandlerReturns, request, scanVars, renewVars, srcVars,
                 wireVars, CreditStage, NoCredit, Strays, NoReceipt, Before,
                 Locks, TargetStage, Start
  <1>26. CASE RenewNext
    BY <1>26 DEF RenewNext, request, scanVars, srcVars, wireVars,
                 handlerVars, CreditStage, NoCredit, Strays, NoReceipt,
                 Before, Locks, TargetStage, Start
  <1>27. CASE RenewReturns
    BY <1>27 DEF RenewReturns, request, scanVars, srcVars, wireVars,
                 handlerVars, CreditStage, NoCredit, Strays, NoReceipt,
                 Before, Locks, TargetStage, Start
  <1>28. CASE RenewFails
    BY <1>28 DEF RenewFails, request, scanVars, srcVars, wireVars,
                 handlerVars, CreditStage, NoCredit, Strays, NoReceipt,
                 Before, Locks, TargetStage, Start
  <1>29. CASE RenewerGivesUp
    BY <1>29 DEF RenewerGivesUp, request, scanVars, srcVars, wireVars,
                 handlerVars, CreditStage, NoCredit, Strays, NoReceipt,
                 Before, Locks, TargetStage, Start
  <1>30. CASE Tick
    BY <1>30 DEF Tick, request, scanVars, srcVars, wireVars, handlerVars,
                 CreditStage, NoCredit, Strays, NoReceipt, Before, Locks,
                 TargetStage, Start
  <1>31. CASE RenewerQuits
    BY <1>31 DEF RenewerQuits, request, scanVars, srcVars, wireVars,
                 handlerVars, CreditStage, NoCredit, Strays, NoReceipt,
                 Before, Locks, TargetStage, Start
  <1>32. CASE Stop
    BY <1>32 DEF Stop, request, scanVars, renewVars, srcVars, wireVars,
                 handlerVars, CreditStage, NoCredit, Strays, NoReceipt,
                 Before, Locks, TargetStage, Start
  <1>33. CASE BrokerAccepts
    BY <1>33 DEF BrokerAccepts, request, scanVars, renewVars, srcVars,
                 handlerVars, CreditStage, NoCredit, Strays, NoReceipt,
                 Before, Locks, TargetStage, Start
  <1>34. CASE BrokerRemoves
    <2>1. Strays' \subseteq Strays
      BY <1>34, Homes DEF BrokerRemoves, NoReceipt, Strays, TypeOK, BrokerType
    <2> QED
      BY <1>34, <2>1 DEF BrokerRemoves, scanVars, handlerVars, CreditStage, NoCredit, Start
  <1>35. CASE LockExpires
    BY <1>35 DEF LockExpires, request, scanVars, renewVars, wireVars,
                 handlerVars, Home, CreditStage, NoCredit, Strays, NoReceipt,
                 Before, Locks, TargetStage, Start
  <1>36. CASE OtherReceiver
    <2>1. Strays' \subseteq Strays
      BY <1>36, Homes DEF OtherReceiver, NoReceipt, Strays, TypeOK, BrokerType
    <2> QED
      BY <1>36, <2>1 DEF OtherReceiver, scanVars, handlerVars, CreditStage, NoCredit, Start
  <1>37. CASE LeftoverCreditCatches
    BY <1>37 DEF LeftoverCreditCatches, request, scanVars, renewVars,
                 wireVars, handlerVars, CreditStage, NoCredit, Strays,
                 NoReceipt, Before, Locks, TargetStage, Start
  <1>38. CASE SessionRenewFails
    BY <1>38 DEF SessionRenewFails, request, scanVars, renewVars, srcVars,
                 wireVars, handlerVars, CreditStage, NoCredit, Strays,
                 NoReceipt, Before, Locks, TargetStage, Start
  <1>39. CASE UNCHANGED vars
    BY <1>39
       DEF vars, request, handlerVars, scanVars, renewVars, srcVars,
           wireVars, CreditStage, NoCredit, Strays, NoReceipt, Before, Locks,
           TargetStage, Start
  <1> QED
    BY <1>1, <1>2, <1>3, <1>4, <1>5, <1>6, <1>7, <1>8, <1>9, <1>10, <1>11,
       <1>12, <1>13, <1>14, <1>15, <1>16, <1>17, <1>18, <1>19, <1>20, <1>21,
       <1>22, <1>23, <1>24, <1>25, <1>26, <1>27, <1>28, <1>29, <1>30, <1>31,
       <1>32, <1>33, <1>34, <1>35, <1>36, <1>37, <1>38,
       <1>39 DEF Next, Handler, Resolve, Scan, Act, CleanUp, Renewal,
       Environment, Ended

-----------------------------------------------------------------------------
(* The theorems.                                                           *)

\* The invariant holds when the handler starts.
LEMMA Initially == Init => IInv
  <1> SUFFICES ASSUME Init PROVE IInv
    OBVIOUS
  <1>1. TypeOK
    <2>1. NewTracker \in [SourceModes -> SourceOutcome]
      BY DEF NewTracker, ZeroOutcome, SourceOutcome
    <2>2. received \in Seq(Messages) /\ Len(received) = 0
      BY DEF Init
    <2>3. RunType /\ ScanType
      <3>1. RunType
        BY DEF Init, RunType
      <3>2. ScanType
        <4>1. known \in BOOLEAN /\ recvErr \in BOOLEAN /\ idle = 0
          BY DEF Init
        <4> QED
          BY <2>2, <4>1, ScanAssumption DEF ScanType
      <3> QED
        BY <3>1, <3>2
    <2>4. HandlerType
      BY <2>1, <2>2 DEF Init, HandlerType, Phases, NoReceipt
    <2>5. RenewerType
      <3>1. rstate = "off" /\ round = {} /\ renewing = 0 /\ registered = {}
        BY DEF Init, NoReceipt
      <3>2. rerr \in BOOLEAN /\ rcancelled \in BOOLEAN
        BY DEF Init
      <3> QED
        BY <2>2, <3>1, <3>2 DEF RenewerType
    <2>6. BrokerType
      <3>1. place \in [Messages -> Places]
        BY DEF Init, Places
      <3> QED
        BY <2>2, <3>1, ScanAssumption DEF Init, BrokerType, NoReceipt
    <2> QED
      BY <2>3, <2>4, <2>5, <2>6 DEF TypeOK
  <1>2. Ledger
    <2>1. Tracked(0, 0, 0, 0)
      BY DEF Init, Tracked, NewTracker, ZeroOutcome, SourceModes
    <2> QED
      BY <2>1 DEF Init, Ledger, Untouched, Before, After
  <1>3. Locks
    BY DEF Init, Locks, Kept, TargetStage, NoReceipt
  <1>4. RenewerStage /\ CreditStage /\ Start
    BY DEF Init, RenewerStage, CreditStage, NoCredit, Strays, Start, NoReceipt
  <1> QED
    BY <1>1, <1>2, <1>3, <1>4 DEF IInv

\* ... and always.
LEMMA Inductive == Spec => []IInv
  <1>1. IInv /\ [Next]_vars => IInv'
    BY NextType, NextLedger, NextLocks, NextRenewer, NextCredit DEF IInv
  <1> QED
    BY Initially, <1>1, PTL DEF Spec

\* Every variable of a run keeps its type: counters of the tracker stay integers,
\* receipts stay those received, and no more than the budget is received.
THEOREM TypeCorrect == Spec => []TypeOK
  <1>1. IInv => TypeOK
    BY DEF IInv
  <1> QED
    BY Inductive, <1>1, PTL

\* A message that is not the one the user saw is neither sent nor removed,
\* whether or not the peek noticed.
THEOREM WrongMessageKept == Spec => []WrongMessageUntouched
  <1>1. IInv => WrongMessageUntouched
    BY
       DEF IInv, TypeOK, HandlerType, Phases, Ledger, Untouched, OpenSend,
           Accepted, OpenRemoval,
           Done, Before, After, WrongMessageUntouched, Removed
  <1> QED
    BY Inductive, <1>1, PTL

\* A moved or replayed message leaves its source only after the destination
\* accepted it.
THEOREM RemovalFollowsSend == Spec => []RemovedOnlyIfAccepted
  <1>1. IInv => RemovedOnlyIfAccepted
    BY
       DEF IInv, TypeOK, HandlerType, Phases, Ledger, Untouched, OpenSend,
           Accepted, OpenRemoval,
           Done, Asked, Before, After, RemovedOnlyIfAccepted, Removed
  <1> QED
    BY Inductive, <1>1, PTL

\* What the tracker holds is what its snapshot says: one run records under one
\* source only.
LEMMA SnapshotOf ==
    ASSUME NEW a \in Int, NEW b \in Int, NEW x \in Int, NEW y \in Int, Tracked(a, b, x, y)
    PROVE  /\ Snapshot(tracker).Sent = a
           /\ Snapshot(tracker).Settled = b
           /\ Snapshot(tracker).SendUnconfirmed = x
           /\ Snapshot(tracker).SettlementUnconfirmed = y
  BY DEF Tracked, Snapshot, ZeroOutcome

\* The four shapes of the ledger, as the snapshot shows them.
LEMMA LedgerSnapshot ==
    ASSUME TypeOK, Ledger
    PROVE  LET c == Snapshot(tracker) IN
           /\ c.Sent \in 0..1 /\ c.Settled \in 0..1
           /\ c.SendUnconfirmed \in 0..1 /\ c.SettlementUnconfirmed \in 0..1
           /\ c.Sent =< delivered /\ delivered =< c.Sent + c.SendUnconfirmed
           /\ c.Settled =< Removed /\ Removed =< c.Settled + c.SettlementUnconfirmed
           /\ phase \in After /\ err = {} => Done
           /\ phase \in After => \/ c.Sent =< c.Settled + c.SettlementUnconfirmed
                                 \/ rerr \/ ~req.transfer
  <1>1. Asked \in 0..1 /\ (Asked = 1 <=> req.transfer) /\ delivered \in 0..1
    BY DEF Asked, TypeOK, BrokerType
  <1> DEFINE c == Snapshot(tracker)
             Bounds == /\ c.Sent \in 0..1 /\ c.Settled \in 0..1
                       /\ c.SendUnconfirmed \in 0..1 /\ c.SettlementUnconfirmed \in 0..1
                       /\ c.Sent =< delivered /\ delivered =< c.Sent + c.SendUnconfirmed
                       /\ c.Settled =< Removed /\ Removed =< c.Settled + c.SettlementUnconfirmed
  <1>2. ASSUME Untouched PROVE Bounds
    BY <1>1, <1>2, SnapshotOf DEF Untouched, Removed
  <1>3. ASSUME OpenSend PROVE Bounds
    BY <1>1, <1>3, SnapshotOf DEF OpenSend, Removed
  <1>4. ASSUME Accepted PROVE Bounds
    BY <1>1, <1>4, SnapshotOf DEF Accepted, Removed
  <1>5. ASSUME OpenRemoval PROVE Bounds
    BY <1>1, <1>5, SnapshotOf DEF OpenRemoval, Removed
  <1>6. ASSUME Done PROVE Bounds
    BY <1>1, <1>6, SnapshotOf DEF Done, Removed
  <1>7. Untouched \/ OpenSend \/ Accepted \/ OpenRemoval \/ Done
    BY DEF TypeOK, HandlerType, Phases, Ledger, Before, After
  <1>8. Bounds
    BY <1>2, <1>3, <1>4, <1>5, <1>6, <1>7
  <1>9. phase \in After => Untouched \/ OpenSend \/ OpenRemoval \/ rerr \/ Done
    BY DEF Ledger
  <1>10. Untouched \/ OpenSend => c.Sent = 0
    BY SnapshotOf DEF Untouched, OpenSend
  <1>11. OpenRemoval => c.Sent = c.SettlementUnconfirmed \/ ~req.transfer
    BY <1>1, SnapshotOf DEF OpenRemoval
  <1>12. Done => c.Sent =< c.Settled
    BY <1>1, SnapshotOf DEF Done
  <1>13. phase \in After /\ err = {} => Done
    BY DEF Ledger
  <1> QED
    BY <1>8, <1>9, <1>10, <1>11, <1>12, <1>13

\* The counters bound what the broker did, late effects included, and are exact
\* unless the status says unknown.
THEOREM ReportIsHonest == Spec => []ReportHolds
  <1>1. ASSUME IInv PROVE ReportHolds
    <2> DEFINE c == Snapshot(tracker)
    <2>1. /\ c.Sent \in 0..1 /\ c.Settled \in 0..1
          /\ c.SendUnconfirmed \in 0..1 /\ c.SettlementUnconfirmed \in 0..1
          /\ c.Sent =< delivered /\ delivered =< c.Sent + c.SendUnconfirmed
          /\ c.Settled =< Removed /\ Removed =< c.Settled + c.SettlementUnconfirmed
          /\ phase \in After /\ err = {} => Done
          /\ delivered \in 0..1 /\ Removed \in 0..1
      BY <1>1, LedgerSnapshot DEF IInv, TypeOK, BrokerType, Removed
    <2>2. ASSUME phase = "ended", Status # "unknown" PROVE c.Sent = delivered /\ c.Settled = Removed
      <3>1. CASE err = {}
        <4>1. Done /\ Asked \in 0..1
          BY <2>1, <2>2, <3>1 DEF After, Asked
        <4> QED
          BY <4>1, SnapshotOf DEF Done, Removed
      <3>2. CASE err # {}
        <4>1. ~Unresolved(c)
          BY <2>2, <3>2 DEF Status, FinishStatus, Result
        <4>2. c.SendUnconfirmed = 0 /\ c.SettlementUnconfirmed = 0
          BY <2>1, <4>1 DEF Unresolved
        <4> QED
          BY <2>1, <4>2
      <3> QED
        BY <3>1, <3>2
    <2> QED
      BY <2>1, <2>2 DEF ReportHolds
  <1> QED
    BY Inductive, <1>1, PTL

\* An acknowledged transfer goes on to its removal unless a renewal failed.
THEOREM TransferIsFinished == Spec => []AcceptedIsSettled
  <1>1. IInv => AcceptedIsSettled
    BY LedgerSnapshot DEF IInv, After, AcceptedIsSettled
  <1> QED
    BY Inductive, <1>1, PTL

\* A transfer is never left half done: the two theorems together.
THEOREM TransferKeptWhole == Spec => []TransferIsWhole
  <1>1. RemovedOnlyIfAccepted /\ AcceptedIsSettled => TransferIsWhole
    BY DEF TransferIsWhole
  <1> QED
    BY <1>1, RemovalFollowsSend, TransferIsFinished, PTL

\* A run that reports success did what was asked and keeps no lock.
THEOREM SuccessIsTrue == Spec => []SuccessMeansDone
  <1>1. ASSUME IInv, phase = "ended", err = {}
        PROVE  /\ Removed = 1 /\ (req.transfer => delivered = 1)
               /\ \A m \in Messages : place[m] # "ours"
    <2>1. Done
      BY <1>1, LedgerSnapshot DEF IInv, After
    <2>2. held = {} /\ place[Target] = "gone"
      BY <1>1, <2>1 DEF IInv, Locks, TargetStage, Done
    <2>3. ASSUME NEW m \in Messages PROVE place[m] # "ours"
      <3>1. place[m] = "ours" => holder[m] = target /\ holder[m] # NoReceipt /\ received[holder[m]] = m
        BY <1>1, <2>2 DEF IInv, Locks, Kept
      <3>2. place[m] = "ours" => m = Target
        BY <1>1, <3>1 DEF IInv, Locks, TargetStage
      <3> QED
        BY <2>2, <3>2
    <2> QED
      BY <2>1, <2>3 DEF Done, Asked, Removed
  <1>2. IInv => SuccessMeansDone
    BY <1>1 DEF SuccessMeansDone
  <1> QED
    BY Inductive, <1>2, PTL

\* The renewer is over when the held messages are given back, and done with the
\* target before the cleanup begins.
THEOREM RenewerIsQuiet == Spec => []RenewerQuiet
  <1>1. IInv => RenewerQuiet
    BY DEF IInv, RenewerStage, RenewerQuiet
  <1> QED
    BY Inductive, <1>1, PTL

\* While a target known to exist is acted on the link catches nothing else.
THEOREM NothingCaught == Spec => []NoStrayCapture
  <1>1. IInv => NoStrayCapture
    BY DEF IInv, CreditStage, NoCredit, NoStrayCapture
  <1> QED
    BY Inductive, <1>1, PTL

=============================================================================
