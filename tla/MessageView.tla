---------------------------- MODULE MessageView ----------------------------
(***************************************************************************)
(* The message list of the interface: selection of a queue, Browse and     *)
(* Load More with a cursor per source and a cap, and the operations on the *)
(* messages shown (src/components/Explorer/Toolbar.tsx, MessageGrid.tsx,   *)
(* MessageContextMenu.tsx, PropertiesPanel.tsx, MoveMessagesModal.tsx,     *)
(* src/store/messageSlice.ts and their part of src/store/appStore.ts).     *)
(*                                                                         *)
(* One call to peek and any number of operations are in flight while the   *)
(* user goes on selecting; their answers meet whatever is on display then. *)
(* useScript's locks are those of OperationLifecycle, reduced to what      *)
(* decides which operations may run.                                       *)
(***************************************************************************)
EXTENDS Naturals, Sequences, FiniteSets

CONSTANTS
    Conns, Names, \* connections, and queue names, the same in every namespace
    Modes,      \* the peek modes used: "normal", "dlq", "both"
    Content,    \* the messages at the broker at the start
    LastSeq,    \* the last sequence number given before
    Page,       \* peekCount
    Cap,        \* MAX_LOADED_MESSAGES
    MaxSeq,     \* MAX_SEQUENCE_NUMBER
    MaxSwitches, MaxPeeks, MaxRuns, \* bounds of the model
    None

Places == Conns \X Names

\* A message: where it is, in the dead-letter queue or not, its number there,
\* and the replay that sent it (BusmanReplayRunId), 0 if none did.
Msg == [at : Places, dlq : BOOLEAN, seq : 1..MaxSeq, run : Nat]

ASSUME ViewAssumption ==
    /\ Modes \subseteq {"normal", "dlq", "both"}
    /\ MaxSeq \in Nat \ {0} /\ LastSeq \in 0..MaxSeq
    /\ Content \subseteq Msg /\ IsFiniteSet(Content)
    /\ \A m \in Content : m.run = 0 /\ m.seq <= LastSeq
    /\ Page \in Nat \ {0} /\ Cap \in Nat \ {0}
    /\ MaxSwitches \in Nat /\ MaxPeeks \in Nat /\ MaxRuns \in Nat
    /\ None \notin Conns \cup Names \cup Places \cup Msg

VARIABLES
    conn, gen, sel, \* activeConnectionId, connectionGeneration, explorerSelection
    list,       \* peekMessages
    browsed,    \* hasBrowsed
    cursor,     \* lastPeekNormalMaxSeqNum and lastPeekDlqMaxSeqNum, 0 for null
    full,       \* messageBudgetReached
    selected,   \* selectedMessage
    torn,       \* history: the list was emptied while its Load More was in flight
    menu,       \* messageContextMenu
    move,       \* the mounted MoveMessagesModal for one message, what it captured
    pending,    \* pendingMessageOperations: the run on a source and number
    runs,       \* activeOperationRuns: the logged runs that are not over
    log,        \* eventLog, oldest entry first
    request,    \* the call to peek in flight
    world,      \* the messages at the broker
    stamp,      \* the last sequence number given
    peeks \* how often the user browsed

placeVars == <<conn, gen, sel>>
viewVars == <<list, browsed, cursor, full, selected, torn>>
menuVars == <<menu, move>>
runVars == <<pending, runs, log>>
peekVars == <<request, peeks>>
brokerVars == <<world, stamp>>
vars == <<placeVars, viewVars, menuVars, runVars, peekVars, brokerVars>>

Key(m) == <<m.dlq, m.seq>>
Keys == BOOLEAN \X (1..MaxSeq)

\* The call in flight: what it reads and from which number, with Load More in
\* mode "both" the number where its second call will begin; its answer.
Requests == [kind : {"browse", "more"}, at : Places, gen : Nat, mode : {"normal", "dlq", "both"},
             from : Nat, then : Nat, read : BOOLEAN, found : SUBSET Msg]
Captured == [msg : Msg, at : Places \cup {None}, gen : Nat]
Entries == [op : {"Delete", "Replay", "Move", "Bulk"}, msg : Msg \cup {None},
            conn : Conns, at : Places \cup {None}, gen : Nat, done : BOOLEAN,
            status : {"running", "success", "error", "unknown"}, reviewed : BOOLEAN,
            returned : BOOLEAN]

TypeOK ==
    /\ conn \in Conns \cup {None} /\ gen \in Nat /\ sel \in Names \cup {None}
    /\ list \subseteq Msg /\ browsed \in BOOLEAN
    /\ cursor \in [BOOLEAN -> 0..MaxSeq]
    /\ full \in BOOLEAN
    /\ selected \in Msg \cup {None} /\ torn \in BOOLEAN
    /\ menu \in Msg \cup {None} /\ move \in Captured \cup {None}
    /\ pending \in [Keys -> Nat]
    /\ runs \subseteq DOMAIN log
    /\ log \in Seq(Entries)
    /\ request \in Requests \cup {None}
    /\ world \subseteq Msg /\ stamp \in 0..MaxSeq
    /\ peeks \in Nat

\* The store as it is created.
Init ==
    /\ conn = None /\ gen = 0 /\ sel = None
    /\ list = {} /\ browsed = FALSE
    /\ cursor = [d \in BOOLEAN |-> 0] /\ full = FALSE
    /\ selected = None /\ torn = FALSE
    /\ menu = None /\ move = None
    /\ pending = [k \in Keys |-> 0] /\ runs = {} /\ log = <<>>
    /\ request = None
    /\ world = Content /\ stamp = LastSeq
    /\ peeks = 0

\* The queue on display, if there is one.
Here == IF conn = None \/ sel = None THEN None ELSE <<conn, sel>>

-----------------------------------------------------------------------------
(* What the views offer.                                                   *)

\* No dialog covers the window.
InWindow == move = None

\* A bulk operation is running (isRunning).
BulkRuns == \E i \in runs : log[i].op = "Bulk"

Busy == request # None \/ runs # {}

CanBrowse == InWindow /\ sel # None /\ ~Busy

\* Load More is shown beside a list, and enabled when a source can go on.
HasNext(d) == cursor[d] \in 1..(MaxSeq - 1)
CanLoadMore(mode) ==
    /\ InWindow /\ sel # None /\ ~Busy
    /\ list # {} /\ ~full
    /\ CASE mode = "normal" -> HasNext(FALSE)
         [] mode = "dlq" -> HasNext(TRUE)
         [] mode = "both" -> HasNext(FALSE) \/ HasNext(TRUE)
                             \/ \E d \in BOOLEAN : cursor[d] = 0 /\ cursor[~d] # 0

IsPending(m) == pending[Key(m)] # 0

\* Rows that answer to the mouse: any message of the list may be on the page
\* that is displayed.
Rows == {m \in list : ~IsPending(m)}

\* The items of the context menu that change something.
CanOperate == menu # None /\ menu.dlq /\ ~IsPending(menu)

CanResend == InWindow /\ selected # None /\ ~IsPending(selected) /\ ~BulkRuns

\* The move dialog no longer submits once the connection has changed.
CanSubmit == move # None /\ move.gen = gen /\ ~BulkRuns /\ ~IsPending(move.msg)

-----------------------------------------------------------------------------
(* The list.                                                               *)

\* clearPeekResults, and the list's part of resetGridState.
ClearList ==
    /\ list' = {} /\ browsed' = FALSE /\ selected' = None
    /\ cursor' = [d \in BOOLEAN |-> 0] /\ full' = FALSE
    /\ torn' = (torn \/ (request # None /\ request.kind = "more"))

ResetGrid == ClearList /\ pending' = [k \in Keys |-> 0]

\* findMessageReplay: the successful replay of this queue that sent a message
\* which is dead-lettered again, in the log L.
ReturnedFrom(m, L) ==
    {i \in DOMAIN L : /\ m.dlq /\ m.run = i
                      /\ L[i].op = "Replay" /\ L[i].status = "success"
                      /\ L[i].conn = conn /\ L[i].at # None /\ L[i].at = Here}

\* observeReplayReturns
Observed(S, L) ==
    [i \in DOMAIN L |-> IF \E m \in S : i \in ReturnedFrom(m, L)
                        THEN [L[i] EXCEPT !.returned = TRUE] ELSE L[i]]

\* The order of an answer: the entity's own messages, then the dead-letter queue.
Before(n, m) == IF n.dlq = m.dlq THEN n.seq < m.seq ELSE m.dlq

\* fitMessages accepts messages until the list is full or its bytes are.
Fit(found, room) == {m \in found : Cardinality({n \in found : Before(n, m)}) < room}

\* Mutant: one cursor for both sources.
OneCursor(accepted) ==
    [d \in BOOLEAN |-> LET seqs == {m.seq : m \in accepted} \cup {cursor[d]}
                       IN  CHOOSE s \in seqs : \A t \in seqs : t <= s]

\* computeMaxSeqNums of what was accepted, and the larger of it and before.
Cursors(accepted) ==
    [d \in BOOLEAN |-> LET seqs == {m.seq : m \in {n \in accepted : n.dlq = d}} \cup {cursor[d]}
                       IN  CHOOSE s \in seqs : \A t \in seqs : t <= s]

\* setPeekResults after a Browse, which emptied the list, and appendPeekResults.
\* There is room for so many messages, by their number or by their bytes; when
\* it is used up the budget is reached.
Fill(found) ==
    \E room \in 0..(Cap - Cardinality(list)) :
        LET accepted == Fit(found, room) IN
        /\ log' = Observed(found, log)
        /\ list' = list \cup accepted
        /\ full' = (Cardinality(accepted) = room)
        /\ cursor' = Cursors(accepted)
        /\ browsed' = TRUE

-----------------------------------------------------------------------------
(* Selection.                                                              *)

\* setActiveConnectionId, when the answer to a choice of a connection arrives.
\* It closes neither the menu nor the move dialog.
SetActive(k) ==
    /\ gen < MaxSwitches
    /\ gen' = gen + 1 /\ conn' = k /\ sel' = None
    /\ ResetGrid
    /\ UNCHANGED <<menuVars, runs, log, peekVars, brokerVars>>

\* setExplorerQueue.  The menu is closed by the mouse; when the tree is used
\* from the keyboard it stays.
Select(e) ==
    /\ InWindow /\ conn # None /\ e # sel
    /\ sel' = e
    /\ ResetGrid
    /\ UNCHANGED <<conn, gen, menuVars, runs, log, peekVars, brokerVars>>

\* The end of a deletion that was begun on the selected entity: what is
\* selected by then is deselected.
EntityGone ==
    /\ sel # None
    /\ sel' = None
    /\ ClearList
    /\ UNCHANGED <<conn, gen, menuVars, runVars, peekVars, brokerVars>>

\* The button "clear loaded" above the list.
ClearLoaded ==
    /\ InWindow /\ browsed
    /\ ClearList
    /\ UNCHANGED <<placeVars, menuVars, runVars, peekVars, brokerVars>>

\* A row is clicked; a second click deselects it.
SelectMessage(m) ==
    /\ InWindow /\ m \in Rows
    /\ selected' = (IF selected = m THEN None ELSE m)
    /\ UNCHANGED <<placeVars, list, browsed, cursor, full, torn, menuVars, runVars, peekVars, brokerVars>>

OpenMenu(m) ==
    /\ InWindow /\ m \in Rows
    /\ menu' = m
    /\ UNCHANGED <<placeVars, viewVars, move, runVars, peekVars, brokerVars>>

CloseMenu ==
    /\ menu # None
    /\ menu' = None
    /\ UNCHANGED <<placeVars, viewVars, move, runVars, peekVars, brokerVars>>

-----------------------------------------------------------------------------
(* Browse and Load More.                                                   *)

Call(kind, mode, from, then) ==
    [kind |-> kind, at |-> Here, gen |-> gen, mode |-> mode, from |-> from, then |-> then,
     read |-> FALSE, found |-> {}]

\* handleBrowse: the list is emptied when the call starts.
Browse(mode) ==
    /\ CanBrowse /\ Here # None
    /\ peeks < MaxPeeks /\ peeks' = peeks + 1
    /\ request' = Call("browse", mode, 1, 1)
    /\ list' = {} /\ browsed' = FALSE /\ selected' = None
    /\ cursor' = [d \in BOOLEAN |-> 0] /\ full' = FALSE /\ torn' = FALSE
    /\ UNCHANGED <<placeVars, menuVars, runVars, brokerVars>>

\* handleLoadMore: with mode "both" one call for each source that can go on,
\* from the cursors of this moment.
LoadMore(mode) ==
    /\ CanLoadMore(mode) /\ Here # None
    /\ peeks < MaxPeeks /\ peeks' = peeks + 1
    /\ request' = (CASE mode = "normal" -> Call("more", "normal", cursor[FALSE] + 1, 0)
                     [] mode = "dlq" -> Call("more", "dlq", cursor[TRUE] + 1, 0)
                     [] mode = "both" ->
                          IF cursor[FALSE] < MaxSeq
                          THEN Call("more", "both", cursor[FALSE] + 1, cursor[TRUE] + 1)
                          ELSE Call("more", "dlq", cursor[TRUE] + 1, 0))
    /\ UNCHANGED <<placeVars, viewVars, menuVars, runVars, brokerVars>>

\* The first messages of a source from a number on.
Peek(p, d, from) ==
    LET there == {m \in world : m.at = p /\ m.dlq = d /\ m.seq >= from}
    IN  {m \in there : Cardinality({n \in there : n.seq < m.seq}) < Page}

\* The worker peeks, at some moment before the answer.
PeekAtBroker ==
    /\ request # None /\ ~request.read
    /\ LET normal == IF request.mode = "dlq" THEN {} ELSE Peek(request.at, FALSE, request.from)
           dead == IF request.mode = "dlq" \/ (request.mode = "both" /\ request.kind = "browse")
                   THEN Peek(request.at, TRUE, request.from) ELSE {}
       IN  request' = [request EXCEPT !.read = TRUE, !.found = normal \cup dead]
    /\ UNCHANGED <<placeVars, viewVars, menuVars, runVars, peeks, brokerVars>>

\* Mutant: whatever is on display is filled.
AlwaysCurrent(r) == Here # None

\* isCurrentRequest
IsCurrent(r) == r.gen = gen /\ r.at = Here

\* Load More in mode "both" goes on with the dead-letter queue.
Second(r) == r.kind = "more" /\ r.mode = "both" /\ r.then <= MaxSeq

\* The answer is filled in if it is about what is on display.
PeekAnswered ==
    /\ request # None /\ request.read
    /\ IF IsCurrent(request)
       THEN /\ Fill(request.found)
            /\ request' = (IF Second(request)
                           THEN [request EXCEPT !.mode = "dlq", !.from = request.then,
                                                !.read = FALSE, !.found = {}]
                           ELSE None)
       ELSE request' = None /\ UNCHANGED <<list, browsed, cursor, full, log>>
    /\ UNCHANGED <<placeVars, selected, torn, menuVars, pending, runs, peeks, brokerVars>>

\* The call fails: an error is shown, the list stays.
PeekFails ==
    /\ request # None
    /\ request' = None
    /\ UNCHANGED <<placeVars, viewVars, menuVars, runVars, peeks, brokerVars>>

-----------------------------------------------------------------------------
(* Operations on messages.                                                 *)

\* What runOperation refuses, for an operation on message m of place p, or a
\* bulk operation (m = None).
Blocked(k, p, m) ==
    \/ \E i \in DOMAIN log : log[i].status = "unknown" /\ ~log[i].reviewed /\ log[i].conn = k
    \/ BulkRuns
    \/ m = None /\ (runs # {} \/ \E key \in Keys : pending[key] # 0)
    \/ m # None /\ \E i \in runs : /\ log[i].conn = k /\ log[i].at = p
                                   /\ log[i].msg # None /\ Key(log[i].msg) = Key(m)

\* The handlers log the operation, mark the message and call runOperation.  A
\* refusal is logged as an error; one may also come from the watchdog of
\* another run, which OperationLifecycle models.
Begin(op, k, p, m) ==
    LET entry == [op |-> op, msg |-> m, conn |-> k, at |-> p, gen |-> gen, done |-> FALSE,
                  status |-> "running", reviewed |-> FALSE, returned |-> FALSE]
        i == Len(log) + 1
    IN  /\ Len(log) < MaxRuns
        /\ \/ /\ ~Blocked(k, p, m)
              /\ log' = Append(log, entry)
              /\ runs' = runs \cup {i}
              /\ pending' = (IF m = None THEN pending ELSE [pending EXCEPT ![Key(m)] = i])
           \/ /\ Blocked(k, p, m) \/ runs # {}
              /\ log' = Append(log, [entry EXCEPT !.status = "error"])
              /\ UNCHANGED <<runs, pending>>

\* The menu's Delete and Replay, confirmed: the message of the menu in the
\* queue that is selected by then.
Confirm(op) ==
    /\ CanOperate /\ conn # None /\ ~BulkRuns
    /\ Begin(op, conn, Here, menu)
    /\ menu' = None
    /\ UNCHANGED <<placeVars, viewVars, move, peekVars, brokerVars>>

\* The button of the properties panel: handleResend.
Resend ==
    /\ CanResend /\ Here # None
    /\ Begin("Replay", conn, Here, selected)
    /\ UNCHANGED <<placeVars, viewVars, menuVars, peekVars, brokerVars>>

\* The menu's Move opens the dialog, which captures what it is about.
OpenMove ==
    /\ CanOperate
    /\ menu' = None
    /\ move' = [msg |-> menu, at |-> Here, gen |-> gen]
    /\ UNCHANGED <<placeVars, viewVars, runVars, peekVars, brokerVars>>

CloseMove ==
    /\ move # None
    /\ move' = None
    /\ UNCHANGED <<placeVars, viewVars, menu, runVars, peekVars, brokerVars>>

\* handleMove
Move ==
    /\ CanSubmit /\ conn # None
    /\ Begin("Move", conn, move.at, move.msg)
    /\ move' = None
    /\ UNCHANGED <<placeVars, viewVars, menu, peekVars, brokerVars>>

\* The toolbar's operations on all messages of the queue.
Bulk ==
    /\ CanBrowse /\ Here # None
    /\ Begin("Bulk", conn, Here, None)
    /\ UNCHANGED <<placeVars, viewVars, menuVars, peekVars, brokerVars>>

\* The worker carries the operation out, on the message it was asked for and no
\* other (SingleMessage); a replay may leave the original behind.
WorkerActs(i) ==
    LET e == log[i] IN
    /\ i \in runs /\ e.op # "Bulk" /\ ~e.done
    /\ e.msg \in world /\ e.msg.at = e.at
    /\ \/ /\ e.op # "Replay"
          /\ world' = world \ {e.msg} /\ log' = [log EXCEPT ![i].done = TRUE]
          /\ UNCHANGED stamp
       \/ /\ e.op = "Replay" /\ stamp < MaxSeq
          /\ stamp' = stamp + 1
          /\ LET copy == [at |-> e.at, dlq |-> FALSE, seq |-> stamp + 1, run |-> i] IN
             \/ world' = (world \ {e.msg}) \cup {copy} /\ log' = [log EXCEPT ![i].done = TRUE]
             \/ world' = world \cup {copy} /\ UNCHANGED log
    /\ UNCHANGED <<placeVars, viewVars, menuVars, pending, runs, peekVars>>

\* A bulk run takes a message away or sends it back into its queue.
WorkerTakes(i, m) ==
    /\ i \in runs /\ log[i].op = "Bulk"
    /\ m \in world /\ m.at = log[i].at
    /\ \/ world' = world \ {m} /\ UNCHANGED stamp
       \/ /\ m.dlq /\ stamp < MaxSeq
          /\ stamp' = stamp + 1
          /\ world' = (world \ {m}) \cup {[m EXCEPT !.dlq = FALSE, !.seq = stamp + 1]}
    /\ UNCHANGED <<placeVars, viewVars, menuVars, runVars, peekVars>>

\* Mutant: contextCurrent is not looked at.
AlwaysInContext(e) == TRUE

\* contextCurrent of runOperation's result.
InContext(e) == e.gen = gen /\ (e.at = None \/ e.at = Here)

\* Mutant: the list on display is not looked at when a run ends.
SettledUnobserved(i, status) == [log EXCEPT ![i].status = status]

\* recordOperationOutcome and updateEventLogEntry.
Settled(i, status) ==
    LET L == [log EXCEPT ![i].status = status]
    IN  IF status = "success" THEN Observed(list, L) ELSE L

\* The end of a run.  After a success the message leaves the list that is on
\* display, if that is still the one it was chosen from.
Finish(i, status) ==
    /\ i \in runs
    /\ status = "success" /\ log[i].op # "Bulk" => log[i].done
    /\ runs' = runs \ {i}
    /\ log' = Settled(i, status)
    /\ IF log[i].op = "Bulk"
       THEN UNCHANGED <<list, selected, pending>>
       ELSE LET key == Key(log[i].msg)
                gone == status = "success" /\ InContext(log[i]) /\ \E m \in list : Key(m) = key
            IN  /\ list' = (IF gone THEN {m \in list : Key(m) # key} ELSE list)
                /\ selected' = (IF gone /\ selected # None /\ Key(selected) = key THEN None ELSE selected)
                /\ pending' = (IF pending[key] = i THEN [pending EXCEPT ![key] = 0] ELSE pending)
    /\ UNCHANGED <<placeVars, browsed, cursor, full, torn, menuVars, peekVars, brokerVars>>

\* reconcileOperation
Review(i) ==
    /\ log[i].status = "unknown" /\ ~log[i].reviewed
    /\ log' = [log EXCEPT ![i].reviewed = TRUE]
    /\ UNCHANGED <<placeVars, viewVars, menuVars, pending, runs, peekVars, brokerVars>>

\* The broker dead-letters a message; it gets a number of the other source.
DeadLetter(m) ==
    /\ m \in world /\ ~m.dlq /\ stamp < MaxSeq
    /\ stamp' = stamp + 1
    /\ world' = (world \ {m}) \cup {[m EXCEPT !.dlq = TRUE, !.seq = stamp + 1]}
    /\ UNCHANGED <<placeVars, viewVars, menuVars, runVars, peekVars>>

-----------------------------------------------------------------------------
User ==
    \/ \E k \in Conns \cup {None} : SetActive(k)
    \/ \E e \in Names : Select(e)
    \/ \E m \in list : SelectMessage(m) \/ OpenMenu(m)
    \/ \E mode \in Modes : Browse(mode) \/ LoadMore(mode)
    \/ EntityGone \/ ClearLoaded \/ CloseMenu \/ OpenMove \/ CloseMove
    \/ Confirm("Delete") \/ Confirm("Replay") \/ Resend \/ Move \/ Bulk
    \/ \E i \in DOMAIN log : Review(i)

Answer ==
    \/ PeekAnswered \/ PeekFails
    \/ \E i \in runs : \E status \in {"success", "error", "unknown"} : Finish(i, status)

Broker ==
    \/ PeekAtBroker
    \/ \E i \in runs : WorkerActs(i) \/ \E m \in world : WorkerTakes(i, m)
    \/ \E m \in world : DeadLetter(m)

Next == User \/ Answer \/ Broker

Spec == Init /\ [][Next]_vars

-----------------------------------------------------------------------------
(* Properties.                                                             *)

\* What is listed are messages of the queue that is selected, and the message
\* in the properties panel is one of them, however late the answer to a Browse
\* arrives after the user has gone on.
ListOfSelection ==
    /\ \A m \in list : m.at = Here
    /\ selected # None => selected \in list

\* Load More goes on where the list ends: no message that is still at the broker
\* is passed over between those that are listed.  The exception is a list that
\* was emptied while its Load More was in flight: it goes on in the middle.
NothingPassedOver ==
    ~torn => \A m \in list, n \in Content :
        n \in world /\ n.at = m.at /\ n.dlq = m.dlq /\ n.seq < m.seq => n \in list

SameMessage(m, n) == m.at = n.at /\ Key(m) = Key(n)

\* A message leaves the list on display only when an operation on this very
\* message has succeeded, never because one of another queue did that has the
\* same number there, or the same queue of another connection.
RemovedWereDone ==
    [][browsed /\ browsed' => \A m \in list \ list' : \E i \in DOMAIN log' :
            log'[i].status = "success" /\ log'[i].msg # None /\ SameMessage(log'[i].msg, m)]_vars

\* A replayed message that is back in the dead-letter list is reported as such
\* at its operation, in whichever order the list and the outcome came in.
ReturnSeen ==
    \A m \in list : \A i \in ReturnedFrom(m, log) : log[i].returned

=============================================================================
