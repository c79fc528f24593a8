------------------------- MODULE MessageViewProofs -------------------------
(***************************************************************************)
(* Theorems about MessageView, for any connections, queues, messages and   *)
(* sequence numbers, any page and cap.  An answer, an outcome or a         *)
(* selection may come at any moment; the invariant says what the call in   *)
(* flight, the cursors and the log still say of the list on display when   *)
(* it does.                                                                *)
(***************************************************************************)
EXTENDS MessageView, FiniteSetTheorems, SequenceTheorems, WellFoundedInduction, TLAPS

\* A message with an old number is one of those there were at the start.
Genuine(m) == m.seq <= LastSeq => m \in Content

\* Whatever is shown, captured, logged or on its way is such a message, or newer.
KnownMessages ==
    /\ \A m \in world \cup list : Genuine(m)
    /\ \A m \in {selected, menu} : m # None => Genuine(m)
    /\ move # None => Genuine(move.msg)
    /\ \A i \in DOMAIN log : log[i].msg # None => Genuine(log[i].msg)
    /\ request # None => \A m \in request.found : Genuine(m)
    /\ LastSeq <= stamp /\ IsFiniteSet(world)

\* An operation that has taken effect has taken its message from the broker.
Operations ==
    \A i \in DOMAIN log :
        /\ log[i].op # "Bulk" => log[i].msg # None
        /\ log[i].done => /\ log[i].msg # None /\ log[i].msg.at = log[i].at
                          /\ log[i].msg \in Content => log[i].msg \notin world

\* The call in flight has passed over nothing up to the last it has found.
AnswerIsWhole ==
    request # None =>
        /\ \A m \in request.found : m.at = request.at
        /\ IsFiniteSet(request.found)
        /\ request.mode = "dlq" => \A m \in request.found : m.dlq
        /\ request.mode = "normal" \/ (request.mode = "both" /\ request.kind = "more") =>
              \A m \in request.found : ~m.dlq
        /\ \A m \in request.found, n \in Content \cap world :
              n.at = request.at /\ n.dlq = m.dlq /\ n.seq \in request.from..m.seq => n \in request.found

\* It goes on where the list ends, or begins one.
GoesOn ==
    request # None =>
        /\ request.kind = "browse" => list = {} /\ cursor = [d \in BOOLEAN |-> 0] /\ request.from = 1
        /\ request.kind = "more" /\ ~torn =>
              /\ request.from = (IF request.mode = "dlq" THEN cursor[TRUE] ELSE cursor[FALSE]) + 1
              /\ request.mode = "both" => request.then = cursor[TRUE] + 1

\* The list is whole up to its cursors.
Gapless ==
    ~torn => /\ \A m \in list : m.seq <= cursor[m.dlq]
             /\ \A n \in Content \cap world : n.at = Here /\ n.seq <= cursor[n.dlq] => n \in list

ViewInv ==
    /\ TypeOK /\ ListOfSelection /\ ReturnSeen
    /\ KnownMessages /\ Operations /\ AnswerIsWhole /\ GoesOn /\ Gapless

-----------------------------------------------------------------------------
\* Sets of naturals have a least element, and bounded ones a greatest.
LEMMA Least ==
    ASSUME NEW S, S \subseteq Nat, S # {}
    PROVE  \E x \in S : \A y \in S : x <= y
<1> DEFINE R == OpToRel(<, Nat)
<1>0. IsWellFoundedOn(R, Nat)
  BY NatLessThanWellFounded
<1>1. \A x, y \in Nat : x < y => <<x, y>> \in R
  BY DEF OpToRel
<1> HIDE DEF R
<1>2. PICK x \in S : \A y \in S : ~ (<<y, x>> \in R)
  BY <1>0, WFMin
<1>3. \A y \in S : x <= y
  <2> SUFFICES ASSUME NEW y \in S PROVE x <= y
    OBVIOUS
  <2>1. x \in Nat /\ y \in Nat
    OBVIOUS
  <2>2. ~(y < x)
    BY <1>1, <1>2, <2>1
  <2> QED
    BY <2>1, <2>2
<1> QED
  BY <1>3

LEMMA Greatest ==
    ASSUME NEW N \in Nat, NEW S, S \subseteq 0..N, S # {}
    PROVE  \E x \in S : \A y \in S : y <= x
<1> DEFINE U == {u \in Nat : \A y \in S : y <= u}
<1>1. U # {} /\ U \subseteq Nat
  <2>1. N \in U
    OBVIOUS
  <2> QED
    BY <2>1
<1>2. PICK x \in U : \A u \in U : x <= u
  <2> HIDE DEF U
  <2> QED
    BY <1>1, Least
<1>3. x \in S
  <2> SUFFICES ASSUME x \notin S PROVE FALSE
    OBVIOUS
  <2>1. PICK y \in S : TRUE
    OBVIOUS
  <2>2. x > 0
    BY <2>1
  <2>3. \A z \in S : z <= x /\ z # x /\ z \in Nat
    OBVIOUS
  <2>4. x - 1 \in U
    BY <2>2, <2>3
  <2> QED
    BY <1>2, <2>4
<1> QED
  BY <1>2, <1>3

-----------------------------------------------------------------------------
\* What fits is a beginning of what was found.
LEMMA FitFacts ==
    ASSUME NEW found \in SUBSET Msg, IsFiniteSet(found), NEW room \in Nat, MaxSeq \in Nat
    PROVE  /\ Fit(found, room) \subseteq found
           /\ \A m \in Fit(found, room), n \in found :
                 n.dlq = m.dlq /\ n.seq <= m.seq => n \in Fit(found, room)
<1>1. Fit(found, room) \subseteq found
  BY DEF Fit
<1> SUFFICES ASSUME NEW m \in Fit(found, room), NEW n \in found, n.dlq = m.dlq, n.seq <= m.seq
             PROVE  n \in Fit(found, room)
  BY <1>1
<1> DEFINE Earlier(x) == {y \in found : Before(y, x)}
<1>2. /\ m \in found /\ Cardinality(Earlier(m)) < room
  BY DEF Fit
<1>3. /\ m.seq \in Nat /\ n.seq \in Nat /\ \A y \in found : y.seq \in Nat
  BY <1>1 DEF Msg
<1>4. Earlier(n) \subseteq Earlier(m)
  BY <1>3 DEF Before
<1>5. IsFiniteSet(Earlier(m))
  BY FS_Subset
<1>6. Cardinality(Earlier(n)) <= Cardinality(Earlier(m)) /\ Cardinality(Earlier(m)) \in Nat
      /\ Cardinality(Earlier(n)) \in Nat
  BY <1>4, <1>5, FS_Subset, FS_CardinalityType
<1>7. Cardinality(Earlier(n)) < room
  BY <1>2, <1>6
<1> QED
  BY <1>7 DEF Fit

\* The cursors are moved to the last message accepted of each source.
LEMMA CursorFacts ==
    ASSUME MaxSeq \in Nat, cursor \in [BOOLEAN -> 0..MaxSeq], NEW accepted \in SUBSET Msg
    PROVE  /\ Cursors(accepted) \in [BOOLEAN -> 0..MaxSeq]
           /\ \A d \in BOOLEAN :
                /\ cursor[d] <= Cursors(accepted)[d]
                /\ \/ Cursors(accepted)[d] = cursor[d]
                   \/ \E m \in accepted : m.dlq = d /\ m.seq = Cursors(accepted)[d]
           /\ \A m \in accepted : m.seq <= Cursors(accepted)[m.dlq]
<1> DEFINE Seqs(d) == {m.seq : m \in {n \in accepted : n.dlq = d}} \cup {cursor[d]}
<1> DEFINE Last(d) == CHOOSE s \in Seqs(d) : \A t \in Seqs(d) : t <= s
<1>1. ASSUME NEW d \in BOOLEAN
      PROVE  /\ Last(d) \in Seqs(d) /\ \A t \in Seqs(d) : t <= Last(d)
             /\ Seqs(d) \subseteq 0..MaxSeq
  <2>1. Seqs(d) \subseteq 0..MaxSeq
    BY DEF Msg
  <2>2. cursor[d] \in Seqs(d)
    OBVIOUS
  <2> HIDE DEF Seqs
  <2>3. \E s \in Seqs(d) : \A t \in Seqs(d) : t <= s
    BY <2>1, <2>2, Greatest
  <2> QED
    BY <2>1, <2>3
<1>2. Cursors(accepted) = [d \in BOOLEAN |-> Last(d)]
  BY DEF Cursors
<1> HIDE DEF Last
<1>3. Cursors(accepted) \in [BOOLEAN -> 0..MaxSeq]
  BY <1>1, <1>2
<1>4. \A m \in accepted : m.dlq \in BOOLEAN /\ m.seq \in Seqs(m.dlq)
  BY DEF Msg
<1>5. \A d \in BOOLEAN : Cursors(accepted)[d] = Last(d)
  BY <1>2
<1> QED
  BY <1>1, <1>3, <1>4, <1>5

\* Observing the list changes nothing of the log but that returns are noted.
LEMMA ObservedFacts ==
    ASSUME NEW L \in Seq(Entries), NEW S
    PROVE  /\ Observed(S, L) \in Seq(Entries) /\ DOMAIN Observed(S, L) = DOMAIN L
           /\ Len(Observed(S, L)) = Len(L)
           /\ \A i \in DOMAIN L :
                LET e == Observed(S, L)[i] IN
                /\ e.op = L[i].op /\ e.msg = L[i].msg /\ e.conn = L[i].conn /\ e.at = L[i].at
                /\ e.gen = L[i].gen /\ e.done = L[i].done /\ e.status = L[i].status
                /\ L[i].returned => e.returned
                /\ (\E m \in S : i \in ReturnedFrom(m, L)) => e.returned
<1> DEFINE New(i) == IF \E m \in S : i \in ReturnedFrom(m, L)
                     THEN [L[i] EXCEPT !.returned = TRUE] ELSE L[i]
<1>1. /\ DOMAIN L = 1..Len(L) /\ Len(L) \in Nat /\ \A i \in DOMAIN L : L[i] \in Entries
  BY ElementOfSeq, LenProperties
<1>2. \A i \in DOMAIN L :
          /\ New(i) \in Entries
          /\ New(i).op = L[i].op /\ New(i).msg = L[i].msg /\ New(i).conn = L[i].conn
          /\ New(i).at = L[i].at /\ New(i).gen = L[i].gen /\ New(i).done = L[i].done
          /\ New(i).status = L[i].status
          /\ L[i].returned => New(i).returned
          /\ (\E m \in S : i \in ReturnedFrom(m, L)) => New(i).returned
  <2> SUFFICES ASSUME NEW i \in DOMAIN L
               PROVE  /\ New(i) \in Entries
                      /\ New(i).op = L[i].op /\ New(i).msg = L[i].msg /\ New(i).conn = L[i].conn
                      /\ New(i).at = L[i].at /\ New(i).gen = L[i].gen /\ New(i).done = L[i].done
                      /\ New(i).status = L[i].status
                      /\ L[i].returned => New(i).returned
                      /\ (\E m \in S : i \in ReturnedFrom(m, L)) => New(i).returned
    OBVIOUS
  <2>1. L[i] \in Entries
    BY <1>1
  <2> QED
    BY <2>1 DEF Entries
<1> HIDE DEF New
<1>3. Observed(S, L) = [i \in 1..Len(L) |-> New(i)]
  BY <1>1 DEF Observed, New
<1>4. Observed(S, L) \in Seq(Entries)
  BY <1>1, <1>2, <1>3, IsASeq
<1>5. Len(Observed(S, L)) = Len(L)
  BY <1>1, <1>3, <1>4, LenProperties
<1> QED
  BY <1>1, <1>2, <1>3, <1>4, <1>5

\* Which replays a message is matched with depends on these fields only.
LEMMA SameReturns ==
    ASSUME NEW L, NEW K, NEW m, NEW i \in ReturnedFrom(m, K), i \in DOMAIN L,
           L[i].op = K[i].op, L[i].status = K[i].status, L[i].conn = K[i].conn, L[i].at = K[i].at
    PROVE  i \in ReturnedFrom(m, L)
  BY DEF ReturnedFrom

\* A new entry of the log is about the message of the operation; it is not done,
\* and not a success.
LEMMA BeginFacts ==
    ASSUME TypeOK, NEW op \in {"Delete", "Replay", "Move", "Bulk"}, NEW k \in Conns,
           NEW p \in Places \cup {None}, NEW m \in Msg \cup {None}, Begin(op, k, p, m),
           MaxSeq \in Nat
    PROVE  /\ log' \in Seq(Entries) /\ runs' \subseteq DOMAIN log'
           /\ pending' \in [Keys -> Nat]
           /\ DOMAIN log \subseteq DOMAIN log'
           /\ \A i \in DOMAIN log : log'[i] = log[i]
           /\ \A i \in DOMAIN log' : i \notin DOMAIN log =>
                 log'[i].op = op /\ log'[i].msg = m /\ ~log'[i].done /\ log'[i].status # "success"
<1> DEFINE entry == [op |-> op, msg |-> m, conn |-> k, at |-> p, gen |-> gen, done |-> FALSE,
                     status |-> "running", reviewed |-> FALSE, returned |-> FALSE]
<1> DEFINE i == Len(log) + 1
<1>1. /\ log \in Seq(Entries) /\ DOMAIN log = 1..Len(log) /\ Len(log) \in Nat
      /\ runs \subseteq DOMAIN log /\ pending \in [Keys -> Nat] /\ gen \in Nat
  BY LenProperties DEF TypeOK
<1>2. entry \in Entries /\ [entry EXCEPT !.status = "error"] \in Entries
  BY <1>1 DEF Entries
<1>3. \/ /\ log' = Append(log, entry) /\ runs' = runs \cup {i}
         /\ pending' = (IF m = None THEN pending ELSE [pending EXCEPT ![Key(m)] = i])
      \/ /\ log' = Append(log, [entry EXCEPT !.status = "error"])
         /\ UNCHANGED <<runs, pending>>
  BY DEF Begin
<1>4. pending' \in [Keys -> Nat]
  BY <1>1, <1>3
<1>5. /\ entry.op = op /\ entry.msg = m /\ ~entry.done /\ entry.status # "success"
      /\ LET e == [entry EXCEPT !.status = "error"]
         IN  e.op = op /\ e.msg = m /\ ~e.done /\ e.status # "success"
  OBVIOUS
<1>6. ASSUME NEW e \in Entries, log' = Append(log, e), runs' \subseteq runs \cup {i},
             e.op = op, e.msg = m, ~e.done, e.status # "success"
      PROVE  /\ log' \in Seq(Entries) /\ runs' \subseteq DOMAIN log'
             /\ DOMAIN log \subseteq DOMAIN log'
             /\ \A j \in DOMAIN log : log'[j] = log[j]
             /\ \A j \in DOMAIN log' : j \notin DOMAIN log =>
                   log'[j].op = op /\ log'[j].msg = m /\ ~log'[j].done /\ log'[j].status # "success"
  <2>1. /\ log' \in Seq(Entries) /\ Len(log') = Len(log) + 1
        /\ \A j \in 1..Len(log) : log'[j] = log[j]
        /\ log'[Len(log) + 1] = e
    BY <1>1, <1>6, AppendProperties
  <2>2. DOMAIN log' = 1..(Len(log) + 1)
    BY <2>1, LenProperties
  <2> QED
    BY <1>1, <1>6, <2>1, <2>2
<1> HIDE DEF entry
<1> QED
  BY <1>2, <1>3, <1>4, <1>5, <1>6

\* What a call to peek reads: messages of one source, from a number on, and none
\* that lies before one of them is missing.
LEMMA PeekFacts ==
    ASSUME MaxSeq \in Nat, world \in SUBSET Msg, IsFiniteSet(world), NEW p, NEW d, NEW from \in Nat
    PROVE  /\ Peek(p, d, from) \in SUBSET world
           /\ \A m \in Peek(p, d, from) : m.at = p /\ m.dlq = d
           /\ \A m \in Peek(p, d, from), n \in world :
                 n.at = p /\ n.dlq = d /\ n.seq \in from..m.seq => n \in Peek(p, d, from)
<1> DEFINE there == {m \in world : m.at = p /\ m.dlq = d /\ m.seq >= from}
<1> DEFINE Earlier(x) == {y \in there : y.seq < x.seq}
<1>1. Peek(p, d, from) = {m \in there : Cardinality(Earlier(m)) < Page}
  BY DEF Peek
<1> SUFFICES ASSUME NEW m \in Peek(p, d, from), NEW n \in world, n.at = p, n.dlq = d,
                    n.seq \in from..m.seq
             PROVE  n \in Peek(p, d, from)
  BY <1>1
<1>2. m \in there /\ Cardinality(Earlier(m)) < Page
  BY <1>1
<1>3. n \in there /\ n.seq <= m.seq /\ \A y \in there : y.seq \in Nat
  BY <1>2 DEF Msg
<1>4. Earlier(n) \subseteq Earlier(m)
  BY <1>2, <1>3
<1>5. IsFiniteSet(Earlier(m))
  BY FS_Subset
<1>6. Cardinality(Earlier(n)) <= Cardinality(Earlier(m)) /\ Cardinality(Earlier(m)) \in Nat
      /\ Cardinality(Earlier(n)) \in Nat
  BY <1>4, <1>5, FS_Subset, FS_CardinalityType
<1>7. Cardinality(Earlier(n)) < Page
  BY <1>2, <1>6, ViewAssumption
<1> QED
  BY <1>1, <1>3, <1>7

-----------------------------------------------------------------------------
(* The invariant, an action at a time.                                     *)

\* The list is emptied; what is selected may change with it.
LEMMA ClearKeeps ==
    ASSUME ViewInv, ViewAssumption, ClearList, conn' \in Conns \cup {None}, gen' \in Nat,
           sel' \in Names \cup {None}, pending' \in [Keys -> Nat],
           UNCHANGED <<menuVars, runs, log, peekVars, brokerVars>>
    PROVE  ViewInv'
<1>1. /\ list' = {} /\ selected' = None /\ cursor' = [d \in BOOLEAN |-> 0]
      /\ browsed' = FALSE /\ full' = FALSE
      /\ torn' = (torn \/ (request # None /\ request.kind = "more"))
      /\ MaxSeq \in Nat
  BY DEF ClearList, ViewAssumption
<1>2. TypeOK'
  <2>1. cursor' \in [BOOLEAN -> 0..MaxSeq]
    BY <1>1
  <2> QED
    BY <1>1, <2>1 DEF ViewInv, TypeOK, menuVars, peekVars, brokerVars
<1>3. ListOfSelection' /\ ReturnSeen'
  BY <1>1 DEF ListOfSelection, ReturnSeen
<1>4. KnownMessages' /\ Operations' /\ AnswerIsWhole'
  BY <1>1 DEF ViewInv, KnownMessages, Operations, AnswerIsWhole, menuVars, peekVars, brokerVars,
              Genuine
<1>5. GoesOn'
  BY <1>1 DEF ViewInv, GoesOn, peekVars
<1>6. Gapless'
  <2>1. \A n \in Content : n.dlq \in BOOLEAN /\ n.seq \in 1..MaxSeq
    BY DEF ViewAssumption, Msg
  <2>2. \A n \in Content : ~(n.seq <= cursor'[n.dlq])
    BY <1>1, <2>1
  <2> QED
    BY <1>1, <2>2 DEF Gapless
<1> QED
  BY <1>2, <1>3, <1>4, <1>5, <1>6 DEF ViewInv

\* Another connection or queue is selected, or the list is cleared.
LEMMA PlaceKeeps ==
    ASSUME ViewInv, ViewAssumption,
           \/ \E k \in Conns \cup {None} : SetActive(k)
           \/ \E e \in Names : Select(e)
           \/ EntityGone \/ ClearLoaded
    PROVE  ViewInv'
<1>t. /\ conn \in Conns \cup {None} /\ gen \in Nat /\ sel \in Names \cup {None}
      /\ pending \in [Keys -> Nat] /\ [k \in Keys |-> 0] \in [Keys -> Nat]
  BY DEF ViewInv, TypeOK
<1>1. ASSUME NEW k \in Conns \cup {None}, SetActive(k) PROVE ViewInv'
  BY <1>t, <1>1, ClearKeeps DEF SetActive, ResetGrid
<1>2. ASSUME NEW e \in Names, Select(e) PROVE ViewInv'
  BY <1>t, <1>2, ClearKeeps DEF Select, ResetGrid
<1>3. CASE EntityGone
  BY <1>t, <1>3, ClearKeeps DEF EntityGone, runVars
<1>4. CASE ClearLoaded
  BY <1>t, <1>4, ClearKeeps DEF ClearLoaded, runVars, placeVars
<1> QED
  BY <1>1, <1>2, <1>3, <1>4

\* What the panel of properties, the menu and the move dialog show.
LEMMA ShownKeeps ==
    ASSUME ViewInv, ViewAssumption,
           \/ \E m \in list : SelectMessage(m) \/ OpenMenu(m)
           \/ CloseMenu \/ OpenMove \/ CloseMove
    PROVE  ViewInv'
<1>t. /\ list \in SUBSET Msg /\ menu \in Msg \cup {None} /\ selected \in Msg \cup {None}
      /\ move \in Captured \cup {None} /\ gen \in Nat /\ None \notin Msg
      /\ Here \in Places \cup {None}
      /\ (selected # None => selected \in list)
      /\ \A m \in list : Genuine(m)
      /\ menu # None => Genuine(menu)
      /\ move # None => Genuine(move.msg)
  BY DEF ViewInv, TypeOK, ViewAssumption, ListOfSelection, KnownMessages, Here, Places
<1>1. /\ UNCHANGED <<placeVars, list, browsed, cursor, full, torn, runVars, peekVars, brokerVars>>
      /\ selected' \in {None, selected} \cup list
      /\ menu' \in {None, menu} \cup list
  BY DEF SelectMessage, OpenMenu, CloseMenu, OpenMove, CloseMove, viewVars, menuVars
<1>2. \/ move' \in {None, move}
      \/ menu # None /\ move' = [msg |-> menu, at |-> Here, gen |-> gen]
  BY DEF SelectMessage, OpenMenu, CloseMenu, OpenMove, CloseMove, viewVars, menuVars, CanOperate
<1>3. /\ selected' \in Msg \cup {None} /\ (selected' # None => selected' \in list)
      /\ menu' \in Msg \cup {None} /\ (menu' # None => Genuine(menu'))
  BY <1>t, <1>1
<1>4. move' \in Captured \cup {None} /\ (move' # None => Genuine(move'.msg))
  <2>1. CASE move' \in {None, move}
    BY <1>t, <2>1
  <2>2. CASE menu # None /\ move' = [msg |-> menu, at |-> Here, gen |-> gen]
    BY <1>t, <2>2 DEF Captured
  <2> QED
    BY <1>2, <2>1, <2>2
<1>5. TypeOK'
  BY <1>1, <1>3, <1>4 DEF ViewInv, TypeOK, placeVars, runVars, peekVars, brokerVars
<1>6. ListOfSelection' /\ ReturnSeen' /\ Gapless'
  BY <1>1, <1>3 DEF ViewInv, ListOfSelection, ReturnSeen, ReturnedFrom, Gapless, Here, placeVars,
                    runVars, brokerVars
<1>7. KnownMessages'
  BY <1>t, <1>1, <1>3, <1>4 DEF ViewInv, KnownMessages, Genuine, runVars, peekVars, brokerVars
<1>8. Operations' /\ AnswerIsWhole' /\ GoesOn'
  BY <1>1 DEF ViewInv, Operations, AnswerIsWhole, GoesOn, runVars, peekVars, brokerVars
<1> QED
  BY <1>5, <1>6, <1>7, <1>8 DEF ViewInv

\* A call that starts has found nothing.
LEMMA CallFacts ==
    ASSUME TypeOK, ViewAssumption, Here # None, NEW kind \in {"browse", "more"},
           NEW mode \in {"normal", "dlq", "both"}, NEW from \in Nat, NEW then \in Nat
    PROVE  LET r == Call(kind, mode, from, then) IN
           /\ r \in Requests
           /\ r.kind = kind /\ r.mode = mode /\ r.from = from /\ r.then = then /\ r.found = {}
<1>1. Here \in Places /\ gen \in Nat
  BY DEF Here, TypeOK, Places
<1> QED
  BY <1>1 DEF Call, Requests

\* A call begins a list, or goes on where it ends.
LEMMA CallKeeps ==
    ASSUME ViewInv, ViewAssumption, NEW r \in Requests, request' = r, r.found = {},
           UNCHANGED <<placeVars, menuVars, runVars, brokerVars>>, peeks' \in Nat,
           \/ /\ r.kind = "browse" /\ r.from = 1
              /\ list' = {} /\ browsed' = FALSE /\ selected' = None
              /\ cursor' = [d \in BOOLEAN |-> 0] /\ full' = FALSE /\ torn' = FALSE
           \/ /\ r.kind = "more" /\ UNCHANGED viewVars
              /\ r.from = (IF r.mode = "dlq" THEN cursor[TRUE] ELSE cursor[FALSE]) + 1
              /\ r.mode = "both" => r.then = cursor[TRUE] + 1
    PROVE  ViewInv'
<1>1. AnswerIsWhole'
  BY FS_EmptySet DEF AnswerIsWhole
<1>2. Operations'
  BY DEF ViewInv, Operations, runVars, brokerVars
<1>3. CASE r.kind = "browse"
  <2>1. /\ r.from = 1 /\ list' = {} /\ browsed' = FALSE /\ selected' = None
        /\ cursor' = [d \in BOOLEAN |-> 0] /\ full' = FALSE /\ torn' = FALSE /\ MaxSeq \in Nat
    BY <1>3 DEF ViewAssumption
  <2>2. cursor' \in [BOOLEAN -> 0..MaxSeq]
    BY <2>1
  <2>3. TypeOK'
    BY <2>1, <2>2 DEF ViewInv, TypeOK, placeVars, menuVars, runVars, brokerVars
  <2>4. ListOfSelection' /\ ReturnSeen' /\ GoesOn'
    BY <1>3, <2>1 DEF ListOfSelection, ReturnSeen, GoesOn
  <2>5. KnownMessages'
    BY <2>1 DEF ViewInv, KnownMessages, Genuine, menuVars, runVars, brokerVars
  <2>6. Gapless'
    <3>1. \A n \in Content : n.dlq \in BOOLEAN /\ n.seq \in 1..MaxSeq
      BY DEF ViewAssumption, Msg
    <3>2. \A n \in Content : ~(n.seq <= cursor'[n.dlq])
      BY <2>1, <3>1
    <3> QED
      BY <2>1, <3>2 DEF Gapless
  <2> QED
    BY <1>1, <1>2, <2>3, <2>4, <2>5, <2>6 DEF ViewInv
<1>4. CASE r.kind = "more" /\ UNCHANGED viewVars
  <2>1. /\ r.from = (IF r.mode = "dlq" THEN cursor[TRUE] ELSE cursor[FALSE]) + 1 /\ (r.mode = "both" => r.then = cursor[TRUE] + 1)
        /\ UNCHANGED <<list, browsed, cursor, full, selected, torn>>
    BY <1>4 DEF viewVars
  <2>3. TypeOK'
    BY <2>1 DEF ViewInv, TypeOK, placeVars, menuVars, runVars, brokerVars
  <2>4. ListOfSelection' /\ ReturnSeen' /\ Gapless'
    BY <2>1 DEF ViewInv, ListOfSelection, ReturnSeen, ReturnedFrom, Gapless, Here, placeVars,
                runVars, brokerVars
  <2>5. KnownMessages'
    BY <2>1 DEF ViewInv, KnownMessages, Genuine, menuVars, runVars, brokerVars
  <2>6. GoesOn'
    BY <1>4, <2>1 DEF GoesOn
  <2> QED
    BY <1>1, <1>2, <2>3, <2>4, <2>5, <2>6 DEF ViewInv
<1> QED
  BY <1>3, <1>4

\* Browse and Load More.
LEMMA AskKeeps ==
    ASSUME ViewInv, ViewAssumption, NEW mode \in Modes, Browse(mode) \/ LoadMore(mode)
    PROVE  ViewInv'
<1>t. /\ TypeOK /\ mode \in {"normal", "dlq", "both"} /\ peeks \in Nat
      /\ cursor[FALSE] + 1 \in Nat /\ cursor[TRUE] + 1 \in Nat
  <2>1. cursor \in [BOOLEAN -> 0..MaxSeq] /\ MaxSeq \in Nat
    BY DEF ViewInv, TypeOK, ViewAssumption
  <2>2. \A d \in BOOLEAN : cursor[d] + 1 \in Nat
    BY <2>1
  <2>3. cursor[FALSE] + 1 \in Nat /\ cursor[TRUE] + 1 \in Nat
    BY <2>2
  <2> QED
    BY <2>3 DEF ViewInv, TypeOK, ViewAssumption
<1>1. CASE Browse(mode)
  <2> DEFINE r == Call("browse", mode, 1, 1)
  <2>1. r \in Requests /\ r.kind = "browse" /\ r.from = 1 /\ r.found = {}
    BY <1>t, <1>1, CallFacts DEF Browse
  <2>2. request' = r /\ peeks' \in Nat
    BY <1>t, <1>1 DEF Browse
  <2> HIDE DEF r
  <2> QED
    BY <1>1, <2>1, <2>2, CallKeeps DEF Browse
<1>2. CASE LoadMore(mode)
  <2>1. Here # None /\ peeks' \in Nat /\ UNCHANGED <<placeVars, viewVars, menuVars, runVars, brokerVars>>
    BY <1>t, <1>2 DEF LoadMore
  <2>2. ASSUME NEW src \in {"normal", "dlq", "both"}, NEW from \in Nat, NEW then \in Nat,
               request' = Call("more", src, from, then), from = (IF src = "dlq" THEN cursor[TRUE] ELSE cursor[FALSE]) + 1,
               src = "both" => then = cursor[TRUE] + 1
        PROVE  ViewInv'
    <3> DEFINE r == Call("more", src, from, then)
    <3>1. /\ r \in Requests /\ r.kind = "more" /\ r.from = from /\ r.then = then
          /\ r.found = {} /\ r.mode = src
      BY <1>t, <2>1, CallFacts
    <3> HIDE DEF r
    <3>2. request' = r
      BY <2>2 DEF r
    <3> QED
      BY <2>1, <2>2, <3>1, <3>2, CallKeeps
  <2>3. CASE mode = "normal"
    <3>1. request' = Call("more", "normal", cursor[FALSE] + 1, 0)
      BY <1>2, <2>3 DEF LoadMore
    <3>2. cursor[FALSE] + 1 \in Nat
      BY <1>t
    <3> QED
      BY <2>2, <3>1, <3>2
  <2>4. CASE mode = "dlq" \/ (mode = "both" /\ ~(cursor[FALSE] < MaxSeq))
    <3>1. request' = Call("more", "dlq", cursor[TRUE] + 1, 0)
      BY <1>2, <2>4 DEF LoadMore
    <3>2. cursor[TRUE] + 1 \in Nat
      BY <1>t
    <3> QED
      BY <2>2, <3>1, <3>2
  <2>5. CASE mode = "both" /\ cursor[FALSE] < MaxSeq
    <3>1. request' = Call("more", "both", cursor[FALSE] + 1, cursor[TRUE] + 1)
      BY <1>2, <2>5 DEF LoadMore
    <3>2. cursor[FALSE] + 1 \in Nat /\ cursor[TRUE] + 1 \in Nat
      BY <1>t
    <3> QED
      BY <2>2, <3>1, <3>2
  <2> QED
    BY <1>t, <2>3, <2>4, <2>5
<1> QED
  BY <1>1, <1>2

\* Only what the call has found changes.
LEMMA RequestKeeps ==
    ASSUME ViewInv, ViewAssumption, request' \in Requests \cup {None},
           UNCHANGED <<placeVars, viewVars, menuVars, runVars, peeks, brokerVars>>,
           AnswerIsWhole', GoesOn', request' # None => \A m \in request'.found : Genuine(m)
    PROVE  ViewInv'
<1>1. TypeOK'
  BY DEF ViewInv, TypeOK, placeVars, viewVars, menuVars, runVars, brokerVars
<1>2. ListOfSelection' /\ ReturnSeen' /\ Gapless' /\ Operations'
  BY DEF ViewInv, ListOfSelection, ReturnSeen, ReturnedFrom, Gapless, Here, Operations, placeVars,
         viewVars, runVars, brokerVars
<1>3. KnownMessages'
  BY DEF ViewInv, KnownMessages, Genuine, viewVars, menuVars, runVars, brokerVars
<1> QED
  BY <1>1, <1>2, <1>3 DEF ViewInv

\* The broker reads a page for the call, or the call fails.
LEMMA PeekKeeps ==
    ASSUME ViewInv, ViewAssumption, PeekAtBroker \/ PeekFails
    PROVE  ViewInv'
<1>1. CASE PeekFails
  <2>1. request' = None
    BY <1>1 DEF PeekFails
  <2> QED
    BY <1>1, <2>1, RequestKeeps DEF PeekFails, AnswerIsWhole, GoesOn
<1>2. CASE PeekAtBroker
  <2> DEFINE r == request
  <2> DEFINE normal == IF r.mode = "dlq" THEN {} ELSE Peek(r.at, FALSE, r.from)
  <2> DEFINE dead == IF r.mode = "dlq" \/ (r.mode = "both" /\ r.kind = "browse")
                     THEN Peek(r.at, TRUE, r.from) ELSE {}
  <2>1. /\ r \in Requests /\ request # None
        /\ request' = [r EXCEPT !.read = TRUE, !.found = normal \cup dead]
        /\ UNCHANGED <<placeVars, viewVars, menuVars, runVars, peeks, brokerVars>>
    BY <1>2 DEF PeekAtBroker, ViewInv, TypeOK
  <2>2. /\ world \in SUBSET Msg /\ IsFiniteSet(world) /\ MaxSeq \in Nat /\ r.from \in Nat
        /\ \A m \in world : Genuine(m)
    BY <2>1 DEF ViewInv, TypeOK, KnownMessages, ViewAssumption, Requests
  <2>3. \A d \in BOOLEAN :
            /\ Peek(r.at, d, r.from) \in SUBSET world
            /\ \A m \in Peek(r.at, d, r.from) : m.at = r.at /\ m.dlq = d
            /\ \A m \in Peek(r.at, d, r.from), n \in world :
                 n.at = r.at /\ n.dlq = d /\ n.seq \in r.from..m.seq => n \in Peek(r.at, d, r.from)
    BY <2>2, PeekFacts
  <2> HIDE DEF r
  <2>4. /\ normal \cup dead \in SUBSET world
        /\ \A m \in normal : m.at = r.at /\ m.dlq = FALSE
        /\ \A m \in dead : m.at = r.at /\ m.dlq = TRUE
        /\ \A m \in normal \cup dead, n \in world :
              n.at = r.at /\ n.dlq = m.dlq /\ n.seq \in r.from..m.seq => n \in normal \cup dead
    BY <2>3
  <2>5. /\ r.mode = "dlq" => normal = {}
        /\ r.mode = "normal" \/ (r.mode = "both" /\ r.kind = "more") => dead = {}
    OBVIOUS
  <2> HIDE DEF normal, dead
  <2>6. IsFiniteSet(normal \cup dead)
    BY <2>2, <2>4, FS_Subset
  <2>7. /\ request'.found = normal \cup dead /\ request'.at = r.at /\ request'.mode = r.mode
        /\ request'.kind = r.kind /\ request'.from = r.from /\ request'.then = r.then
        /\ request' \in Requests
    BY <2>1, <2>2, <2>4 DEF Requests
  <2>8. AnswerIsWhole'
    <3> SUFFICES /\ \A m \in request'.found : m.at = request'.at
                 /\ IsFiniteSet(request'.found)
                 /\ request'.mode = "dlq" => \A m \in request'.found : m.dlq
                 /\ request'.mode = "normal" \/ (request'.mode = "both" /\ request'.kind = "more") =>
                       \A m \in request'.found : ~m.dlq
                 /\ \A m \in request'.found, n \in Content \cap world' :
                       n.at = request'.at /\ n.dlq = m.dlq /\ n.seq \in request'.from..m.seq
                         => n \in request'.found
      BY DEF AnswerIsWhole
    <3>1. world' = world
      BY <2>1 DEF brokerVars
    <3> QED
      BY <2>4, <2>5, <2>6, <2>7, <3>1
  <2>9. GoesOn'
    BY <2>1, <2>7 DEF ViewInv, GoesOn, viewVars, r
  <2>10. \A m \in request'.found : Genuine(m)
    BY <2>2, <2>4, <2>7
  <2> QED
    BY <2>1, <2>7, <2>8, <2>9, <2>10, RequestKeeps
<1> QED
  BY <1>1, <1>2

\* The list goes on with what was accepted of an answer that is about it.
LEMMA FillGapless ==
    ASSUME ViewInv, ViewAssumption, request # None, IsCurrent(request), NEW room \in Nat,
           list' = list \cup Fit(request.found, room), cursor' = Cursors(Fit(request.found, room)),
           UNCHANGED <<placeVars, torn, world>>
    PROVE  Gapless'
<1> SUFFICES ASSUME ~torn
             PROVE  /\ \A m \in list' : m.seq <= cursor'[m.dlq]
                    /\ \A n \in Content \cap world :
                          n.at = Here /\ n.seq <= cursor'[n.dlq] => n \in list'
  BY DEF Gapless, Here, placeVars
<1> DEFINE accepted == Fit(request.found, room)
<1>1. /\ request \in Requests /\ request.found \in SUBSET Msg /\ IsFiniteSet(request.found)
      /\ request.at = Here /\ MaxSeq \in Nat /\ LastSeq \in Nat
      /\ cursor \in [BOOLEAN -> 0..MaxSeq] /\ list \in SUBSET Msg /\ Content \in SUBSET Msg
      /\ request.kind \in {"browse", "more"} /\ request.mode \in {"normal", "dlq", "both"}
      /\ request.from \in Nat
  BY DEF ViewInv, TypeOK, Requests, AnswerIsWhole, IsCurrent, ViewAssumption
<1>2. /\ accepted \subseteq request.found
      /\ \A m \in accepted, n \in request.found : n.dlq = m.dlq /\ n.seq <= m.seq => n \in accepted
  BY <1>1, FitFacts
<1> HIDE DEF accepted
<1>3. /\ cursor' \in [BOOLEAN -> 0..MaxSeq]
      /\ \A d \in BOOLEAN :
           /\ cursor[d] <= cursor'[d]
           /\ cursor'[d] = cursor[d] \/ \E m \in accepted : m.dlq = d /\ m.seq = cursor'[d]
      /\ \A m \in accepted : m.seq <= cursor'[m.dlq]
  BY <1>1, <1>2, CursorFacts DEF accepted
<1>4. \A m \in request.found : request.from = cursor[m.dlq] + 1
  <2> SUFFICES ASSUME NEW m \in request.found PROVE request.from = cursor[m.dlq] + 1
    OBVIOUS
  <2>1. m.dlq \in BOOLEAN
    BY <1>1 DEF Msg
  <2>2. CASE request.kind = "browse"
    BY <2>1, <2>2 DEF ViewInv, GoesOn
  <2>3. CASE request.kind = "more"
    <3>1. request.from = (IF request.mode = "dlq" THEN cursor[TRUE] ELSE cursor[FALSE]) + 1
      BY <2>3 DEF ViewInv, GoesOn
    <3>2. CASE request.mode = "dlq"
      <4>1. m.dlq = TRUE
        BY <2>1, <3>2 DEF ViewInv, AnswerIsWhole
      <4> QED
        BY <3>1, <3>2, <4>1
    <3>3. CASE request.mode # "dlq"
      <4>1. m.dlq = FALSE
        BY <1>1, <2>1, <2>3, <3>3 DEF ViewInv, AnswerIsWhole
      <4> QED
        BY <3>1, <3>3, <4>1
    <3> QED
      BY <3>2, <3>3
  <2> QED
    BY <1>1, <2>2, <2>3
<1>5. \A m \in list' : m.seq <= cursor'[m.dlq]
  <2> SUFFICES ASSUME NEW m \in list PROVE m.seq <= cursor'[m.dlq]
    BY <1>3 DEF accepted
  <2>1. m.dlq \in BOOLEAN /\ m.seq \in Nat
    BY <1>1 DEF Msg
  <2>2. m.seq <= cursor[m.dlq]
    BY DEF ViewInv, Gapless
  <2>3. cursor[m.dlq] \in Nat /\ cursor'[m.dlq] \in Nat /\ cursor[m.dlq] <= cursor'[m.dlq]
    BY <1>1, <1>3, <2>1
  <2> QED
    BY <2>1, <2>2, <2>3
<1>6. ASSUME NEW n \in Content \cap world, n.at = Here, n.seq <= cursor'[n.dlq]
      PROVE  n \in list'
  <2>1. n \in Msg /\ n.dlq \in BOOLEAN /\ n.seq \in Nat /\ n.run = 0 /\ n.seq <= LastSeq
    BY <1>1, ViewAssumption DEF Msg
  <2>2. cursor[n.dlq] \in Nat
    BY <1>1, <2>1
  <2>3. CASE n.seq <= cursor[n.dlq]
    BY <1>6, <2>3 DEF ViewInv, Gapless
  <2>4. CASE ~(n.seq <= cursor[n.dlq])
    <3>1. PICK m \in accepted : m.dlq = n.dlq /\ m.seq = cursor'[n.dlq]
      BY <1>3, <1>6, <2>1, <2>4
    <3>2. m \in request.found /\ m \in Msg /\ m.seq \in Nat /\ n.seq <= m.seq /\ m.at = request.at
      BY <1>1, <1>2, <1>6, <3>1 DEF Msg, ViewInv, AnswerIsWhole
    <3>3. request.from = cursor[n.dlq] + 1
      BY <1>4, <3>1, <3>2
    <3>4. n.seq \in request.from..m.seq
      BY <2>1, <2>2, <2>4, <3>2, <3>3
    <3>5. n \in request.found
      BY <1>1, <1>6, <3>1, <3>2, <3>4 DEF ViewInv, AnswerIsWhole
    <3>6. n \in accepted
      BY <1>2, <3>1, <3>2, <3>5
    <3> QED
      BY <3>6 DEF accepted
  <2> QED
    BY <2>3, <2>4
<1> QED
  BY <1>5, <1>6

\* The answer is taken over only by the list it was asked for.
LEMMA AnswerKeeps ==
    ASSUME ViewInv, ViewAssumption, PeekAnswered
    PROVE  ViewInv'
<1>1. CASE ~IsCurrent(request)
  <2>1. request' = None /\ UNCHANGED <<placeVars, viewVars, menuVars, runVars, peeks, brokerVars>>
    BY <1>1 DEF PeekAnswered, viewVars, runVars
  <2> QED
    BY <2>1, RequestKeeps DEF AnswerIsWhole, GoesOn
<1>2. CASE IsCurrent(request)
  <2>1. /\ request # None /\ Fill(request.found)
        /\ request' = (IF Second(request)
                       THEN [request EXCEPT !.mode = "dlq", !.from = request.then,
                                            !.read = FALSE, !.found = {}]
                       ELSE None)
        /\ UNCHANGED <<placeVars, selected, torn, menuVars, pending, runs, peeks, brokerVars>>
    BY <1>2 DEF PeekAnswered
  <2>2. PICK room \in 0..(Cap - Cardinality(list)) :
          LET accepted == Fit(request.found, room) IN
          /\ log' = Observed(request.found, log)
          /\ list' = list \cup accepted
          /\ full' = (Cardinality(accepted) = room)
          /\ cursor' = Cursors(accepted)
          /\ browsed' = TRUE
    BY <2>1 DEF Fill
  <2> DEFINE accepted == Fit(request.found, room)
  <2>3. /\ room \in Nat /\ log' = Observed(request.found, log) /\ list' = list \cup accepted
        /\ cursor' = Cursors(accepted) /\ browsed' = TRUE /\ full' \in BOOLEAN
    BY <2>2
  <2>t. /\ request \in Requests /\ request.found \in SUBSET Msg /\ IsFiniteSet(request.found)
        /\ request.at = Here /\ MaxSeq \in Nat /\ log \in Seq(Entries)
        /\ cursor \in [BOOLEAN -> 0..MaxSeq] /\ list \in SUBSET Msg
    BY <1>2, <2>1 DEF ViewInv, TypeOK, Requests, AnswerIsWhole, IsCurrent, ViewAssumption
  <2>4. accepted \subseteq request.found
    BY <2>3, <2>t, FitFacts
  <2>5. Gapless'
    BY <1>2, <2>1, <2>3, FillGapless DEF brokerVars
  <2> HIDE DEF accepted
  <2>6. /\ cursor' \in [BOOLEAN -> 0..MaxSeq]
        /\ \A d \in BOOLEAN :
             cursor'[d] = cursor[d] \/ \E m \in accepted : m.dlq = d /\ m.seq = cursor'[d]
    BY <2>3, <2>4, <2>t, CursorFacts
  <2>7. /\ log' \in Seq(Entries) /\ DOMAIN log' = DOMAIN log
        /\ \A i \in DOMAIN log :
             /\ log'[i].op = log[i].op /\ log'[i].msg = log[i].msg /\ log'[i].conn = log[i].conn
             /\ log'[i].at = log[i].at /\ log'[i].gen = log[i].gen /\ log'[i].done = log[i].done
             /\ log'[i].status = log[i].status
             /\ log[i].returned => log'[i].returned
             /\ (\E m \in request.found : i \in ReturnedFrom(m, log)) => log'[i].returned
    BY <2>3, <2>t, ObservedFacts
  <2>8. request' \in Requests \cup {None} /\ (request' # None => request'.found = {})
    <3>1. request.then \in Nat /\ [request EXCEPT !.mode = "dlq", !.from = request.then,
                                                  !.read = FALSE, !.found = {}] \in Requests
      BY <2>t DEF Requests
    <3> QED
      BY <2>1, <2>t, <3>1 DEF Requests
  <2>9. TypeOK'
    BY <2>1, <2>3, <2>4, <2>t, <2>6, <2>7, <2>8 DEF ViewInv, TypeOK, placeVars, menuVars, brokerVars
  <2>10. ListOfSelection'
    <3>1. \A m \in accepted : m.at = Here
      BY <2>1, <2>4, <2>t DEF ViewInv, AnswerIsWhole
    <3> QED
      BY <2>1, <2>3, <3>1 DEF ViewInv, ListOfSelection, Here, placeVars
  <2>11. ReturnSeen'
    <3> SUFFICES ASSUME NEW m \in list', NEW i \in ReturnedFrom(m, log)'
                 PROVE  log'[i].returned
      BY DEF ReturnSeen
    <3>1. i \in ReturnedFrom(m, log) /\ i \in DOMAIN log
      BY <2>1, <2>7 DEF ReturnedFrom, Here, placeVars
    <3>2. CASE m \in list
      BY <2>7, <3>1, <3>2 DEF ViewInv, ReturnSeen
    <3>3. CASE m \in accepted
      BY <2>4, <2>7, <3>1, <3>3
    <3> QED
      BY <2>3, <3>2, <3>3
  <2>12. KnownMessages'
    <3>1. \A m \in list' : Genuine(m)
      BY <2>1, <2>3, <2>4 DEF ViewInv, KnownMessages
    <3> QED
      BY <2>1, <2>7, <2>8, <3>1 DEF ViewInv, KnownMessages, Genuine, menuVars, brokerVars
  <2>13. Operations'
    BY <2>1, <2>7 DEF ViewInv, Operations, brokerVars
  <2>14. AnswerIsWhole'
    BY <2>8, FS_EmptySet DEF AnswerIsWhole
  <2>15. GoesOn'
    <3>1. CASE ~Second(request)
      BY <2>1, <3>1 DEF GoesOn
    <3>2. CASE Second(request)
      <4>1. /\ request.kind = "more" /\ request.mode = "both"
            /\ \A m \in accepted : ~m.dlq
        BY <2>1, <2>4, <3>2 DEF Second, ViewInv, AnswerIsWhole
      <4>2. cursor'[TRUE] = cursor[TRUE]
        BY <2>6, <4>1
      <4>3. ~torn => request.then = cursor[TRUE] + 1
        BY <2>1, <4>1 DEF ViewInv, GoesOn
      <4>4. request'.kind = "more" /\ request'.mode = "dlq" /\ request'.from = request.then
        BY <2>1, <2>t, <3>2, <4>1 DEF Requests
      <4> QED
        BY <2>1, <4>2, <4>3, <4>4 DEF GoesOn
    <3> QED
      BY <3>1, <3>2
  <2> QED
    BY <2>5, <2>9, <2>10, <2>11, <2>12, <2>13, <2>14, <2>15 DEF ViewInv
<1> QED
  BY <1>1, <1>2

\* An operation begins: its entry is neither done nor a success.
LEMMA BeginKeeps ==
    ASSUME ViewInv, ViewAssumption, NEW op \in {"Delete", "Replay", "Move", "Bulk"},
           NEW k \in Conns, NEW p \in Places \cup {None}, NEW m \in Msg \cup {None},
           op # "Bulk" => m # None, m # None => Genuine(m), Begin(op, k, p, m),
           UNCHANGED <<placeVars, viewVars, peekVars, brokerVars>>,
           menu' \in {menu, None}, move' \in {move, None}
    PROVE  ViewInv'
<1>1. /\ log' \in Seq(Entries) /\ runs' \subseteq DOMAIN log' /\ pending' \in [Keys -> Nat]
      /\ DOMAIN log \subseteq DOMAIN log'
      /\ \A i \in DOMAIN log : log'[i] = log[i]
      /\ \A i \in DOMAIN log' : i \notin DOMAIN log =>
            log'[i].op = op /\ log'[i].msg = m /\ ~log'[i].done /\ log'[i].status # "success"
  BY BeginFacts DEF ViewInv, ViewAssumption
<1>2. TypeOK'
  BY <1>1 DEF ViewInv, TypeOK, placeVars, viewVars, peekVars, brokerVars
<1>3. ListOfSelection' /\ Gapless' /\ AnswerIsWhole' /\ GoesOn'
  BY DEF ViewInv, ListOfSelection, Gapless, AnswerIsWhole, GoesOn, Here, placeVars, viewVars,
         peekVars, brokerVars
<1>4. ReturnSeen'
  <2> SUFFICES ASSUME NEW n \in list', NEW i \in ReturnedFrom(n, log)'
               PROVE  log'[i].returned
    BY DEF ReturnSeen
  <2>1. i \in DOMAIN log' /\ log'[i].status = "success"
    BY DEF ReturnedFrom
  <2>2. i \in DOMAIN log /\ log'[i] = log[i]
    BY <1>1, <2>1
  <2>3. i \in ReturnedFrom(n, log) /\ n \in list
    BY <2>2 DEF ReturnedFrom, Here, placeVars, viewVars
  <2> QED
    BY <2>2, <2>3 DEF ViewInv, ReturnSeen
<1>5. KnownMessages'
  <2>1. \A i \in DOMAIN log' : log'[i].msg # None => Genuine(log'[i].msg)
    BY <1>1 DEF ViewInv, KnownMessages
  <2> QED
    BY <2>1 DEF ViewInv, KnownMessages, Genuine, viewVars, peekVars, brokerVars
<1>6. Operations'
  <2> SUFFICES ASSUME NEW i \in DOMAIN log'
               PROVE  /\ log'[i].op # "Bulk" => log'[i].msg # None
                      /\ log'[i].done =>
                            /\ log'[i].msg # None /\ log'[i].msg.at = log'[i].at
                            /\ log'[i].msg \in Content => log'[i].msg \notin world'
    BY DEF Operations
  <2> QED
    BY <1>1 DEF ViewInv, Operations, brokerVars
<1> QED
  BY <1>2, <1>3, <1>4, <1>5, <1>6 DEF ViewInv

\* The menu, the send window, the move dialog and the bulk operations begin a run.
LEMMA OperateKeeps ==
    ASSUME ViewInv, ViewAssumption,
           Confirm("Delete") \/ Confirm("Replay") \/ Resend \/ Move \/ Bulk
    PROVE  ViewInv'
<1>t. /\ conn \in Conns \cup {None} /\ menu \in Msg \cup {None} /\ selected \in Msg \cup {None}
      /\ move \in Captured \cup {None} /\ None \notin Msg /\ Here \in Places \cup {None}
      /\ (Here # None => conn \in Conns)
      /\ (menu # None => Genuine(menu)) /\ (selected # None => Genuine(selected))
      /\ (move # None => Genuine(move.msg) /\ move.msg \in Msg /\ move.at \in Places \cup {None})
  BY DEF ViewInv, TypeOK, ViewAssumption, KnownMessages, Here, Places, Captured
<1>1. ASSUME NEW op \in {"Delete", "Replay"}, Confirm(op) PROVE ViewInv'
  <2>1. /\ conn \in Conns /\ menu # None /\ Begin(op, conn, Here, menu) /\ menu' = None
        /\ UNCHANGED <<placeVars, viewVars, move, peekVars, brokerVars>>
    BY <1>1, <1>t DEF Confirm, CanOperate
  <2> QED
    BY <1>t, <2>1, BeginKeeps
<1>2. CASE Resend
  <2>1. /\ conn \in Conns /\ selected # None /\ Begin("Replay", conn, Here, selected)
        /\ UNCHANGED <<placeVars, viewVars, menuVars, peekVars, brokerVars>>
    BY <1>2, <1>t DEF Resend, CanResend
  <2> QED
    BY <1>t, <2>1, BeginKeeps DEF menuVars
<1>3. CASE Move
  <2>1. /\ conn \in Conns /\ move # None /\ Begin("Move", conn, move.at, move.msg) /\ move' = None
        /\ UNCHANGED <<placeVars, viewVars, menu, peekVars, brokerVars>>
    BY <1>3, <1>t DEF Move, CanSubmit
  <2> QED
    BY <1>t, <2>1, BeginKeeps
<1>4. CASE Bulk
  <2>1. /\ conn \in Conns /\ Begin("Bulk", conn, Here, None)
        /\ UNCHANGED <<placeVars, viewVars, menuVars, peekVars, brokerVars>>
    BY <1>4, <1>t DEF Bulk
  <2> QED
    BY <1>t, <2>1, BeginKeeps DEF menuVars
<1> QED
  BY <1>1, <1>2, <1>3, <1>4

-----------------------------------------------------------------------------
\* At the broker, messages there were at the start go and none of them comes.
LEMMA BrokerKeeps ==
    ASSUME ViewInv, ViewAssumption, world' \in SUBSET Msg, IsFiniteSet(world'),
           stamp' \in 0..MaxSeq, stamp <= stamp', Content \cap world' \subseteq world,
           \A m \in world' : Genuine(m),
           log' \in Seq(Entries), DOMAIN log' = DOMAIN log,
           \A i \in DOMAIN log :
              /\ log'[i].op = log[i].op /\ log'[i].msg = log[i].msg /\ log'[i].conn = log[i].conn
              /\ log'[i].at = log[i].at /\ log'[i].status = log[i].status
              /\ log'[i].returned = log[i].returned
              /\ log'[i].done /\ ~log[i].done =>
                    /\ log[i].msg # None /\ log[i].msg.at = log[i].at
                    /\ log[i].msg \in Content => log[i].msg \notin world',
           UNCHANGED <<placeVars, viewVars, menuVars, pending, runs, peekVars>>
    PROVE  ViewInv'
<1>1. TypeOK'
  BY DEF ViewInv, TypeOK, placeVars, viewVars, menuVars, peekVars
<1>2. ListOfSelection' /\ GoesOn'
  BY DEF ViewInv, ListOfSelection, GoesOn, Here, placeVars, viewVars, peekVars
<1>3. Gapless'
  BY DEF ViewInv, Gapless, Here, placeVars, viewVars
<1>4. AnswerIsWhole'
  BY DEF ViewInv, AnswerIsWhole, peekVars
<1>5. ReturnSeen'
  BY DEF ViewInv, ReturnSeen, ReturnedFrom, Here, placeVars, viewVars
<1>6. KnownMessages'
  <2>1. LastSeq <= stamp'
    BY DEF ViewInv, TypeOK, KnownMessages, ViewAssumption
  <2> QED
    BY <2>1 DEF ViewInv, KnownMessages, Genuine, viewVars, menuVars, peekVars
<1>7. Operations'
  BY DEF ViewInv, Operations
<1> QED
  BY <1>1, <1>2, <1>3, <1>4, <1>5, <1>6, <1>7 DEF ViewInv

\* The messages at the broker after one is taken, and perhaps another is sent
\* with the next number.
LEMMA WorldTaken ==
    ASSUME ViewInv, ViewAssumption, NEW gone
    PROVE  LET W == world \ gone IN
           /\ W \in SUBSET Msg /\ IsFiniteSet(W) /\ Content \cap W \subseteq world
           /\ \A m \in W : Genuine(m)
<1>1. /\ world \in SUBSET Msg /\ IsFiniteSet(world) /\ \A m \in world : Genuine(m)
  BY DEF ViewInv, TypeOK, KnownMessages
<1>2. IsFiniteSet(world \ gone)
  BY <1>1, FS_Subset
<1> QED
  BY <1>1, <1>2

\* A message that is sent has a number no message had.
LEMMA WorldGiven ==
    ASSUME ViewInv, ViewAssumption, NEW gone, NEW n \in Msg, n.seq = stamp + 1
    PROVE  LET W == (world \ gone) \cup {n} IN
           /\ W \in SUBSET Msg /\ IsFiniteSet(W) /\ Content \cap W \subseteq world
           /\ n \notin Content /\ \A m \in W : Genuine(m)
<1>1. stamp \in Nat /\ LastSeq \in Nat /\ LastSeq <= stamp
  BY DEF ViewInv, TypeOK, KnownMessages, ViewAssumption
<1>2. ~(n.seq <= LastSeq)
  BY <1>1
<1>3. IsFiniteSet((world \ gone) \cup {n})
  BY WorldTaken, FS_AddElement
<1>4. n \notin Content /\ Genuine(n)
  BY <1>2, ViewAssumption DEF Genuine
<1> QED
  BY <1>3, <1>4, WorldTaken

\* The worker carries a run out, or the broker dead-letters a message.
LEMMA WorkerKeeps ==
    ASSUME ViewInv, ViewAssumption,
           \/ \E i \in runs : WorkerActs(i) \/ \E m \in world : WorkerTakes(i, m)
           \/ \E m \in world : DeadLetter(m)
    PROVE  ViewInv'
<1>t. /\ world \in SUBSET Msg /\ stamp \in 0..MaxSeq /\ MaxSeq \in Nat /\ log \in Seq(Entries)
      /\ runs \subseteq DOMAIN log /\ DOMAIN log = 1..Len(log) /\ Len(log) \in Nat
      /\ \A i \in DOMAIN log : log[i] \in Entries
      /\ None \notin Msg
  BY ElementOfSeq, LenProperties DEF ViewInv, TypeOK, ViewAssumption
<1>1. ASSUME NEW i \in runs, WorkerActs(i) PROVE ViewInv'
  <2> DEFINE e == log[i]
  <2>1. /\ i \in DOMAIN log /\ e \in Entries /\ e.msg \in world /\ e.msg.at = e.at
        /\ UNCHANGED <<placeVars, viewVars, menuVars, pending, runs, peekVars>>
    BY <1>1, <1>t DEF WorkerActs
  <2> DEFINE marked == [log EXCEPT ![i].done = TRUE]
  <2>2. /\ marked \in Seq(Entries) /\ DOMAIN marked = DOMAIN log
        /\ \A j \in DOMAIN log :
              /\ marked[j].op = log[j].op /\ marked[j].msg = log[j].msg
              /\ marked[j].conn = log[j].conn /\ marked[j].at = log[j].at
              /\ marked[j].status = log[j].status /\ marked[j].returned = log[j].returned
              /\ marked[j].done /\ ~log[j].done => j = i
    <3>1. [e EXCEPT !.done = TRUE] \in Entries
      BY <2>1 DEF Entries
    <3>2. marked = [log EXCEPT ![i] = [e EXCEPT !.done = TRUE]]
      OBVIOUS
    <3>3. marked \in Seq(Entries)
      BY <1>t, <2>1, <3>1, <3>2, ExceptSeq
    <3>4. /\ [e EXCEPT !.done = TRUE].op = e.op /\ [e EXCEPT !.done = TRUE].msg = e.msg
          /\ [e EXCEPT !.done = TRUE].conn = e.conn /\ [e EXCEPT !.done = TRUE].at = e.at
          /\ [e EXCEPT !.done = TRUE].status = e.status
          /\ [e EXCEPT !.done = TRUE].returned = e.returned
      BY <2>1 DEF Entries
    <3> QED
      BY <2>1, <3>2, <3>3, <3>4
  <2> DEFINE copy == [at |-> e.at, dlq |-> FALSE, seq |-> stamp + 1, run |-> i]
  <2>3. stamp < MaxSeq => copy \in Msg /\ copy.seq = stamp + 1 /\ stamp + 1 \in 0..MaxSeq
    <3>1. i \in Nat /\ e.at \in Places
      <4>1. e.msg.at \in Places
        BY <1>t, <2>1 DEF Msg
      <4> QED
        BY <1>t, <2>1, <4>1
    <3>2. stamp < MaxSeq => stamp + 1 \in 1..MaxSeq
      BY <1>t
    <3> QED
      BY <3>1, <3>2 DEF Msg
  <2>4. \/ world' = world \ {e.msg} /\ log' = marked /\ stamp' = stamp
        \/ /\ stamp < MaxSeq /\ stamp' = stamp + 1
           /\ world' = (world \ {e.msg}) \cup {copy} /\ log' = marked
        \/ /\ stamp < MaxSeq /\ stamp' = stamp + 1
           /\ world' = (world \ {}) \cup {copy} /\ log' = log
    BY <1>1 DEF WorkerActs
  <2>5. e.msg \in Msg
    BY <1>t, <2>1
  <2> HIDE DEF copy, marked
  <2>6. CASE world' = world \ {e.msg} /\ log' = marked /\ stamp' = stamp
    <3>1. /\ world' \in SUBSET Msg /\ IsFiniteSet(world') /\ Content \cap world' \subseteq world
          /\ \A m \in world' : Genuine(m)
      BY <2>6, WorldTaken
    <3>2. e.msg \notin world' /\ e.msg # None /\ stamp' \in 0..MaxSeq /\ stamp <= stamp'
      BY <1>t, <2>5, <2>6
    <3> QED
      BY <2>1, <2>2, <2>6, <3>1, <3>2, BrokerKeeps
  <2>7. CASE /\ stamp < MaxSeq /\ stamp' = stamp + 1
             /\ world' = (world \ {e.msg}) \cup {copy} /\ log' = marked
    <3>1. /\ world' \in SUBSET Msg /\ IsFiniteSet(world') /\ Content \cap world' \subseteq world
          /\ copy \notin Content /\ \A m \in world' : Genuine(m)
      BY <2>3, <2>7, WorldGiven
    <3>2. e.msg # None /\ stamp' \in 0..MaxSeq /\ stamp <= stamp'
      BY <1>t, <2>3, <2>5, <2>7
    <3>3. e.msg \in Content => e.msg \notin world'
      BY <2>7, <3>1
    <3> QED
      BY <2>1, <2>2, <2>7, <3>1, <3>2, <3>3, BrokerKeeps
  <2>8. CASE /\ stamp < MaxSeq /\ stamp' = stamp + 1
             /\ world' = (world \ {}) \cup {copy} /\ log' = log
    <3>1. /\ world' \in SUBSET Msg /\ IsFiniteSet(world') /\ Content \cap world' \subseteq world
          /\ \A m \in world' : Genuine(m)
      BY <2>3, <2>8, WorldGiven
    <3>2. stamp' \in 0..MaxSeq /\ stamp <= stamp'
      BY <1>t, <2>3, <2>8
    <3> QED
      BY <1>t, <2>1, <2>8, <3>1, <3>2, BrokerKeeps
  <2> QED
    BY <2>4, <2>6, <2>7, <2>8
<1>2. ASSUME NEW m \in world, NEW d \in BOOLEAN,
             UNCHANGED <<placeVars, viewVars, menuVars, runVars, peekVars>>,
             \/ world' = world \ {m} /\ stamp' = stamp
             \/ /\ stamp < MaxSeq /\ stamp' = stamp + 1
                /\ world' = (world \ {m}) \cup {[m EXCEPT !.dlq = d, !.seq = stamp + 1]}
      PROVE  ViewInv'
  <2> DEFINE n == [m EXCEPT !.dlq = d, !.seq = stamp + 1]
  <2>1. stamp < MaxSeq => n \in Msg /\ n.seq = stamp + 1 /\ stamp + 1 \in 0..MaxSeq
    <3>1. m \in [at : Places, dlq : BOOLEAN, seq : 1..MaxSeq, run : Nat]
      BY <1>t DEF Msg
    <3>2. stamp < MaxSeq => stamp + 1 \in 1..MaxSeq /\ stamp + 1 \in 0..MaxSeq
      BY <1>t
    <3>3. ASSUME NEW x \in 1..MaxSeq
          PROVE  [m EXCEPT !.dlq = d, !.seq = x] \in Msg /\ [m EXCEPT !.dlq = d, !.seq = x].seq = x
      BY <3>1 DEF Msg
    <3> QED
      BY <3>2, <3>3
  <2> HIDE DEF n
  <2>2. CASE world' = world \ {m} /\ stamp' = stamp
    <3>1. /\ world' \in SUBSET Msg /\ IsFiniteSet(world') /\ Content \cap world' \subseteq world
          /\ \A x \in world' : Genuine(x)
      BY <2>2, WorldTaken
    <3> QED
      BY <1>t, <1>2, <2>2, <3>1, BrokerKeeps DEF runVars
  <2>3. CASE stamp < MaxSeq /\ stamp' = stamp + 1 /\ world' = (world \ {m}) \cup {n}
    <3>1. /\ world' \in SUBSET Msg /\ IsFiniteSet(world') /\ Content \cap world' \subseteq world
          /\ \A x \in world' : Genuine(x)
      BY <2>1, <2>3, WorldGiven
    <3>2. stamp' \in 0..MaxSeq /\ stamp <= stamp'
      BY <1>t, <2>1, <2>3
    <3> QED
      BY <1>t, <1>2, <3>1, <3>2, BrokerKeeps DEF runVars
  <2> QED
    BY <1>2, <2>2, <2>3 DEF n
<1>3. ASSUME NEW i \in runs, NEW m \in world, WorkerTakes(i, m) PROVE ViewInv'
  BY <1>2, <1>3 DEF WorkerTakes
<1>4. ASSUME NEW m \in world, DeadLetter(m) PROVE ViewInv'
  BY <1>2, <1>4 DEF DeadLetter
<1> QED
  BY <1>1, <1>3, <1>4

-----------------------------------------------------------------------------
\* The outcome of a run is entered in the log; a success also notes the returns
\* that are on display.
LEMMA SettledFacts ==
    ASSUME log \in Seq(Entries), NEW i \in DOMAIN log,
           NEW status \in {"success", "error", "unknown"}
    PROVE  LET L == Settled(i, status) IN
           /\ L \in Seq(Entries) /\ DOMAIN L = DOMAIN log
           /\ L[i].status = status
           /\ \A j \in DOMAIN log :
                /\ L[j].op = log[j].op /\ L[j].msg = log[j].msg /\ L[j].conn = log[j].conn
                /\ L[j].at = log[j].at /\ L[j].gen = log[j].gen /\ L[j].done = log[j].done
                /\ j # i => L[j].status = log[j].status
                /\ log[j].returned => L[j].returned
           /\ status = "success" =>
                \A m \in list : \A j \in ReturnedFrom(m, L) : L[j].returned
<1> DEFINE K == [log EXCEPT ![i].status = status]
<1>1. /\ DOMAIN log = 1..Len(log) /\ Len(log) \in Nat /\ \A j \in DOMAIN log : log[j] \in Entries
  BY ElementOfSeq, LenProperties
<1>2. /\ K \in Seq(Entries) /\ DOMAIN K = DOMAIN log /\ K[i].status = status
      /\ \A j \in DOMAIN log :
           /\ K[j].op = log[j].op /\ K[j].msg = log[j].msg /\ K[j].conn = log[j].conn
           /\ K[j].at = log[j].at /\ K[j].gen = log[j].gen /\ K[j].done = log[j].done
           /\ j # i => K[j].status = log[j].status
           /\ log[j].returned => K[j].returned
  <2> DEFINE e == [log[i] EXCEPT !.status = status]
  <2>1. /\ e \in Entries /\ e.status = status /\ e.op = log[i].op /\ e.msg = log[i].msg
        /\ e.conn = log[i].conn /\ e.at = log[i].at /\ e.gen = log[i].gen /\ e.done = log[i].done
        /\ e.returned = log[i].returned
    <3>1. log[i] \in Entries
      BY <1>1
    <3> QED
      BY <3>1 DEF Entries
  <2>2. K = [log EXCEPT ![i] = e]
    OBVIOUS
  <2> HIDE DEF e, K
  <2>3. K \in Seq(Entries)
    BY <1>1, <2>1, <2>2, ExceptSeq
  <2>4. DOMAIN K = DOMAIN log /\ K[i] = e /\ \A j \in DOMAIN log : j # i => K[j] = log[j]
    BY <2>2
  <2> QED
    BY <2>1, <2>3, <2>4
<1> HIDE DEF K
<1>3. CASE status = "success"
  <2> DEFINE L == Observed(list, K)
  <2>1. Settled(i, status) = L
    BY <1>3 DEF Settled, K
  <2>2. /\ L \in Seq(Entries) /\ DOMAIN L = DOMAIN K
        /\ \A j \in DOMAIN K :
             /\ L[j].op = K[j].op /\ L[j].msg = K[j].msg /\ L[j].conn = K[j].conn
             /\ L[j].at = K[j].at /\ L[j].gen = K[j].gen /\ L[j].done = K[j].done
             /\ L[j].status = K[j].status
             /\ K[j].returned => L[j].returned
             /\ (\E m \in list : j \in ReturnedFrom(m, K)) => L[j].returned
    BY <1>2, ObservedFacts
  <2> HIDE DEF L
  <2>3. ASSUME NEW m \in list, NEW j \in ReturnedFrom(m, L) PROVE L[j].returned
    <3>1. j \in ReturnedFrom(m, K) /\ j \in DOMAIN K
      BY <2>2, <2>3 DEF ReturnedFrom
    <3> QED
      BY <2>2, <3>1
  <2> QED
    BY <1>2, <2>1, <2>2, <2>3
<1>4. CASE status # "success"
  <2>1. Settled(i, status) = K
    BY <1>4 DEF Settled, K
  <2> QED
    BY <1>2, <1>4, <2>1
<1> QED
  BY <1>3, <1>4

\* What a run that ends does to the list.
LEMMA FinishFacts ==
    ASSUME ViewInv, ViewAssumption, NEW i \in runs, NEW status \in {"success", "error", "unknown"},
           Finish(i, status)
    PROVE  /\ list' \subseteq list
           /\ selected' \in {selected, None} /\ (selected' # None /\ selected \in list => selected' \in list')
           /\ pending' \in [Keys -> Nat]
           /\ list' # list =>
                /\ status = "success" /\ log[i].done /\ log[i].msg \in Msg
                /\ log[i].msg.at = Here
                /\ log[i].msg \in Content => log[i].msg \notin world
                /\ \A m \in list \ list' : Key(m) = Key(log[i].msg)
<1>t. /\ i \in DOMAIN log /\ log[i] \in Entries /\ pending \in [Keys -> Nat]
      /\ list \in SUBSET Msg /\ None \notin Places \cup Msg
      /\ log[i].op # "Bulk" => log[i].msg \in Msg
  <2>1. i \in DOMAIN log /\ log \in Seq(Entries)
    BY DEF ViewInv, TypeOK
  <2>2. log[i] \in Entries
    BY <2>1, ElementOfSeq, LenProperties
  <2> QED
    BY <2>1, <2>2 DEF ViewInv, TypeOK, Operations, Entries, ViewAssumption
<1>1. CASE log[i].op = "Bulk"
  BY <1>t, <1>1 DEF Finish
<1>2. CASE log[i].op # "Bulk"
  <2> DEFINE key == Key(log[i].msg)
  <2> DEFINE gone == status = "success" /\ InContext(log[i]) /\ \E m \in list : Key(m) = key
  <2>1. /\ status = "success" => log[i].done
        /\ list' = (IF gone THEN {m \in list : Key(m) # key} ELSE list)
        /\ selected' = (IF gone /\ selected # None /\ Key(selected) = key THEN None ELSE selected)
        /\ pending' = (IF pending[key] = i THEN [pending EXCEPT ![key] = 0] ELSE pending)
    BY <1>2 DEF Finish
  <2>2. pending' \in [Keys -> Nat]
    BY <1>t, <2>1
  <2>3. CASE gone
    <3>1. /\ status = "success" /\ log[i].done /\ InContext(log[i]) /\ log[i].msg \in Msg
      BY <1>t, <1>2, <2>1, <2>3
    <3>2. /\ log[i].msg.at = log[i].at
          /\ log[i].msg \in Content => log[i].msg \notin world
      BY <1>t, <3>1 DEF ViewInv, Operations
    <3>3. log[i].msg.at = Here
      BY <1>t, <3>1, <3>2 DEF InContext, Msg
    <3>4. list' = {m \in list : Key(m) # key} /\ \A m \in list \ list' : Key(m) = key
      BY <2>1, <2>3
    <3>5. selected' \in {selected, None} /\ (selected' # None /\ selected \in list => selected' \in list')
      BY <2>1, <2>3, <3>4
    <3> QED
      BY <2>2, <3>1, <3>2, <3>3, <3>4, <3>5
  <2>4. CASE ~gone
    BY <2>1, <2>2, <2>4
  <2> QED
    BY <2>3, <2>4
<1> QED
  BY <1>1, <1>2

\* A run ends, and its message leaves the list if the list is still its own.
LEMMA FinishKeeps ==
    ASSUME ViewInv, ViewAssumption, NEW i \in runs, NEW status \in {"success", "error", "unknown"},
           Finish(i, status)
    PROVE  ViewInv'
<1>t. /\ i \in DOMAIN log /\ log \in Seq(Entries) /\ runs \subseteq DOMAIN log
      /\ list \in SUBSET Msg
  BY DEF ViewInv, TypeOK
<1>1. /\ runs' = runs \ {i} /\ log' = Settled(i, status)
      /\ UNCHANGED <<placeVars, browsed, cursor, full, torn, menuVars, peekVars, brokerVars>>
  BY DEF Finish
<1>2. /\ list' \subseteq list
      /\ selected' \in {selected, None} /\ (selected' # None /\ selected \in list => selected' \in list')
      /\ pending' \in [Keys -> Nat]
      /\ list' # list =>
           /\ status = "success" /\ log[i].done /\ log[i].msg \in Msg
           /\ log[i].msg.at = Here
           /\ log[i].msg \in Content => log[i].msg \notin world
           /\ \A m \in list \ list' : Key(m) = Key(log[i].msg)
  BY FinishFacts
<1>3. /\ log' \in Seq(Entries) /\ DOMAIN log' = DOMAIN log /\ log'[i].status = status
      /\ \A j \in DOMAIN log :
           /\ log'[j].op = log[j].op /\ log'[j].msg = log[j].msg /\ log'[j].conn = log[j].conn
           /\ log'[j].at = log[j].at /\ log'[j].gen = log[j].gen /\ log'[j].done = log[j].done
           /\ j # i => log'[j].status = log[j].status
           /\ log[j].returned => log'[j].returned
      /\ status = "success" => \A m \in list : \A j \in ReturnedFrom(m, log') : log'[j].returned
  BY <1>t, <1>1, SettledFacts
<1>4. TypeOK'
  BY <1>1, <1>2, <1>3 DEF ViewInv, TypeOK, placeVars, menuVars, peekVars, brokerVars
<1>5. ListOfSelection'
  BY <1>1, <1>2 DEF ViewInv, ListOfSelection, Here, placeVars
<1>6. ReturnSeen'
  <2> SUFFICES ASSUME NEW m \in list', NEW j \in ReturnedFrom(m, log)'
               PROVE  log'[j].returned
    BY DEF ReturnSeen
  <2>1. m \in list /\ j \in ReturnedFrom(m, log') /\ j \in DOMAIN log' /\ log'[j].status = "success"
    BY <1>1, <1>2 DEF ReturnedFrom, Here, placeVars
  <2>2. CASE status = "success"
    BY <1>3, <2>1, <2>2
  <2>3. CASE status # "success"
    <3>1. j # i /\ j \in ReturnedFrom(m, log)
      BY <1>3, <2>1, <2>3 DEF ReturnedFrom
    <3> QED
      BY <1>3, <2>1, <3>1 DEF ViewInv, ReturnSeen
  <2> QED
    BY <2>2, <2>3
<1>7. KnownMessages'
  <2>1. \A m \in list' : Genuine(m)
    BY <1>2 DEF ViewInv, KnownMessages
  <2>2. selected' # None => Genuine(selected')
    BY <1>2 DEF ViewInv, KnownMessages
  <2> QED
    BY <1>1, <1>3, <2>1, <2>2 DEF ViewInv, KnownMessages, Genuine, menuVars, peekVars, brokerVars
<1>8. Operations'
  BY <1>1, <1>3 DEF ViewInv, Operations, brokerVars
<1>9. AnswerIsWhole'
  BY <1>1 DEF ViewInv, AnswerIsWhole, peekVars, brokerVars
<1>10. GoesOn'
  BY <1>1, <1>2 DEF ViewInv, GoesOn, peekVars
<1>11. Gapless'
  <2> SUFFICES ASSUME ~torn
               PROVE  /\ \A m \in list' : m.seq <= cursor[m.dlq]
                      /\ \A n \in Content \cap world :
                            n.at = Here /\ n.seq <= cursor[n.dlq] => n \in list'
    BY <1>1 DEF Gapless, Here, placeVars, brokerVars
  <2>1. ASSUME NEW n \in Content \cap world, n.at = Here, n.seq <= cursor[n.dlq], n \notin list'
        PROVE  FALSE
    <3>1. n \in list /\ list' # list
      BY <2>1 DEF ViewInv, Gapless
    <3>2. /\ log[i].msg \in Msg /\ log[i].msg.at = n.at /\ Key(log[i].msg) = Key(n)
          /\ log[i].msg \in Content => log[i].msg \notin world
      BY <1>2, <2>1, <3>1
    <3>3. n \in Msg /\ n.run = 0 /\ n.seq <= LastSeq
      BY ViewAssumption
    <3>4. log[i].msg.seq = n.seq /\ log[i].msg.dlq = n.dlq
      BY <3>2 DEF Key
    <3>5. log[i].msg \in Content
      <4>1. log[i].msg # None
        BY <3>2, ViewAssumption
      <4>2. Genuine(log[i].msg)
        BY <1>t, <4>1 DEF ViewInv, KnownMessages
      <4> QED
        BY <3>3, <3>4, <4>2 DEF Genuine
    <3>6. log[i].msg.run = 0
      BY <3>5, ViewAssumption
    <3>7. log[i].msg = n
      BY <3>2, <3>3, <3>4, <3>6 DEF Msg
    <3> QED
      BY <2>1, <3>2, <3>5, <3>7
  <2> QED
    BY <1>2, <2>1 DEF ViewInv, Gapless
<1> QED
  BY <1>4, <1>5, <1>6, <1>7, <1>8, <1>9, <1>10, <1>11 DEF ViewInv

\* The user reviews an operation.
LEMMA ReviewKeeps ==
    ASSUME ViewInv, ViewAssumption, NEW i \in DOMAIN log, Review(i)
    PROVE  ViewInv'
<1>t. /\ log \in Seq(Entries) /\ DOMAIN log = 1..Len(log) /\ Len(log) \in Nat
      /\ log[i] \in Entries
  BY ElementOfSeq, LenProperties DEF ViewInv, TypeOK
<1> DEFINE e == [log[i] EXCEPT !.reviewed = TRUE]
<1>1. /\ log' = [log EXCEPT ![i] = e]
      /\ UNCHANGED <<placeVars, viewVars, menuVars, pending, runs, peekVars, brokerVars>>
  BY DEF Review
<1>2. /\ e \in Entries /\ e.status = log[i].status /\ e.op = log[i].op /\ e.msg = log[i].msg
      /\ e.conn = log[i].conn /\ e.at = log[i].at /\ e.done = log[i].done
      /\ e.returned = log[i].returned
  BY <1>t DEF Entries
<1> HIDE DEF e
<1>3. log' \in Seq(Entries)
  BY <1>t, <1>1, <1>2, ExceptSeq
<1>4. /\ DOMAIN log' = DOMAIN log
      /\ \A j \in DOMAIN log :
           /\ log'[j].op = log[j].op /\ log'[j].msg = log[j].msg /\ log'[j].conn = log[j].conn
           /\ log'[j].at = log[j].at /\ log'[j].status = log[j].status
           /\ log'[j].returned = log[j].returned /\ log'[j].done = log[j].done
  BY <1>t, <1>1, <1>2
<1>5. /\ world' \in SUBSET Msg /\ IsFiniteSet(world') /\ stamp' \in 0..MaxSeq /\ stamp <= stamp'
      /\ Content \cap world' \subseteq world /\ \A m \in world' : Genuine(m)
  BY <1>1 DEF ViewInv, TypeOK, KnownMessages, brokerVars
<1> QED
  BY <1>1, <1>3, <1>4, <1>5, BrokerKeeps

-----------------------------------------------------------------------------
\* The store as it is created.
LEMMA ViewInit ==
    ASSUME ViewAssumption, Init
    PROVE  ViewInv
<1>1. /\ MaxSeq \in Nat /\ LastSeq \in 0..MaxSeq /\ Content \in SUBSET Msg /\ IsFiniteSet(Content)
  BY DEF ViewAssumption
<1>2. log = <<>> /\ log \in Seq(Entries) /\ DOMAIN log = {}
  BY DEF Init
<1>3. cursor \in [BOOLEAN -> 0..MaxSeq] /\ pending \in [Keys -> Nat]
  BY <1>1 DEF Init
<1>4. TypeOK
  BY <1>1, <1>2, <1>3 DEF Init, TypeOK
<1>5. ListOfSelection /\ ReturnSeen /\ AnswerIsWhole /\ GoesOn
  BY DEF Init, ListOfSelection, ReturnSeen, AnswerIsWhole, GoesOn
<1>6. KnownMessages /\ Operations
  BY <1>1, <1>2 DEF Init, KnownMessages, Operations, Genuine
<1>7. Gapless
  <2>1. Here = None /\ list = {}
    BY DEF Init, Here
  <2>2. \A n \in Content : n.at # None
    BY <1>1, ViewAssumption DEF Msg
  <2> QED
    BY <2>1, <2>2 DEF Gapless
<1> QED
  BY <1>4, <1>5, <1>6, <1>7 DEF ViewInv

\* Every step keeps the invariant.
LEMMA ViewStep ==
    ASSUME ViewInv, ViewAssumption, [Next]_vars
    PROVE  ViewInv'
<1>1. CASE User
  BY <1>1, PlaceKeeps, ShownKeeps, AskKeeps, OperateKeeps, ReviewKeeps DEF User
<1>2. CASE Answer
  BY <1>2, AnswerKeeps, PeekKeeps, FinishKeeps DEF Answer
<1>3. CASE Broker
  BY <1>3, PeekKeeps, WorkerKeeps DEF Broker
<1>4. CASE UNCHANGED vars
  <2>1. /\ log' = log /\ world' = world /\ stamp' = stamp
        /\ UNCHANGED <<placeVars, viewVars, menuVars, pending, runs, peekVars>>
    BY <1>4 DEF vars, runVars, brokerVars
  <2>2. /\ world' \in SUBSET Msg /\ IsFiniteSet(world') /\ stamp' \in 0..MaxSeq /\ stamp <= stamp'
        /\ log' \in Seq(Entries)
        /\ Content \cap world' \subseteq world /\ \A m \in world' : Genuine(m)
    BY <2>1 DEF ViewInv, TypeOK, KnownMessages
  <2> QED
    BY <2>1, <2>2, BrokerKeeps
<1> QED
  BY <1>1, <1>2, <1>3, <1>4 DEF Next

\* The inductive invariant holds in every reachable state.
LEMMA ViewInvariance == Spec => []ViewInv
<1>1. Init => ViewInv
  BY ViewAssumption, ViewInit
<1>2. ViewInv /\ [Next]_vars => ViewInv'
  BY ViewAssumption, ViewStep
<1> QED
  BY <1>1, <1>2, PTL DEF Spec

\* The list, its cursors, the log, the menus and the call in flight are always well
\* formed (Toolbar.tsx, messageSlice.ts).
THEOREM ViewTypeCorrect == Spec => []TypeOK
<1>1. ViewInv => TypeOK
  BY DEF ViewInv
<1> QED
  BY <1>1, ViewInvariance, PTL

\* However late an answer comes, what is listed are messages of the queue that is
\* selected, and the message shown is one of them (isCurrentRequest, and the reset of
\* the list by a selection).
THEOREM ListShowsSelection == Spec => []ListOfSelection
<1>1. ViewInv => ListOfSelection
  BY DEF ViewInv
<1> QED
  BY <1>1, ViewInvariance, PTL

\* Load More passes over no message that was there and still is, unless the list was
\* emptied while one was in flight (computeMaxSeqNums, handleLoadMore).
THEOREM LoadMoreIsGapless == Spec => []NothingPassedOver
<1>1. ViewInv => NothingPassedOver
  <2> SUFFICES ASSUME ViewInv, ~torn, NEW m \in list, NEW n \in Content, n \in world,
                      n.at = m.at, n.dlq = m.dlq, n.seq < m.seq
               PROVE  n \in list
    BY DEF NothingPassedOver
  <2>1. m \in Msg /\ n \in Msg /\ cursor \in [BOOLEAN -> 0..MaxSeq] /\ MaxSeq \in Nat
    BY ViewAssumption DEF ViewInv, TypeOK
  <2>2. m.at = Here /\ m.seq <= cursor[m.dlq]
    BY DEF ViewInv, ListOfSelection, Gapless
  <2>3. n.at = Here /\ n.seq <= cursor[n.dlq]
    BY <2>1, <2>2 DEF Msg
  <2> QED
    BY <2>3 DEF ViewInv, Gapless
<1> QED
  BY <1>1, ViewInvariance, PTL

\* A replayed message that is listed again is reported at its operation, whichever
\* of the list and the outcome came first (observeReplayReturns).
THEOREM ReturnsAreSeen == Spec => []ReturnSeen
<1>1. ViewInv => ReturnSeen
  BY DEF ViewInv
<1> QED
  BY <1>1, ViewInvariance, PTL

\* A message leaves a list that stays on display only after an operation on this
\* very message has succeeded.
LEMMA OnlyDoneRemoved ==
    ASSUME ViewInv, ViewAssumption, [Next]_vars, browsed, browsed', NEW m \in list \ list'
    PROVE  \E i \in DOMAIN log' :
              log'[i].status = "success" /\ log'[i].msg # None /\ SameMessage(log'[i].msg, m)
<1>1. CASE UNCHANGED list
  BY <1>1
<1>2. CASE ClearList
  BY <1>2 DEF ClearList
<1>3. CASE \E mode \in Modes : Browse(mode)
  BY <1>3 DEF Browse
<1>4. CASE PeekAnswered
  <2>1. list \subseteq list'
    BY <1>4 DEF PeekAnswered, Fill
  <2> QED
    BY <2>1
<1>5. ASSUME NEW i \in runs, NEW status \in {"success", "error", "unknown"}, Finish(i, status)
      PROVE  \E j \in DOMAIN log' :
                log'[j].status = "success" /\ log'[j].msg # None /\ SameMessage(log'[j].msg, m)
  <2>1. i \in DOMAIN log /\ log \in Seq(Entries) /\ log' = Settled(i, status) /\ m.at = Here
    BY <1>5 DEF ViewInv, TypeOK, Finish, ListOfSelection
  <2>2. /\ status = "success" /\ log[i].msg \in Msg /\ log[i].msg.at = Here
        /\ Key(m) = Key(log[i].msg)
    BY <1>5, FinishFacts
  <2>3. i \in DOMAIN log' /\ log'[i].status = status /\ log'[i].msg = log[i].msg
    BY <1>5, <2>1, SettledFacts
  <2> QED
    BY <2>1, <2>2, <2>3, ViewAssumption DEF SameMessage
<1>6. UNCHANGED list \/ ClearList \/ (\E mode \in Modes : Browse(mode)) \/ PeekAnswered
      \/ \E i \in runs : \E status \in {"success", "error", "unknown"} : Finish(i, status)
  <2>1. CASE User
    <3>1. CASE \/ \E k \in Conns \cup {None} : SetActive(k)
               \/ \E e \in Names : Select(e)
               \/ EntityGone \/ ClearLoaded
      BY <3>1 DEF SetActive, Select, EntityGone, ClearLoaded, ResetGrid
    <3>2. CASE \/ \E n \in list : SelectMessage(n) \/ OpenMenu(n)
               \/ CloseMenu \/ OpenMove \/ CloseMove \/ \E mode \in Modes : LoadMore(mode)
      BY <3>2 DEF SelectMessage, OpenMenu, CloseMenu, OpenMove, CloseMove, LoadMore, viewVars
    <3>3. CASE Confirm("Delete") \/ Confirm("Replay") \/ Resend \/ Move \/ Bulk
               \/ \E i \in DOMAIN log : Review(i)
      BY <3>3 DEF Confirm, Resend, Move, Bulk, Review, viewVars
    <3> QED
      BY <2>1, <3>1, <3>2, <3>3 DEF User
  <2>2. CASE Answer
    BY <2>2 DEF Answer, PeekFails, viewVars
  <2>3. CASE Broker
    BY <2>3 DEF Broker, PeekAtBroker, WorkerActs, WorkerTakes, DeadLetter, viewVars
  <2>4. CASE UNCHANGED vars
    BY <2>4 DEF vars, viewVars
  <2> QED
    BY <2>1, <2>2, <2>3, <2>4 DEF Next
<1> QED
  BY <1>1, <1>2, <1>3, <1>4, <1>5, <1>6

\* A message leaves a list that stays on display only after an operation on this
\* very message has succeeded (finishMessageOperation, removePeekedMessageByKey).
THEOREM RemovalsWereDone == Spec => RemovedWereDone
<1> DEFINE Removed == browsed /\ browsed' => \A m \in list \ list' : \E i \in DOMAIN log' :
                log'[i].status = "success" /\ log'[i].msg # None /\ SameMessage(log'[i].msg, m)
<1>1. ViewInv /\ [Next]_vars => [Removed]_vars
  <2> SUFFICES ASSUME ViewInv, [Next]_vars, browsed, browsed', NEW m \in list \ list'
               PROVE  \E i \in DOMAIN log' :
                        log'[i].status = "success" /\ log'[i].msg # None /\ SameMessage(log'[i].msg, m)
    OBVIOUS
  <2> QED
    BY ViewAssumption, OnlyDoneRemoved
<1> QED
  BY <1>1, ViewInvariance, PTL DEF Spec, RemovedWereDone

=============================================================================
