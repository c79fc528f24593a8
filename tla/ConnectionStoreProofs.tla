----------------------- MODULE ConnectionStoreProofs -----------------------
(***************************************************************************)
(* Theorems about the connections, for any number of them.                 *)
(*                                                                         *)
(* First Connections: the list and the connection in use follow what is    *)
(* stored, and the other views are given what ActiveConnection promises.   *)
(*                                                                         *)
(* Then ConfigStore: through failing calls, crashes and the loss of the    *)
(* primary file, what is stored can be opened, says what the user was      *)
(* told, and keeps no secret as text once a full load has succeeded.       *)
(***************************************************************************)
EXTENDS Connections, ConfigStore, SequenceTheorems, TLAPS

-----------------------------------------------------------------------------
(* Connections: types, and what the operators do to them.                  *)

StoreType ==
    /\ stored \in Seq(Connection) /\ inUse \in 0..MaxIds /\ made \in 0..MaxIds
    /\ exported \in Seq(Connection)
ListType == list \in SUBSET Entry /\ conn \in 0..MaxIds
PanelType ==
    /\ panel \in BOOLEAN /\ form \in Forms \cup {Nothing}
    /\ fetching \in 0..MaxIds /\ deleting \in 0..MaxIds
    /\ dialogs \in [{"import", "export"} -> {"closed", "open", "busy"}]
CallsType == calls \in Seq(CallType) /\ asked \in Nat

\* A call that reports to the form has one, and one that saves has its fields.
FormCalls ==
    \A i \in DOMAIN calls :
        /\ "form" \in calls[i].views => form # Nothing
        /\ calls[i].cmd = "save" => calls[i].label \in Labels

ConnectionTypes == StoreType /\ ListType /\ PanelType /\ CallsType /\ FormCalls

\* The parts are the type invariant, and more.
LEMMA ConnectionTypesImply == ConnectionTypes => ConnectionTypeOK
  BY DEF ConnectionTypes, StoreType, ListType, PanelType, CallsType, ConnectionTypeOK

\* A new call is well formed.
LEMMA CallTyped ==
    ASSUME NEW cmd \in Commands, NEW id \in 0..MaxIds, NEW l \in Labels \cup {Nothing},
           NEW k \in Credentials \cup {Nothing}, NEW views \in SUBSET Views
    PROVE  Call(cmd, id, l, k, views) \in CallType
  BY DEF Call, CallType

\* Appending a call, and taking views from the calls, leave the rest as it is.
LEMMA AskFacts ==
    ASSUME ConnectionTypes, NEW c \in CallType, Ask(c)
    PROVE  /\ CallsType'
           /\ DOMAIN calls' = 1..(Len(calls) + 1) /\ DOMAIN calls = 1..Len(calls)
           /\ \A i \in DOMAIN calls : calls'[i] = calls[i]
           /\ calls'[Len(calls) + 1] = c
<1>1. calls \in Seq(CallType) /\ calls' = Append(calls, c) /\ asked' = asked + 1
  BY DEF ConnectionTypes, CallsType, Ask
<1> QED
  BY <1>1, AppendProperties DEF ConnectionTypes, CallsType

\* A view that goes away takes its calls' replies with it, and nothing else of them.
LEMMA UnmountFacts ==
    ASSUME ConnectionTypes, NEW V, Unmount(V)
    PROVE  /\ CallsType'
           /\ DOMAIN calls' = DOMAIN calls
           /\ \A i \in DOMAIN calls :
                /\ calls'[i].cmd = calls[i].cmd /\ calls'[i].label = calls[i].label
                /\ calls'[i].answer = calls[i].answer
                /\ calls'[i].views = calls[i].views \ V
<1>1. calls \in Seq(CallType) /\ \A i \in DOMAIN calls : calls[i] \in CallType
  BY ElementOfSeq, LenProperties DEF ConnectionTypes, CallsType
<1>2. calls' = [i \in 1..Len(calls) |-> [calls[i] EXCEPT !.views = @ \ V]] /\ asked' = asked
  BY <1>1, LenProperties DEF Unmount
<1>3. \A i \in 1..Len(calls) : [calls[i] EXCEPT !.views = @ \ V] \in CallType
  BY <1>1, LenProperties DEF CallType
<1>4. calls' \in Seq(CallType)
  BY <1>1, <1>2, <1>3, LenProperties, IsASeq
<1> QED
  BY <1>1, <1>2, <1>4, LenProperties DEF CallType, ConnectionTypes, CallsType

-----------------------------------------------------------------------------
\* The identifiers a list of stored connections shows.
LEMMA StoredIds ==
    ASSUME NEW s
    PROVE  \A id : id \in IdsOf(PublicList(s)) <=> \E i \in DOMAIN s : s[i].id = id
<1>1. \A i \in DOMAIN s : Public(s[i]).id = s[i].id
  BY DEF Public
<1> QED
  BY <1>1 DEF IdsOf, PublicList

\* A list that keeps every entry of another lists every id of it.
LEMMA MoreIds ==
    ASSUME NEW s, NEW t, \A i \in DOMAIN s : i \in DOMAIN t /\ t[i] = s[i]
    PROVE  IdsOf(PublicList(s)) \subseteq IdsOf(PublicList(t))
<1> SUFFICES ASSUME NEW id, id \in IdsOf(PublicList(s))
             PROVE  id \in IdsOf(PublicList(t))
  OBVIOUS
<1>1. PICK i \in DOMAIN s : s[i].id = id
  BY StoredIds
<1>2. i \in DOMAIN t /\ t[i].id = id
  BY <1>1
<1> QED
  BY <1>2, StoredIds

\* What is listed of stored connections are entries, with ids already given.
LEMMA EntriesTyped ==
    ASSUME NEW s \in Seq(Connection)
    PROVE  PublicList(s) \in SUBSET Entry /\ IdsOf(PublicList(s)) \subseteq 1..MaxIds
<1>1. \A i \in DOMAIN s : s[i] \in Connection
  BY ElementOfSeq, LenProperties
<1> QED
  BY <1>1 DEF PublicList, Public, IdsOf, Entry, Connection

\* What each command does to the stored connections.
LEMMA SavedFacts ==
    ASSUME StoreType, ConnectionsAssumption, NEW c \in CallType, c.label \in Labels,
           c.id = 0 => made + 1 <= MaxIds
    PROVE  /\ Saved(c).stored \in Seq(Connection)
           /\ IdsOf(PublicList(stored)) \subseteq IdsOf(PublicList(Saved(c).stored))
           /\ Saved(c).inUse = inUse
<1> DEFINE new == [id |-> made + 1, label |-> c.label, key |-> c.key]
<1> DEFINE edited == [id |-> c.id, label |-> c.label, key |-> c.key]
<1>1. stored \in Seq(Connection) /\ \A i \in DOMAIN stored : stored[i] \in Connection
  BY ElementOfSeq, LenProperties DEF StoreType
<1>2. CASE c.id = 0
  <2>1. new \in Connection
    BY <1>2 DEF Connection, CallType, StoreType, ConnectionsAssumption
  <2>2. Saved(c) = [stored |-> Append(stored, new), inUse |-> inUse, made |-> made + 1]
    BY <1>2 DEF Saved, After
  <2>3. Append(stored, new) \in Seq(Connection)
        /\ DOMAIN stored \subseteq DOMAIN Append(stored, new)
        /\ \A i \in DOMAIN stored : Append(stored, new)[i] = stored[i]
    BY <1>1, <2>1, AppendProperties, LenProperties
  <2> HIDE DEF new
  <2>4. IdsOf(PublicList(stored)) \subseteq IdsOf(PublicList(Append(stored, new)))
    BY <2>3, MoreIds
  <2> QED
    BY <2>2, <2>3, <2>4
<1>3. CASE c.id # 0
  <2>1. c.id \in 1..MaxIds /\ edited \in Connection
    BY <1>3 DEF Connection, CallType, ConnectionsAssumption
  <2> DEFINE cs == [i \in DOMAIN stored |-> IF stored[i].id = c.id THEN edited ELSE stored[i]]
  <2>2. Saved(c) = [stored |-> cs, inUse |-> inUse, made |-> made]
    BY <1>3 DEF Saved, After
  <2>3. DOMAIN cs = DOMAIN stored /\ \A i \in DOMAIN stored : cs[i] \in Connection /\ cs[i].id = stored[i].id
    BY <1>1, <2>1
  <2>4. cs \in Seq(Connection)
    BY <1>1, <2>3, LenProperties, IsASeq
  <2> HIDE DEF cs
  <2> QED
    BY <2>2, <2>3, <2>4, StoredIds
<1> QED
  BY <1>2, <1>3

\* Deleting a connection removes its id alone, and it is no longer in use.
LEMMA DeletedFacts ==
    ASSUME StoreType, NEW c \in CallType
    PROVE  /\ Deleted(c).stored \in Seq(Connection)
           /\ IdsOf(PublicList(stored)) \ {c.id} \subseteq IdsOf(PublicList(Deleted(c).stored))
           /\ Deleted(c).inUse = IF inUse = c.id THEN 0 ELSE inUse
<1>1. stored \in Seq(Connection) /\ \A i \in DOMAIN stored : stored[i] \in Connection
  BY ElementOfSeq, LenProperties DEF StoreType
<1>2. DOMAIN stored = 1..Len(stored) /\ Len(stored) \in Nat
  BY <1>1, LenProperties
<1>3. CASE Known(c.id)
  <2> DEFINE place == CHOOSE i \in DOMAIN stored : stored[i].id = c.id
  <2> DEFINE cs == [i \in 1..(Len(stored) - 1) |-> stored[IF i < place THEN i ELSE i + 1]]
  <2>1. place \in 1..Len(stored) /\ stored[place].id = c.id
    BY <1>2, <1>3 DEF Known
  <2>2. Deleted(c).stored = cs
    BY <1>3 DEF Deleted, After, Without
  <2> HIDE DEF place
  <2>3. \A i \in 1..(Len(stored) - 1) : cs[i] \in Connection
    BY <1>1, <1>2, <2>1
  <2>4. cs \in Seq(Connection)
    BY <1>2, <2>1, <2>3, IsASeq
  <2>5. \A i \in DOMAIN stored : stored[i].id # c.id => \E j \in DOMAIN cs : cs[j].id = stored[i].id
    <3> SUFFICES ASSUME NEW i \in 1..Len(stored), stored[i].id # c.id
                 PROVE  \E j \in 1..(Len(stored) - 1) : cs[j].id = stored[i].id
      BY <1>2
    <3>1. CASE i < place
      BY <1>2, <2>1, <3>1
    <3>2. CASE place < i
      <4>1. i - 1 \in 1..(Len(stored) - 1) /\ ~(i - 1 < place) /\ (i - 1) + 1 = i
        BY <1>2, <2>1, <3>2
      <4>2. cs[i - 1] = stored[i]
        BY <4>1
      <4> QED
        BY <4>1, <4>2
    <3> QED
      BY <1>2, <2>1, <3>1, <3>2
  <2> HIDE DEF cs
  <2> QED
    BY <2>2, <2>4, <2>5, StoredIds DEF Deleted, After
<1>4. CASE ~Known(c.id)
  BY <1>1, <1>4 DEF Deleted, After, Without
<1> QED
  BY <1>3, <1>4

\* The imported connections get new ids, while there are any left.
LEMMA RenewedFacts ==
    ASSUME StoreType, ConnectionsAssumption, made + Len(exported) <= MaxIds
    PROVE  Renewed \in Seq(Connection)
<1>1. exported \in Seq(Connection) /\ Len(exported) \in Nat /\ DOMAIN exported = 1..Len(exported)
      /\ \A i \in DOMAIN exported : exported[i] \in Connection
  BY ElementOfSeq, LenProperties DEF StoreType
<1>2. \A i \in 1..Len(exported) : [exported[i] EXCEPT !.id = made + i] \in Connection
  <2> SUFFICES ASSUME NEW i \in 1..Len(exported)
               PROVE  [exported[i] EXCEPT !.id = made + i] \in Connection
    OBVIOUS
  <2>1. made + i \in 1..MaxIds
    BY <1>1 DEF StoreType, ConnectionsAssumption
  <2>2. exported[i] \in [id : 1..MaxIds, label : Labels, key : Credentials \cup {Nothing}]
    BY <1>1 DEF Connection
  <2> QED
    BY <2>1, <2>2 DEF Connection
<1> QED
  BY <1>1, <1>2, IsASeq DEF Renewed

\* An import adds to what is stored and changes neither what was there nor the one in use.
LEMMA MergedFacts ==
    ASSUME StoreType, ConnectionsAssumption, made + Len(exported) <= MaxIds
    PROVE  /\ Merged.stored \in Seq(Connection)
           /\ IdsOf(PublicList(stored)) \subseteq IdsOf(PublicList(Merged.stored))
           /\ Merged.inUse = inUse
<1>1. stored \in Seq(Connection) /\ Renewed \in Seq(Connection)
  BY RenewedFacts DEF StoreType
<1>2. stored \o Renewed \in Seq(Connection) /\ DOMAIN stored \subseteq DOMAIN (stored \o Renewed)
      /\ \A i \in DOMAIN stored : (stored \o Renewed)[i] = stored[i]
  BY <1>1, ConcatProperties, LenProperties
<1>3. IdsOf(PublicList(stored)) \subseteq IdsOf(PublicList(stored \o Renewed))
  BY <1>2, MoreIds
<1> QED
  BY <1>2, <1>3 DEF Merged, After

-----------------------------------------------------------------------------
\* What any command leaves: well formed connections, and identifiers go only by
\* a deletion or a replacement.
LEMMA ResultFacts ==
    ASSUME StoreType, ConnectionsAssumption, NEW c \in CallType,
           c.cmd = "save" => c.label \in Labels, WithinBound(c), Possible(c)
    PROVE  LET R == Result(c) IN
           /\ R.stored \in Seq(Connection) /\ R.inUse \in 0..MaxIds /\ R.made \in 0..MaxIds
           /\ c.cmd \notin {"delete", "replace"} =>
                IdsOf(PublicList(stored)) \subseteq IdsOf(PublicList(R.stored))
           /\ c.cmd = "delete" =>
                IdsOf(PublicList(stored)) \ {c.id} \subseteq IdsOf(PublicList(R.stored))
           /\ c.cmd \in {"load", "get", "export"} => R.stored = stored
           /\ c.cmd \in {"load", "get", "export", "save", "merge"} => R.inUse = inUse
           /\ c.cmd = "replace" => R.inUse = 0
           /\ c.cmd = "delete" => R.inUse = IF inUse = c.id THEN 0 ELSE inUse
           /\ c.cmd = "use" => R.inUse \in IdsOf(PublicList(stored))
<1>t. /\ stored \in Seq(Connection) /\ inUse \in 0..MaxIds /\ made \in 0..MaxIds
      /\ exported \in Seq(Connection) /\ Len(exported) \in Nat /\ MaxIds \in Nat
      /\ c.cmd \in Commands /\ c.id \in 0..MaxIds
  BY LenProperties DEF StoreType, CallType, ConnectionsAssumption
<1>1. CASE c.cmd = "save"
  <2>1. Result(c) = Saved(c)
    BY <1>1 DEF Result
  <2>2. Saved(c).made = IF c.id = 0 THEN made + 1 ELSE made
    BY DEF Saved, After
  <2>3. Saved(c).made <= MaxIds
    BY <2>1 DEF WithinBound
  <2> QED
    BY <1>1, <1>t, <2>1, <2>2, <2>3, SavedFacts
<1>2. CASE c.cmd = "delete"
  <2>1. Result(c) = Deleted(c)
    BY <1>2 DEF Result
  <2>2. Deleted(c).made = made
    BY DEF Deleted, After
  <2> QED
    BY <1>2, <1>t, <2>1, <2>2, DeletedFacts
<1>3. CASE c.cmd = "merge"
  <2>1. Result(c) = Merged
    BY <1>3 DEF Result
  <2>2. Merged.made = made + Len(exported)
    BY DEF Merged, After
  <2>3. Merged.made <= MaxIds
    BY <2>1 DEF WithinBound
  <2> QED
    BY <1>3, <1>t, <2>1, <2>2, <2>3, MergedFacts
<1>4. CASE c.cmd = "replace"
  <2>1. Result(c) = Replaced
    BY <1>4 DEF Result
  <2>2. Replaced.made = made + Len(exported) /\ Replaced.inUse = 0 /\ Replaced.stored = Renewed
    BY DEF Replaced, After
  <2>3. Replaced.made <= MaxIds
    BY <2>1 DEF WithinBound
  <2> QED
    BY <1>4, <1>t, <2>1, <2>2, <2>3, RenewedFacts
<1>5. CASE c.cmd = "use"
  <2>1. /\ Result(c).stored = stored /\ Result(c).inUse = c.id /\ Result(c).made = made
    BY <1>5 DEF Result, After
  <2>2. c.id \in IdsOf(PublicList(stored))
    BY <1>5, StoredIds DEF Possible, Known
  <2> QED
    BY <1>5, <1>t, <2>1, <2>2
<1>6. CASE c.cmd \in {"load", "get", "export"}
  <2>1. /\ Result(c).stored = stored /\ Result(c).inUse = inUse /\ Result(c).made = made
    BY <1>6 DEF Result, After
  <2> QED
    BY <1>6, <1>t, <2>1
<1> QED
  BY <1>1, <1>2, <1>3, <1>4, <1>5, <1>6, <1>t DEF Commands

\* A command that runs answers one call and stores its result.
LEMMA RunFacts ==
    ASSUME ConnectionTypes, ConnectionsAssumption, NEW n \in DOMAIN calls, Run(n)
    PROVE  /\ ConnectionTypes'
           /\ DOMAIN calls' = DOMAIN calls
           /\ \A i \in DOMAIN calls : i # n => calls'[i] = calls[i]
           /\ calls'[n].cmd = calls[n].cmd
           /\ calls'[n].answer = AnswerOf(Result(calls[n]))
           /\ calls'[n].answer \in Answers
           /\ stored' = Result(calls[n]).stored /\ inUse' = Result(calls[n]).inUse
<1>1. calls \in Seq(CallType) /\ DOMAIN calls = 1..Len(calls) /\ Len(calls) \in Nat
      /\ \A i \in DOMAIN calls : calls[i] \in CallType
  BY ElementOfSeq, LenProperties DEF ConnectionTypes, CallsType
<1> DEFINE c == calls[n]
<1>2. c \in CallType /\ Possible(c) /\ WithinBound(c) /\ (c.cmd = "save" => c.label \in Labels)
  BY <1>1 DEF Run, ConnectionTypes, FormCalls
<1>3. StoreType
  BY DEF ConnectionTypes
<1>4. /\ Result(c).stored \in Seq(Connection) /\ Result(c).inUse \in 0..MaxIds
      /\ Result(c).made \in 0..MaxIds
  BY <1>2, <1>3, ResultFacts
<1>5. /\ stored' = Result(c).stored /\ inUse' = Result(c).inUse /\ made' = Result(c).made
      /\ exported' = (IF c.cmd = "export" THEN stored ELSE exported)
      /\ calls' = [calls EXCEPT ![n] = [c EXCEPT !.answer = AnswerOf(Result(c))]]
      /\ UNCHANGED <<listVars, panelVars, asked>>
  BY DEF Run
<1>6. AnswerOf(Result(c)) \in Answers
  BY <1>4, EntriesTyped DEF AnswerOf, Answers
<1>7. [c EXCEPT !.answer = AnswerOf(Result(c))] \in CallType
      /\ [c EXCEPT !.answer = AnswerOf(Result(c))].answer = AnswerOf(Result(c))
      /\ [c EXCEPT !.answer = AnswerOf(Result(c))].cmd = c.cmd
      /\ [c EXCEPT !.answer = AnswerOf(Result(c))].views = c.views
      /\ [c EXCEPT !.answer = AnswerOf(Result(c))].label = c.label
  BY <1>2, <1>6 DEF CallType
<1>8. calls' \in Seq(CallType)
  BY <1>1, <1>5, <1>7, ExceptSeq
<1>9. StoreType'
  BY <1>3, <1>4, <1>5 DEF StoreType
<1>10. /\ DOMAIN calls' = DOMAIN calls
       /\ \A i \in DOMAIN calls : i # n => calls'[i] = calls[i]
       /\ calls'[n] = [c EXCEPT !.answer = AnswerOf(Result(c))]
  BY <1>1, <1>5
<1>11. FormCalls'
  BY <1>5, <1>7, <1>10 DEF FormCalls, ConnectionTypes, panelVars
<1>12. ListType' /\ PanelType' /\ CallsType'
  BY <1>5, <1>8 DEF ConnectionTypes, ListType, PanelType, CallsType, listVars, panelVars
<1> QED
  BY <1>5, <1>6, <1>7, <1>9, <1>10, <1>11, <1>12 DEF ConnectionTypes

\* A command that fails has an answer and changes nothing that is stored or listed.
LEMMA RunFailsFacts ==
    ASSUME ConnectionTypes, ConnectionsAssumption, NEW n \in DOMAIN calls, RunFails(n)
    PROVE  /\ ConnectionTypes'
           /\ DOMAIN calls' = DOMAIN calls
           /\ \A i \in DOMAIN calls : i # n => calls'[i] = calls[i]
           /\ calls'[n].cmd = calls[n].cmd
           /\ calls'[n].answer = Failure /\ Failure \in Answers
           /\ UNCHANGED <<storeVars, listVars>>
<1>1. calls \in Seq(CallType) /\ DOMAIN calls = 1..Len(calls) /\ Len(calls) \in Nat
      /\ \A i \in DOMAIN calls : calls[i] \in CallType
  BY ElementOfSeq, LenProperties DEF ConnectionTypes, CallsType
<1> DEFINE c == calls[n]
<1>5. /\ calls' = [calls EXCEPT ![n] = [c EXCEPT !.answer = Failure]]
      /\ UNCHANGED <<storeVars, listVars, panelVars, asked>>
  BY DEF RunFails
<1>6. Failure \in Answers
  BY DEF Failure, Answers, ConnectionsAssumption
<1>7. [c EXCEPT !.answer = Failure] \in CallType
      /\ [c EXCEPT !.answer = Failure].answer = Failure
      /\ [c EXCEPT !.answer = Failure].cmd = c.cmd
      /\ [c EXCEPT !.answer = Failure].views = c.views
      /\ [c EXCEPT !.answer = Failure].label = c.label
  BY <1>1, <1>6 DEF CallType
<1>8. calls' \in Seq(CallType)
  BY <1>1, <1>5, <1>7, ExceptSeq
<1>10. /\ DOMAIN calls' = DOMAIN calls
       /\ \A i \in DOMAIN calls : i # n => calls'[i] = calls[i]
       /\ calls'[n] = [c EXCEPT !.answer = Failure]
  BY <1>1, <1>5
<1>11. FormCalls'
  BY <1>5, <1>7, <1>10 DEF FormCalls, ConnectionTypes, panelVars
<1>12. ListType' /\ PanelType' /\ CallsType' /\ StoreType'
  BY <1>5, <1>8 DEF ConnectionTypes, ListType, PanelType, CallsType, StoreType, listVars,
                    panelVars, storeVars
<1> QED
  BY <1>5, <1>6, <1>7, <1>10, <1>11, <1>12 DEF ConnectionTypes

\* The value an answer gives to the connection in use.
Value(call) == IF call.cmd = "load" THEN 0 ELSE call.answer.inUse

\* The form a finished command leaves open, or none.
LEMMA FormAfterTyped ==
    ASSUME PanelType, ListType, NothingAssumption, NEW c \in CallType,
           "form" \in c.views => form # Nothing
    PROVE  FormAfter(c) \in Forms \cup {Nothing}
<1>1. CASE c.cmd = "get" /\ c.answer.ok /\ "panel" \in c.views /\ ~(form # Nothing /\ form.id = c.id)
  <2> DEFINE shown == CHOOSE e \in list : e.id = c.id
  <2> DEFINE l == IF \E e \in list : e.id = c.id THEN shown.label ELSE Nothing
  <2>1. ASSUME \E e \in list : e.id = c.id PROVE shown \in Entry
    <3>1. shown \in list
      BY <2>1
    <3> QED
      BY <3>1 DEF ListType
  <2>2. l \in Labels \cup {Nothing}
    BY <2>1 DEF Entry
  <2>3. [id |-> c.id, key |-> Nothing, saving |-> FALSE, label |-> l] \in Forms
    BY <2>2 DEF Forms, CallType
  <2>4. FormAfter(c) = [id |-> c.id, key |-> Nothing, saving |-> FALSE, label |-> l]
    BY <1>1 DEF FormAfter
  <2> QED
    BY <2>3, <2>4
<1>2. CASE c.cmd = "get" /\ c.answer.ok /\ "panel" \in c.views /\ form # Nothing /\ form.id = c.id
  BY <1>2 DEF FormAfter, PanelType
<1>3. CASE c.cmd = "save" /\ c.answer.ok /\ "panel" \in c.views
  BY <1>3 DEF FormAfter
<1>4. CASE c.cmd = "save" /\ ~c.answer.ok /\ "form" \in c.views
  <2>1. form \in Forms
    BY <1>4 DEF PanelType
  <2>2. [form EXCEPT !.saving = FALSE] \in Forms
    BY <2>1 DEF Forms
  <2>3. FormAfter(c) = [form EXCEPT !.saving = FALSE]
    BY <1>4 DEF FormAfter
  <2> QED
    BY <2>2, <2>3
<1>5. CASE /\ ~(c.cmd = "get" /\ c.answer.ok /\ "panel" \in c.views)
           /\ ~(c.cmd = "save" /\ c.answer.ok /\ "panel" \in c.views)
           /\ ~(c.cmd = "save" /\ ~c.answer.ok /\ "form" \in c.views)
  BY <1>5 DEF FormAfter, PanelType
<1> QED
  BY <1>1, <1>2, <1>3, <1>4, <1>5

\* An answer takes the first call away; the list and the connection in use are
\* taken over from it.
LEMMA AnsweredFacts ==
    ASSUME ConnectionTypes, ConnectionsAssumption, NothingAssumption, Answered
    PROVE  /\ ConnectionTypes'
           /\ 1 \in DOMAIN calls /\ calls[1].answer \in Answers
           /\ \A i \in DOMAIN calls' : i \in Nat /\ i >= 1 /\ i + 1 \in DOMAIN calls
           /\ \A i \in DOMAIN calls : i # 1 => i \in Nat /\ i >= 1 /\ i - 1 \in DOMAIN calls'
           /\ \A i \in DOMAIN calls' :
                calls'[i].cmd = calls[i + 1].cmd /\ calls'[i].answer = calls[i + 1].answer
           /\ UNCHANGED <<stored, inUse>>
           /\ list' = IF Lists(calls[1]) THEN calls[1].answer.list ELSE list
           /\ conn' = IF Switches(calls[1]) THEN Value(calls[1]) ELSE conn
<1>1. calls \in Seq(CallType) /\ DOMAIN calls = 1..Len(calls) /\ Len(calls) \in Nat
      /\ \A i \in DOMAIN calls : calls[i] \in CallType
  BY ElementOfSeq, LenProperties DEF ConnectionTypes, CallsType
<1>2. calls # <<>> /\ Len(calls) # 0 /\ Head(calls) = calls[1] /\ 1 \in DOMAIN calls
      /\ calls[1].answer \in Answers
  <2>1. calls # <<>> /\ Head(calls).answer # Nothing
    BY DEF Answered
  <2>2. Len(calls) # 0
    BY <1>1, <2>1, EmptySeq
  <2>3. Head(calls) = calls[1]
    BY <1>1, <2>1, HeadTailProperties
  <2> QED
    BY <1>1, <2>1, <2>2, <2>3 DEF CallType
<1> DEFINE c == calls[1]
<1> DEFINE rest == Tail(calls)
<1>3. /\ rest \in Seq(CallType) /\ DOMAIN rest = 1..(Len(calls) - 1) /\ Len(rest) = Len(calls) - 1
      /\ \A i \in 1..(Len(calls) - 1) : rest[i] = calls[i + 1]
  BY <1>1, <1>2, HeadTailProperties, LenProperties
<1>4. /\ list' = (IF Lists(c) THEN c.answer.list ELSE list)
      /\ conn' = (IF ~Switches(c) THEN conn
                  ELSE IF c.cmd = "load" THEN 0 ELSE c.answer.inUse)
      /\ form' = FormAfter(c)
      /\ fetching' = (IF c.cmd = "get" /\ "panel" \in c.views THEN 0 ELSE fetching)
      /\ deleting' = (IF c.cmd = "delete" /\ "panel" \in c.views THEN 0 ELSE deleting)
      /\ dialogs' = DialogsAfter(c)
      /\ calls' = (IF form = Nothing \/ (form' # Nothing /\ form'.id = form.id
                                         /\ form.id \in IdsOf(list') \cup {0})
                   THEN rest
                   ELSE [i \in DOMAIN rest |-> [rest[i] EXCEPT !.views = @ \ {"form"}]])
      /\ UNCHANGED <<storeVars, panel, asked>>
  BY <1>2 DEF Answered
<1> DEFINE stays == form = Nothing \/ (form' # Nothing /\ form'.id = form.id
                                       /\ form.id \in IdsOf(list') \cup {0})
<1>5. c \in CallType /\ ("form" \in c.views => form # Nothing)
  BY <1>1, <1>2 DEF ConnectionTypes, FormCalls
<1>6. ListType'
  <2>1. c.answer.list \in SUBSET Entry /\ c.answer.inUse \in 0..MaxIds
    BY <1>2 DEF Answers
  <2> QED
    BY <1>4, <2>1 DEF ConnectionTypes, ListType, ConnectionsAssumption
<1>7. PanelType'
  <2>1. FormAfter(c) \in Forms \cup {Nothing}
    BY <1>5, FormAfterTyped DEF ConnectionTypes
  <2>2. DialogsAfter(c) \in [{"import", "export"} -> {"closed", "open", "busy"}]
    BY DEF DialogsAfter, ConnectionTypes, PanelType
  <2>3. 0 \in 0..MaxIds
    BY DEF ConnectionsAssumption
  <2> QED
    BY <1>4, <2>1, <2>2, <2>3 DEF ConnectionTypes, PanelType
<1>8. /\ calls' \in Seq(CallType) /\ DOMAIN calls' = 1..(Len(calls) - 1)
      /\ \A i \in DOMAIN calls' :
            /\ calls'[i].cmd = calls[i + 1].cmd /\ calls'[i].answer = calls[i + 1].answer
            /\ calls'[i].label = calls[i + 1].label
            /\ "form" \in calls'[i].views => form' # Nothing
  <2>0. \A i \in 1..(Len(calls) - 1) : rest[i] \in CallType
    BY <1>3, ElementOfSeq
  <2>1. CASE stays
    <3>1. calls' = rest
      BY <1>4, <2>1
    <3>2. \A i \in DOMAIN rest : "form" \in rest[i].views => form' # Nothing
      <4> SUFFICES ASSUME NEW i \in DOMAIN rest, "form" \in rest[i].views PROVE form' # Nothing
        OBVIOUS
      <4>1. i + 1 \in DOMAIN calls /\ "form" \in calls[i + 1].views
        BY <1>1, <1>3
      <4>2. form # Nothing
        BY <4>1 DEF ConnectionTypes, FormCalls
      <4> QED
        BY <2>1, <4>2
    <3> QED
      BY <1>3, <3>1, <3>2
  <2>2. CASE ~stays
    <3> DEFINE f == [i \in 1..(Len(calls) - 1) |-> [rest[i] EXCEPT !.views = @ \ {"form"}]]
    <3>1. calls' = f
      BY <1>3, <1>4, <2>2
    <3>2. \A i \in 1..(Len(calls) - 1) :
             /\ [rest[i] EXCEPT !.views = @ \ {"form"}] \in CallType
             /\ [rest[i] EXCEPT !.views = @ \ {"form"}].cmd = rest[i].cmd
             /\ [rest[i] EXCEPT !.views = @ \ {"form"}].answer = rest[i].answer
             /\ [rest[i] EXCEPT !.views = @ \ {"form"}].label = rest[i].label
             /\ "form" \notin [rest[i] EXCEPT !.views = @ \ {"form"}].views
      BY <2>0 DEF CallType
    <3>3. Len(calls) - 1 \in Nat
      BY <1>1, <1>2
    <3>4. f \in Seq(CallType)
      BY <3>2, <3>3, IsASeq
    <3> QED
      BY <1>3, <3>1, <3>2, <3>4
  <2> QED
    BY <2>1, <2>2
<1>9. FormCalls'
  <2> SUFFICES ASSUME NEW i \in DOMAIN calls'
               PROVE  /\ "form" \in calls'[i].views => form' # Nothing
                      /\ calls'[i].cmd = "save" => calls'[i].label \in Labels
    BY DEF FormCalls
  <2>1. i + 1 \in DOMAIN calls
    BY <1>1, <1>8
  <2> QED
    BY <1>8, <2>1 DEF ConnectionTypes, FormCalls
<1>10. StoreType' /\ CallsType'
  BY <1>4, <1>8 DEF ConnectionTypes, StoreType, CallsType, storeVars
<1>11. /\ \A i \in DOMAIN calls' : i \in Nat /\ i >= 1 /\ i + 1 \in DOMAIN calls
       /\ \A i \in DOMAIN calls : i # 1 => i \in Nat /\ i >= 1 /\ i - 1 \in DOMAIN calls'
  BY <1>1, <1>8
<1> QED
  BY <1>2, <1>4, <1>6, <1>7, <1>8, <1>9, <1>10, <1>11 DEF ConnectionTypes, Value, storeVars

-----------------------------------------------------------------------------
(* Commands run in order, and only those that were answered count.         *)

Ran(i) == calls[i].answer # Nothing
Took(i) == Ran(i) /\ Lists(calls[i])
Moved(i) == Ran(i) /\ Switches(calls[i])

InOrder == \A i, j \in DOMAIN calls : i < j /\ Ran(j) => Ran(i)

\* The connection in use is stored, and listed in every answer.
UseStored ==
    /\ inUse \in IdsOf(PublicList(stored)) \cup {0}
    /\ \A i \in DOMAIN calls : Took(i) =>
          calls[i].answer.inUse \in IdsOf(calls[i].answer.list) \cup {0}

\* Connection v, set by answer m, is stored, and listed in every later answer,
\* up to the next answer that sets another one.
Stays(v, m) ==
    /\ \/ \E k \in DOMAIN calls : m < k /\ Moved(k)
       \/ v \in IdsOf(PublicList(stored)) \cup {0}
    /\ \A j \in DOMAIN calls : m < j /\ Took(j) =>
          \/ \E k \in DOMAIN calls : m < k /\ k <= j /\ Moved(k)
          \/ v \in IdsOf(calls[j].answer.list) \cup {0}

UseListed ==
    /\ conn \in IdsOf(list) \cup {0}
    /\ Stays(conn, 0)
    /\ \A i \in DOMAIN calls : Moved(i) => Stays(Value(calls[i]), i)

\* The last answer shows what is stored; without one the list does.
LatestList ==
    /\ (\A i \in DOMAIN calls : ~Took(i)) => list \in {PublicList(stored), {}}
    /\ \A i \in DOMAIN calls : Took(i) /\ (\A j \in DOMAIN calls : i < j => ~Took(j)) =>
          calls[i].answer.list = PublicList(stored)

LatestUse ==
    /\ (\A i \in DOMAIN calls : ~Moved(i)) => conn \in {0, inUse}
    /\ \A i \in DOMAIN calls : Moved(i) /\ (\A j \in DOMAIN calls : i < j => ~Moved(j)) =>
          Value(calls[i]) \in {0, inUse}

CommandInv == UseStored /\ UseListed /\ LatestList /\ LatestUse

ConnectionInv == ConnectionTypes /\ InOrder /\ CommandInv

\* The commands that take effect are the same before and after the step.
SameEffects ==
    /\ UNCHANGED <<stored, inUse, list, conn>>
    /\ DOMAIN calls \subseteq DOMAIN calls'
    /\ \A i \in DOMAIN calls :
         /\ (Took(i)' <=> Took(i)) /\ (Moved(i)' <=> Moved(i))
         /\ Took(i) => calls'[i].answer = calls[i].answer /\ calls'[i].cmd = calls[i].cmd
    /\ \A i \in DOMAIN calls' : i \notin DOMAIN calls => ~Took(i)' /\ ~Moved(i)'

\* A command that has moved on has taken effect.
LEMMA MovedTook == ASSUME NEW i, Moved(i) PROVE Took(i)
  BY DEF Moved, Took, Switches

\* What the commands promise holds on when none of them has a new effect.
LEMMA SameEffectsInv ==
    ASSUME CommandInv, SameEffects
    PROVE  CommandInv'
<1>1. UseStored'
  BY DEF CommandInv, UseStored, SameEffects
<1>2. \A i \in DOMAIN calls' : (Took(i)' => i \in DOMAIN calls /\ Took(i))
                               /\ (Moved(i)' => i \in DOMAIN calls /\ Moved(i))
  BY DEF SameEffects
<1>3. \A i \in DOMAIN calls : i \in DOMAIN calls' /\ (Took(i) => Took(i)') /\ (Moved(i) => Moved(i)')
  BY DEF SameEffects
<1>4. ASSUME NEW v, NEW m, Stays(v, m) PROVE Stays(v, m)'
  <2>1. (\E k \in DOMAIN calls' : m < k /\ Moved(k)') \/ v \in IdsOf(PublicList(stored')) \cup {0}
    BY <1>3, <1>4 DEF Stays, SameEffects
  <2>2. ASSUME NEW j \in DOMAIN calls', m < j, Took(j)'
        PROVE  \/ \E k \in DOMAIN calls' : m < k /\ k <= j /\ Moved(k)'
               \/ v \in IdsOf(calls'[j].answer.list) \cup {0}
    <3>1. j \in DOMAIN calls /\ Took(j) /\ calls'[j].answer = calls[j].answer
      BY <1>2, <2>2 DEF SameEffects
    <3>2. \/ \E k \in DOMAIN calls : m < k /\ k <= j /\ Moved(k)
          \/ v \in IdsOf(calls[j].answer.list) \cup {0}
      BY <1>4, <2>2, <3>1 DEF Stays
    <3> QED
      BY <1>3, <3>1, <3>2
  <2> QED
    BY <2>1, <2>2 DEF Stays
<1>5. UseListed'
  <2>1. conn' = conn /\ list' = list
    BY DEF SameEffects
  <2>2. Stays(conn, 0)'
    <3>1. Stays(conn, 0)
      BY DEF CommandInv, UseListed
    <3>2. ASSUME NEW v, v = conn PROVE Stays(v, 0)'
      <4>1. Stays(v, 0)
        BY <3>1, <3>2
      <4> QED
        BY <4>1, <1>4
    <3> QED
      BY <3>2, <2>1 DEF Stays
  <2>3. ASSUME NEW i \in DOMAIN calls', Moved(i)'
        PROVE  Stays(Value(calls[i]), i)'
    <3>1. i \in DOMAIN calls /\ Moved(i) /\ Took(i)
      BY <1>2, <2>3, MovedTook
    <3>2. Value(calls'[i]) = Value(calls[i])
      BY <3>1 DEF SameEffects, Value
    <3>3. PICK v : v = Value(calls[i])
      OBVIOUS
    <3>4. Stays(v, i)
      BY <3>1, <3>3 DEF CommandInv, UseListed
    <3>5. Stays(v, i)'
      BY <3>4, <1>4
    <3> QED
      BY <3>2, <3>3, <3>5 DEF Stays
  <2> QED
    BY <2>1, <2>2, <2>3 DEF UseListed, CommandInv
<1>6. LatestList'
  <2>1. (\A i \in DOMAIN calls' : ~Took(i)') => list' \in {PublicList(stored'), {}}
    BY <1>3 DEF CommandInv, LatestList, SameEffects
  <2>2. ASSUME NEW i \in DOMAIN calls', Took(i)', \A j \in DOMAIN calls' : i < j => ~Took(j)'
        PROVE  calls'[i].answer.list = PublicList(stored')
    <3>1. i \in DOMAIN calls /\ Took(i) /\ \A j \in DOMAIN calls : i < j => ~Took(j)
      BY <1>2, <1>3, <2>2
    <3> QED
      BY <3>1 DEF CommandInv, LatestList, SameEffects
  <2> QED
    BY <2>1, <2>2 DEF LatestList
<1>7. LatestUse'
  <2>1. (\A i \in DOMAIN calls' : ~Moved(i)') => conn' \in {0, inUse'}
    BY <1>3 DEF CommandInv, LatestUse, SameEffects
  <2>2. ASSUME NEW i \in DOMAIN calls', Moved(i)', \A j \in DOMAIN calls' : i < j => ~Moved(j)'
        PROVE  Value(calls'[i]) \in {0, inUse'}
    <3>1. i \in DOMAIN calls /\ Moved(i) /\ Took(i) /\ \A j \in DOMAIN calls : i < j => ~Moved(j)
      BY <1>2, <1>3, <2>2, MovedTook
    <3> QED
      BY <3>1 DEF CommandInv, LatestUse, SameEffects, Value
  <2> QED
    BY <2>1, <2>2 DEF LatestUse
<1> QED
  BY <1>1, <1>5, <1>6, <1>7 DEF CommandInv

-----------------------------------------------------------------------------
\* What the panel does to the calls: it appends one, takes views from them, or
\* leaves them.
LEMMA AskEffects ==
    ASSUME ConnectionTypes, InOrder, NEW c \in CallType, c.answer = Nothing, Ask(c),
           UNCHANGED <<storeVars, listVars>>, c.cmd = "save" => c.label \in Labels,
           "form" \in c.views => form' # Nothing, form # Nothing => form' # Nothing
    PROVE  CallsType' /\ FormCalls' /\ SameEffects /\ InOrder'
<1>1. /\ CallsType' /\ Len(calls) \in Nat
      /\ DOMAIN calls' = 1..(Len(calls) + 1) /\ DOMAIN calls = 1..Len(calls)
      /\ \A i \in DOMAIN calls : calls'[i] = calls[i]
      /\ calls'[Len(calls) + 1] = c
  BY AskFacts, LenProperties DEF ConnectionTypes, CallsType
<1>2. \A i \in DOMAIN calls' : i \in DOMAIN calls \/ (i = Len(calls) + 1 /\ calls'[i] = c)
  BY <1>1
<1>3. FormCalls'
  BY <1>1, <1>2 DEF FormCalls, ConnectionTypes
<1>4. \A i \in DOMAIN calls : /\ (Ran(i)' <=> Ran(i)) /\ (Took(i)' <=> Took(i)) /\ (Moved(i)' <=> Moved(i))
  BY <1>1 DEF Ran, Took, Moved, Lists, Switches
<1>5. \A i \in DOMAIN calls' : i \notin DOMAIN calls => ~Ran(i)' /\ ~Took(i)' /\ ~Moved(i)'
  BY <1>2 DEF Ran, Took, Moved
<1>6. SameEffects
  BY <1>1, <1>4, <1>5 DEF SameEffects, storeVars, listVars
<1>7. InOrder'
  <2> SUFFICES ASSUME NEW i \in DOMAIN calls', NEW j \in DOMAIN calls', i < j, Ran(j)'
               PROVE  Ran(i)'
    BY DEF InOrder
  <2>1. j \in DOMAIN calls
    BY <1>5
  <2>2. i \in DOMAIN calls
    BY <1>1, <2>1
  <2> QED
    BY <1>4, <2>1, <2>2 DEF InOrder
<1> QED
  BY <1>1, <1>3, <1>6, <1>7

\* The calls keep their commands and answers.
LEMMA KeptEffects ==
    ASSUME InOrder, UNCHANGED <<storeVars, listVars>>, DOMAIN calls' = DOMAIN calls,
           \A i \in DOMAIN calls : calls'[i].cmd = calls[i].cmd /\ calls'[i].answer = calls[i].answer
    PROVE  SameEffects /\ InOrder'
<1>1. \A i \in DOMAIN calls : /\ (Ran(i)' <=> Ran(i)) /\ (Took(i)' <=> Took(i)) /\ (Moved(i)' <=> Moved(i))
  BY DEF Ran, Took, Moved, Lists, Switches
<1> QED
  BY <1>1 DEF SameEffects, InOrder, storeVars, listVars

\* Closing a view has no effect on the store, and leaves the commands in order.
LEMMA UnmountEffects ==
    ASSUME ConnectionTypes, InOrder, NEW V, Unmount(V), UNCHANGED <<storeVars, listVars>>,
           "form" \in V \/ form' # Nothing \/ form = Nothing
    PROVE  CallsType' /\ FormCalls' /\ SameEffects /\ InOrder'
<1>1. /\ CallsType' /\ DOMAIN calls' = DOMAIN calls
      /\ \A i \in DOMAIN calls :
           /\ calls'[i].cmd = calls[i].cmd /\ calls'[i].label = calls[i].label
           /\ calls'[i].answer = calls[i].answer
           /\ calls'[i].views = calls[i].views \ V
  BY UnmountFacts
<1>2. FormCalls'
  BY <1>1 DEF FormCalls, ConnectionTypes
<1> QED
  BY <1>1, <1>2, KeptEffects

\* A step of the panel that makes no call has no effect on the commands.
LEMMA IdleEffects ==
    ASSUME ConnectionTypes, InOrder, UNCHANGED <<storeVars, listVars, callVars>>,
           form # Nothing => form' # Nothing
    PROVE  CallsType' /\ FormCalls' /\ SameEffects /\ InOrder'
<1>1. FormCalls' /\ CallsType'
  BY DEF FormCalls, ConnectionTypes, CallsType, callVars
<1> QED
  BY <1>1, KeptEffects DEF callVars

\* The panel asks for commands and answers none.
LEMMA PanelEffects ==
    ASSUME ConnectionTypes, InOrder, ConnectionsAssumption, NothingAssumption, PanelNext
    PROVE  ConnectionTypes' /\ SameEffects /\ InOrder'
<1>t. /\ MaxIds \in Nat /\ 0 \in 0..MaxIds /\ 1..MaxIds \subseteq 0..MaxIds
      /\ PanelType /\ form \in Forms \cup {Nothing}
      /\ StoreType /\ ListType
      /\ \A f \in Forms : f # Nothing
      /\ Nothing \in Labels \cup {Nothing} /\ Nothing \in Credentials \cup {Nothing}
  BY DEF ConnectionTypes, PanelType, ConnectionsAssumption, NothingAssumption
<1>a. ASSUME NEW c \in CallType, c.answer = Nothing, Ask(c), UNCHANGED <<storeVars, listVars>>,
             c.cmd = "save" => c.label \in Labels, "form" \in c.views => form' # Nothing,
             form # Nothing => form' # Nothing, PanelType'
      PROVE  ConnectionTypes' /\ SameEffects /\ InOrder'
  BY <1>a, <1>t, AskEffects DEF ConnectionTypes, StoreType, ListType, storeVars, listVars
<1>u. ASSUME NEW V, Unmount(V), UNCHANGED <<storeVars, listVars>>,
             "form" \in V \/ form' # Nothing \/ form = Nothing, PanelType'
      PROVE  ConnectionTypes' /\ SameEffects /\ InOrder'
  BY <1>u, <1>t, UnmountEffects DEF ConnectionTypes, StoreType, ListType, storeVars, listVars
<1>i. ASSUME UNCHANGED <<storeVars, listVars, callVars>>, form # Nothing => form' # Nothing, PanelType'
      PROVE  ConnectionTypes' /\ SameEffects /\ InOrder'
  BY <1>i, <1>t, IdleEffects DEF ConnectionTypes, StoreType, ListType, storeVars, listVars
<1>1. CASE OpenPanel
  <2>1. PanelType' /\ UNCHANGED <<storeVars, listVars, callVars, form>>
    BY <1>1, <1>t DEF OpenPanel, PanelType
  <2> QED
    BY <1>i, <2>1
<1>2. CASE ClosePanel
  <2>1. PanelType' /\ UNCHANGED <<storeVars, listVars>> /\ Unmount({"panel", "form", "import", "export"})
    BY <1>2, <1>t DEF ClosePanel, PanelType
  <2> QED
    BY <1>u, <2>1
<1>3. CASE NewForm
  <2>1. [id |-> 0, label |-> Nothing, key |-> Nothing, saving |-> FALSE] \in Forms
    BY <1>t DEF Forms
  <2>2. PanelType' /\ UNCHANGED <<storeVars, listVars>> /\ Unmount({"form"})
    BY <1>3, <1>t, <2>1 DEF NewForm, PanelType
  <2> QED
    BY <1>u, <2>2
<1>4. CASE CancelForm
  <2>1. PanelType' /\ UNCHANGED <<storeVars, listVars>> /\ Unmount({"form"})
    BY <1>4, <1>t DEF CancelForm, PanelType
  <2> QED
    BY <1>u, <2>1
<1>5. CASE SubmitForm
  <2>1. form \in Forms /\ form.label \in Labels /\ form.label # Nothing /\ form.id \in 0..MaxIds
        /\ form.key \in Credentials \cup {Nothing}
    BY <1>5, <1>t DEF SubmitForm, FormShown, Forms
  <2>2. form' = [form EXCEPT !.saving = TRUE] /\ form' \in Forms
    BY <1>5, <2>1 DEF SubmitForm, Forms
  <2>3. PanelType' /\ UNCHANGED <<storeVars, listVars>> /\ form' # Nothing
    BY <1>5, <1>t, <2>2 DEF SubmitForm, PanelType
  <2> DEFINE c == Call("save", form.id, form.label, form.key, {"panel", "form"})
  <2>4. Ask(c)
    BY <1>5 DEF SubmitForm
  <2>5. c \in CallType /\ c.label = form.label /\ c.answer = Nothing
    BY <2>1, CallTyped DEF Commands, Views, Call
  <2> QED
    BY <1>a, <2>1, <2>3, <2>4, <2>5
<1>6. ASSUME NEW l \in Labels, NEW k \in Credentials \cup {Nothing}, TypeInForm(l, k)
      PROVE  ConnectionTypes' /\ SameEffects /\ InOrder'
  <2>1. form \in Forms
    BY <1>6, <1>t DEF TypeInForm, FormShown
  <2>2. form' = [form EXCEPT !.label = l, !.key = k] /\ form' \in Forms
    BY <1>6, <2>1 DEF TypeInForm, Forms
  <2>3. PanelType' /\ UNCHANGED <<storeVars, listVars, callVars>> /\ form' # Nothing
    BY <1>6, <1>t, <2>2 DEF TypeInForm, PanelType
  <2> QED
    BY <1>i, <2>3
<1>7. ASSUME NEW id \in 1..MaxIds, Edit(id) \/ Delete(id) \/ Use(id) \/ SelectConnection(id)
      PROVE  ConnectionTypes' /\ SameEffects /\ InOrder'
  <2>1. \A cmd \in {"get", "delete", "use"} : \A views \in {{"panel"}, {}} :
           LET c == Call(cmd, id, Nothing, Nothing, views)
           IN  c \in CallType /\ c.answer = Nothing /\ c.cmd = cmd /\ c.views = views
    <3> SUFFICES ASSUME NEW cmd \in {"get", "delete", "use"}, NEW views \in {{"panel"}, {}}
                 PROVE  LET c == Call(cmd, id, Nothing, Nothing, views)
                        IN  c \in CallType /\ c.answer = Nothing /\ c.cmd = cmd /\ c.views = views
      OBVIOUS
    <3>1. cmd \in Commands /\ views \in SUBSET Views /\ id \in 0..MaxIds
      BY <1>t DEF Commands, Views
    <3>2. Call(cmd, id, Nothing, Nothing, views) \in CallType
      BY <3>1, <1>t, CallTyped
    <3> QED
      BY <3>2 DEF Call
  <2>2. /\ PanelType' /\ UNCHANGED <<storeVars, listVars, form>>
        /\ \E cmd \in {"get", "delete", "use"} : \E views \in {{"panel"}, {}} :
              Ask(Call(cmd, id, Nothing, Nothing, views))
    BY <1>7, <1>t DEF Edit, Delete, Use, SelectConnection, PanelType, panelVars
  <2>3. PICK cmd \in {"get", "delete", "use"}, views \in {{"panel"}, {}} :
              Ask(Call(cmd, id, Nothing, Nothing, views))
    BY <2>2
  <2> DEFINE c == Call(cmd, id, Nothing, Nothing, views)
  <2>4. c \in CallType /\ c.answer = Nothing /\ c.cmd = cmd /\ c.views = views /\ Ask(c)
    BY <2>1, <2>3
  <2>5. cmd # "save" /\ "form" \notin views
    BY <2>3
  <2> HIDE DEF c
  <2> QED
    BY <1>a, <2>2, <2>4, <2>5
<1>8. ASSUME NEW d \in {"import", "export"}, OpenDialog(d) \/ CloseDialog(d)
      PROVE  ConnectionTypes' /\ SameEffects /\ InOrder'
  <2>1. CASE OpenDialog(d)
    <3>1. PanelType' /\ UNCHANGED <<storeVars, listVars, callVars, form>>
      BY <2>1, <1>t DEF OpenDialog, PanelType
    <3> QED
      BY <1>i, <3>1
  <2>2. CASE CloseDialog(d)
    <3>1. PanelType' /\ UNCHANGED <<storeVars, listVars, form>> /\ Unmount({d})
      BY <2>2, <1>t DEF CloseDialog, PanelType
    <3> QED
      BY <1>u, <3>1
  <2> QED
    BY <1>8, <2>1, <2>2
<1>9. ASSUME NEW cmd \in {"export", "merge", "replace"}, NEW d \in {"import", "export"},
             dialogs' = [dialogs EXCEPT ![d] = "busy"], Ask(Call(cmd, 0, Nothing, Nothing, {d})),
             UNCHANGED <<panel, form, fetching, deleting, storeVars, listVars>>
      PROVE  ConnectionTypes' /\ SameEffects /\ InOrder'
  <2> DEFINE c == Call(cmd, 0, Nothing, Nothing, {d})
  <2>1. cmd \in Commands /\ {d} \in SUBSET Views
    BY <1>9 DEF Commands, Views
  <2>2. c \in CallType
    BY <1>t, <2>1, CallTyped
  <2>3. c.answer = Nothing /\ c.cmd = cmd /\ c.views = {d}
    BY DEF Call
  <2>4. PanelType'
    BY <1>9, <1>t DEF PanelType
  <2> HIDE DEF c
  <2>5. Ask(c)
    BY <1>9 DEF c
  <2>6. c.cmd # "save" /\ "form" \notin c.views
    BY <1>9, <2>3
  <2> QED
    BY <1>9, <1>a, <2>2, <2>3, <2>4, <2>5, <2>6
<1>10. CASE Export
  BY <1>9, <1>10 DEF Export
<1>11. ASSUME NEW cmd \in {"merge", "replace"}, Import(cmd)
       PROVE  ConnectionTypes' /\ SameEffects /\ InOrder'
  BY <1>9, <1>11 DEF Import
<1> QED
  BY <1>1, <1>2, <1>3, <1>4, <1>5, <1>6, <1>7, <1>8, <1>10, <1>11 DEF PanelNext

\* A command that runs.
LEMMA RunInv ==
    ASSUME ConnectionInv, ConnectionsAssumption, NothingAssumption, NEW n \in DOMAIN calls, Run(n)
    PROVE  CommandInv' /\ InOrder'
<1> DEFINE c == calls[n]
<1> DEFINE R == Result(c)
<1>1. /\ DOMAIN calls = 1..Len(calls) /\ Len(calls) \in Nat /\ c \in CallType
      /\ StoreType /\ InOrder /\ CommandInv
  BY ElementOfSeq, LenProperties DEF ConnectionInv, ConnectionTypes, CallsType
<1>2. /\ DOMAIN calls' = DOMAIN calls
      /\ \A i \in DOMAIN calls : i # n => calls'[i] = calls[i]
      /\ calls'[n].cmd = c.cmd
      /\ calls'[n].answer = AnswerOf(R) /\ calls'[n].answer # Nothing
      /\ stored' = R.stored /\ inUse' = R.inUse /\ UNCHANGED <<list, conn>>
  BY RunFacts DEF ConnectionInv, NothingAssumption, Run, listVars
<1>3. /\ ~Ran(n) /\ (\A j \in DOMAIN calls : j < n => Ran(j))
      /\ (\A j \in DOMAIN calls : n < j => ~Ran(j))
  BY <1>1 DEF Run, IsNext, Ran, InOrder
<1>4. /\ Ran(n)'
      /\ \A i \in DOMAIN calls : i # n => (Ran(i)' <=> Ran(i)) /\ (Took(i)' <=> Took(i)) /\ (Moved(i)' <=> Moved(i))
  BY <1>2 DEF Ran, Took, Moved, Lists, Switches
<1>5. ~Took(n) /\ ~Moved(n) /\ \A j \in DOMAIN calls : n < j => ~Took(j)' /\ ~Moved(j)'
  BY <1>1, <1>3, <1>4 DEF Took, Moved
<1>6. InOrder'
  <2> SUFFICES ASSUME NEW i \in DOMAIN calls, NEW j \in DOMAIN calls, i < j, Ran(j)'
               PROVE  Ran(i)'
    BY <1>2 DEF InOrder
  <2>1. CASE i = n
    BY <1>4, <2>1
  <2>2. CASE i # n /\ j = n
    BY <1>3, <1>4, <2>2
  <2>3. CASE i # n /\ j # n
    BY <1>1, <1>4, <2>3 DEF InOrder
  <2> QED
    BY <2>1, <2>2, <2>3
<1>7. /\ c.cmd = "save" => c.label \in Labels
      /\ WithinBound(c) /\ Possible(c)
  BY DEF Run, ConnectionInv, ConnectionTypes, FormCalls
<1>8. /\ c.cmd \notin {"delete", "replace"} =>
            IdsOf(PublicList(stored)) \subseteq IdsOf(PublicList(stored'))
      /\ c.cmd \in {"load", "get", "export"} => stored' = stored
      /\ c.cmd \in {"load", "get", "export", "save", "merge"} => inUse' = inUse
      /\ inUse' \in IdsOf(PublicList(stored')) \cup {0}
  <2>1. /\ c.cmd \notin {"delete", "replace"} =>
             IdsOf(PublicList(stored)) \subseteq IdsOf(PublicList(R.stored))
        /\ c.cmd = "delete" =>
             IdsOf(PublicList(stored)) \ {c.id} \subseteq IdsOf(PublicList(R.stored))
        /\ c.cmd \in {"load", "get", "export"} => R.stored = stored
        /\ c.cmd \in {"load", "get", "export", "save", "merge"} => R.inUse = inUse
        /\ c.cmd = "replace" => R.inUse = 0
        /\ c.cmd = "delete" => R.inUse = IF inUse = c.id THEN 0 ELSE inUse
        /\ c.cmd = "use" => R.inUse \in IdsOf(PublicList(stored))
    BY <1>1, <1>7, ResultFacts
  <2>2. inUse \in IdsOf(PublicList(stored)) \cup {0} /\ c.cmd \in Commands
    BY <1>1 DEF CommandInv, UseStored, CallType
  <2> HIDE DEF c, R
  <2> QED
    BY <1>2, <2>1, <2>2 DEF Commands
<1>9. /\ calls'[n].answer.ok /\ calls'[n].answer.list = PublicList(stored')
      /\ calls'[n].answer.inUse = inUse' /\ Value(calls'[n]) \in {0, inUse'}
  <2> HIDE DEF c, R
  <2>1. calls'[n].answer = AnswerOf(R) /\ stored' = R.stored /\ inUse' = R.inUse
    BY <1>2
  <2>2. AnswerOf(R) = [ok |-> inUse' \in IdsOf(PublicList(stored')) \cup {0},
                       list |-> PublicList(stored'), inUse |-> inUse']
    BY <2>1 DEF AnswerOf
  <2>3. calls'[n].answer.ok = (inUse' \in IdsOf(PublicList(stored')) \cup {0})
        /\ calls'[n].answer.list = PublicList(stored') /\ calls'[n].answer.inUse = inUse'
    BY <2>1, <2>2
  <2> QED
    BY <1>8, <2>3 DEF Value
<1>10. /\ Took(n)' <=> (c.cmd \notin {"get", "export"})
       /\ Moved(n)' <=> (c.cmd \notin {"get", "export", "save"})
  BY <1>2, <1>4, <1>9 DEF Ran, Took, Moved, Lists, Switches
<1>11. UseStored'
  <2> SUFFICES ASSUME NEW i \in DOMAIN calls, Took(i)'
               PROVE  calls'[i].answer.inUse \in IdsOf(calls'[i].answer.list) \cup {0}
    BY <1>2, <1>8 DEF UseStored
  <2>1. CASE i = n
    BY <1>8, <1>9, <2>1
  <2>2. CASE i # n
    BY <1>1, <1>2, <1>4, <2>2 DEF CommandInv, UseStored
  <2> QED
    BY <2>1, <2>2
<1>12. ASSUME NEW v, NEW m \in Nat, m < n, Stays(v, m) PROVE Stays(v, m)'
  <2>1. \A k \in DOMAIN calls : m < k /\ Moved(k) => k # n /\ Moved(k)'
    BY <1>4, <1>5
  <2>2. (\E k \in DOMAIN calls : m < k /\ k <= n /\ Moved(k)') \/ v \in IdsOf(PublicList(stored')) \cup {0}
    <3>1. CASE \E k \in DOMAIN calls : m < k /\ Moved(k)
      <4>1. PICK k \in DOMAIN calls : m < k /\ Moved(k)
        BY <3>1
      <4>2. ~(n < k)
        BY <1>3, <4>1 DEF Moved
      <4> QED
        BY <1>1, <2>1, <4>1, <4>2
    <3>2. CASE v \in IdsOf(PublicList(stored)) \cup {0}
      <4>1. CASE Moved(n)'
        BY <1>1, <1>12, <4>1
      <4>2. CASE ~Moved(n)'
        BY <1>8, <1>10, <3>2, <4>2
      <4> QED
        BY <4>1, <4>2
    <3> QED
      BY <1>12, <3>1, <3>2 DEF Stays
  <2>3. ASSUME NEW j \in DOMAIN calls, m < j, Took(j)'
        PROVE  \/ \E k \in DOMAIN calls : m < k /\ k <= j /\ Moved(k)'
               \/ v \in IdsOf(calls'[j].answer.list) \cup {0}
    <3>1. CASE j = n
      BY <1>9, <2>2, <3>1
    <3>2. CASE j # n
      <4>1. Took(j) /\ calls'[j] = calls[j]
        BY <1>2, <1>4, <2>3, <3>2
      <4>2. \/ \E k \in DOMAIN calls : m < k /\ k <= j /\ Moved(k)
            \/ v \in IdsOf(calls[j].answer.list) \cup {0}
        BY <1>12, <2>3, <4>1 DEF Stays
      <4> QED
        BY <2>1, <4>1, <4>2
    <3> QED
      BY <3>1, <3>2
  <2> QED
    BY <1>2, <2>2, <2>3 DEF Stays
<1>13. UseListed'
  <2>1. Stays(conn, 0)'
    <3>1. PICK v : v = conn
      OBVIOUS
    <3>2. Stays(v, 0)
      BY <1>1, <3>1 DEF CommandInv, UseListed
    <3>3. Stays(v, 0)' /\ conn' = v
      BY <1>1, <1>2, <1>12, <3>1, <3>2
    <3> QED
      BY <3>3 DEF Stays
  <2>2. ASSUME NEW i \in DOMAIN calls, Moved(i)'
        PROVE  Stays(Value(calls[i]), i)'
    <3>1. CASE i = n
      <4>1. ASSUME NEW v, v \in {0, inUse'} PROVE Stays(v, n)'
        BY <1>2, <1>5, <1>8, <4>1 DEF Stays
      <4>2. PICK v : v = Value(calls'[n])
        OBVIOUS
      <4>3. Stays(v, n)'
        BY <1>9, <4>1, <4>2
      <4> QED
        BY <3>1, <4>2, <4>3 DEF Stays
    <3>2. CASE i # n
      <4>1. Moved(i) /\ calls'[i] = calls[i] /\ i < n
        BY <1>1, <1>2, <1>4, <1>5, <2>2, <3>2
      <4>2. PICK v : v = Value(calls[i])
        OBVIOUS
      <4>3. Stays(v, i)
        BY <1>1, <4>1, <4>2 DEF CommandInv, UseListed
      <4>4. Stays(v, i)' /\ Value(calls'[i]) = v
        BY <1>1, <1>12, <4>1, <4>2, <4>3
      <4> QED
        BY <4>4 DEF Stays
    <3> QED
      BY <3>1, <3>2
  <2> QED
    BY <1>1, <1>2, <2>1, <2>2 DEF UseListed, CommandInv
<1>14. LatestList'
  <2>1. CASE Took(n)'
    <3>1. ASSUME NEW i \in DOMAIN calls, Took(i)', \A j \in DOMAIN calls : i < j => ~Took(j)'
          PROVE  i = n
      BY <1>1, <1>5, <2>1, <3>1
    <3> QED
      BY <1>2, <1>9, <2>1, <3>1 DEF LatestList
  <2>2. CASE ~Took(n)'
    <3>1. stored' = stored
      BY <1>8, <1>10, <2>2, <1>1 DEF CallType, Commands
    <3>2. \A i \in DOMAIN calls : (Took(i)' <=> Took(i))
      BY <1>4, <1>5, <2>2
    <3>3. \A i \in DOMAIN calls : Took(i) => calls'[i] = calls[i]
      BY <1>2, <1>5
    <3> QED
      BY <1>1, <1>2, <3>1, <3>2, <3>3 DEF LatestList, CommandInv
  <2> QED
    BY <2>1, <2>2
<1>15. LatestUse'
  <2>1. CASE Moved(n)'
    <3>1. ASSUME NEW i \in DOMAIN calls, Moved(i)', \A j \in DOMAIN calls : i < j => ~Moved(j)'
          PROVE  i = n
      BY <1>1, <1>5, <2>1, <3>1
    <3> QED
      BY <1>2, <1>9, <2>1, <3>1 DEF LatestUse
  <2>2. CASE ~Moved(n)'
    <3>1. inUse' = inUse
      BY <1>8, <1>10, <2>2, <1>1 DEF CallType, Commands
    <3>2. \A i \in DOMAIN calls : (Moved(i)' <=> Moved(i))
      BY <1>4, <1>5, <2>2
    <3>3. \A i \in DOMAIN calls : Moved(i) => calls'[i] = calls[i]
      BY <1>2, <1>5
    <3>4. /\ (\A i \in DOMAIN calls : ~Moved(i)') => conn' \in {0, inUse'}
          /\ \A i \in DOMAIN calls : Moved(i)' /\ (\A j \in DOMAIN calls : i < j => ~Moved(j)') =>
                Value(calls'[i]) \in {0, inUse'}
      BY <1>1, <1>2, <3>1, <3>2, <3>3 DEF LatestUse, CommandInv
    <3> QED
      BY <1>2, <3>4 DEF LatestUse
  <2> QED
    BY <2>1, <2>2
<1> QED
  BY <1>6, <1>11, <1>13, <1>14, <1>15 DEF CommandInv

\* A failing command keeps the order of the commands and what they promise.
LEMMA RunFailsInv ==
    ASSUME ConnectionInv, ConnectionsAssumption, NothingAssumption, NEW n \in DOMAIN calls,
           RunFails(n)
    PROVE  CommandInv' /\ InOrder'
<1>1. /\ DOMAIN calls = 1..Len(calls) /\ Len(calls) \in Nat /\ InOrder /\ CommandInv
  BY LenProperties DEF ConnectionInv, ConnectionTypes, CallsType
<1>2. /\ DOMAIN calls' = DOMAIN calls
      /\ \A i \in DOMAIN calls : i # n => calls'[i] = calls[i]
      /\ calls'[n].answer = Failure /\ Failure # Nothing /\ ~Failure.ok
      /\ UNCHANGED <<stored, inUse, list, conn>>
  BY RunFailsFacts DEF ConnectionInv, NothingAssumption, storeVars, listVars, Failure
<1>3. /\ ~Ran(n) /\ (\A j \in DOMAIN calls : j < n => Ran(j))
  BY <1>1 DEF RunFails, IsNext, Ran
<1>4. /\ Ran(n)' /\ ~Took(n) /\ ~Moved(n) /\ ~Took(n)' /\ ~Moved(n)'
      /\ \A i \in DOMAIN calls : i # n => (Ran(i)' <=> Ran(i)) /\ (Took(i)' <=> Took(i)) /\ (Moved(i)' <=> Moved(i))
  BY <1>2, <1>3 DEF Ran, Took, Moved, Lists, Switches
<1>5. SameEffects
  BY <1>2, <1>4 DEF SameEffects
<1>6. InOrder'
  <2> SUFFICES ASSUME NEW i \in DOMAIN calls, NEW j \in DOMAIN calls, i < j, Ran(j)'
               PROVE  Ran(i)'
    BY <1>2 DEF InOrder
  <2>1. CASE i = n
    BY <1>4, <2>1
  <2>2. CASE i # n /\ j = n
    BY <1>3, <1>4, <2>2
  <2>3. CASE i # n /\ j # n
    BY <1>1, <1>4, <2>3 DEF InOrder
  <2> QED
    BY <2>1, <2>2, <2>3
<1> QED
  BY <1>1, <1>5, <1>6, SameEffectsInv

\* An answer that arrives: what the first call promised holds of the list and of
\* the connection in use.
LEMMA AnsweredInv ==
    ASSUME ConnectionInv, ConnectionsAssumption, NothingAssumption, Answered
    PROVE  CommandInv' /\ InOrder'
<1> DEFINE c == calls[1]
<1>1. /\ DOMAIN calls = 1..Len(calls) /\ Len(calls) \in Nat /\ InOrder /\ CommandInv
  BY LenProperties DEF ConnectionInv, ConnectionTypes, CallsType
<1>2. /\ 1 \in DOMAIN calls /\ c.answer \in Answers
      /\ \A i \in DOMAIN calls' : i \in Nat /\ i >= 1 /\ i + 1 \in DOMAIN calls
      /\ \A i \in DOMAIN calls : i # 1 => i \in Nat /\ i >= 1 /\ i - 1 \in DOMAIN calls'
      /\ \A i \in DOMAIN calls' :
           calls'[i].cmd = calls[i + 1].cmd /\ calls'[i].answer = calls[i + 1].answer
      /\ UNCHANGED <<stored, inUse>>
      /\ list' = (IF Lists(c) THEN c.answer.list ELSE list)
      /\ conn' = (IF Switches(c) THEN Value(c) ELSE conn)
  BY AnsweredFacts DEF ConnectionInv
<1>3. Ran(1) /\ (Took(1) <=> Lists(c)) /\ (Moved(1) <=> Switches(c))
  BY <1>2 DEF Ran, Took, Moved, NothingAssumption
<1>4. \A i \in DOMAIN calls' :
         /\ i + 1 \in DOMAIN calls
         /\ (Ran(i)' <=> Ran(i + 1)) /\ (Took(i)' <=> Took(i + 1)) /\ (Moved(i)' <=> Moved(i + 1))
         /\ Value(calls'[i]) = Value(calls[i + 1])
  BY <1>2 DEF Ran, Took, Moved, Lists, Switches, Value
<1>5. \A i \in DOMAIN calls : i # 1 =>
         /\ i - 1 \in DOMAIN calls' /\ i - 1 \in Nat
         /\ (Ran(i) <=> Ran(i - 1)') /\ (Took(i) <=> Took(i - 1)') /\ (Moved(i) <=> Moved(i - 1)')
  <2> SUFFICES ASSUME NEW i \in DOMAIN calls, i # 1
               PROVE  /\ i - 1 \in DOMAIN calls' /\ i - 1 \in Nat
                      /\ (Ran(i) <=> Ran(i - 1)') /\ (Took(i) <=> Took(i - 1)')
                      /\ (Moved(i) <=> Moved(i - 1)')
    OBVIOUS
  <2>1. i - 1 \in DOMAIN calls' /\ i \in Nat /\ i >= 1 /\ (i - 1) + 1 = i
    BY <1>1, <1>2
  <2>2. /\ (Ran(i - 1)' <=> Ran((i - 1) + 1)) /\ (Took(i - 1)' <=> Took((i - 1) + 1))
        /\ (Moved(i - 1)' <=> Moved((i - 1) + 1))
    BY <1>4, <2>1
  <2>3. /\ (Ran(i - 1)' <=> Ran(i)) /\ (Took(i - 1)' <=> Took(i)) /\ (Moved(i - 1)' <=> Moved(i))
    BY <2>1, <2>2
  <2> QED
    BY <2>1, <2>3
<1>6. InOrder'
  <2> SUFFICES ASSUME NEW i \in DOMAIN calls', NEW j \in DOMAIN calls', i < j, Ran(j)'
               PROVE  Ran(i)'
    BY DEF InOrder
  <2>1. i + 1 < j + 1
    BY <1>2
  <2> QED
    BY <1>1, <1>4, <2>1 DEF InOrder
<1>7. UseStored'
  BY <1>1, <1>2, <1>4 DEF CommandInv, UseStored
<1>8. ASSUME NEW v, NEW m \in Nat, Stays(v, m), m = 0 => ~Moved(1)
      PROVE  Stays(v, IF m = 0 THEN 0 ELSE m - 1)'
  <2> DEFINE l == IF m = 0 THEN 0 ELSE m - 1
  <2>1. \A k \in DOMAIN calls : m < k /\ Moved(k) =>
            k - 1 \in DOMAIN calls' /\ l < k - 1 /\ Moved(k - 1)'
    BY <1>2, <1>5, <1>8
  <2>2. (\E k \in DOMAIN calls' : l < k /\ Moved(k)') \/ v \in IdsOf(PublicList(stored')) \cup {0}
    BY <1>2, <1>8, <2>1 DEF Stays
  <2>3. ASSUME NEW j \in DOMAIN calls', l < j, Took(j)'
        PROVE  \/ \E k \in DOMAIN calls' : l < k /\ k <= j /\ Moved(k)'
               \/ v \in IdsOf(calls'[j].answer.list) \cup {0}
    <3>1. j + 1 \in DOMAIN calls /\ m < j + 1 /\ Took(j + 1) /\ calls'[j].answer = calls[j + 1].answer
      BY <1>2, <1>4, <2>3
    <3>2. \/ \E k \in DOMAIN calls : m < k /\ k <= j + 1 /\ Moved(k)
          \/ v \in IdsOf(calls[j + 1].answer.list) \cup {0}
      BY <1>8, <3>1 DEF Stays
    <3>3. CASE \E k \in DOMAIN calls : m < k /\ k <= j + 1 /\ Moved(k)
      <4>1. PICK k \in DOMAIN calls : m < k /\ k <= j + 1 /\ Moved(k)
        BY <3>3
      <4>2. k - 1 \in DOMAIN calls' /\ l < k - 1 /\ Moved(k - 1)' /\ k - 1 <= j
        BY <1>1, <1>2, <2>1, <4>1
      <4> QED
        BY <4>2
    <3> QED
      BY <3>1, <3>2, <3>3
  <2> HIDE DEF l
  <2>4. Stays(v, l)'
    BY <2>2, <2>3 DEF Stays
  <2> QED
    BY <2>4 DEF l
<1>9. UseListed'
  <2>1. conn' \in IdsOf(list') \cup {0}
    <3>1. CASE ~Lists(c)
      <4>1. list' = list /\ conn' = conn
        BY <1>2, <3>1 DEF Switches
      <4> QED
        BY <1>1, <4>1 DEF CommandInv, UseListed
    <3>2. CASE Switches(c)
      <4>1. Lists(c) /\ Took(1)
        BY <1>3, <3>2 DEF Switches
      <4>2. c.answer.inUse \in IdsOf(c.answer.list) \cup {0}
        BY <1>1, <1>2, <4>1 DEF CommandInv, UseStored
      <4> QED
        BY <1>2, <3>2, <4>1, <4>2 DEF Value
    <3>3. CASE Lists(c) /\ ~Switches(c)
      <4>1. list' = c.answer.list /\ conn' = conn /\ Took(1)
        BY <1>2, <1>3, <3>3
      <4>2. \/ \E k \in DOMAIN calls : 0 < k /\ k <= 1 /\ Moved(k)
            \/ conn \in IdsOf(calls[1].answer.list) \cup {0}
        BY <1>1, <1>2, <4>1 DEF CommandInv, UseListed, Stays
      <4>3. \A k \in DOMAIN calls : 0 < k /\ k <= 1 => k = 1
        BY <1>1
      <4> QED
        BY <1>3, <3>3, <4>1, <4>2, <4>3
    <3> QED
      BY <3>1, <3>2, <3>3 DEF Switches
  <2>2. Stays(conn, 0)'
    <3>1. PICK v : v = conn'
      OBVIOUS
    <3>2. CASE Moved(1)
      <4>1. v = Value(calls[1])
        BY <1>2, <1>3, <3>1, <3>2
      <4>2. Stays(v, 1)
        BY <1>1, <1>2, <3>2, <4>1 DEF CommandInv, UseListed
      <4>3. Stays(v, IF 1 = 0 THEN 0 ELSE 1 - 1)'
        BY <1>8, <4>2
      <4> QED
        BY <3>1, <4>3 DEF Stays
    <3>3. CASE ~Moved(1)
      <4>1. v = conn
        BY <1>2, <1>3, <3>1, <3>3
      <4>2. Stays(v, 0)
        BY <1>1, <4>1 DEF CommandInv, UseListed
      <4>3. Stays(v, IF 0 = 0 THEN 0 ELSE 0 - 1)'
        BY <1>8, <3>3, <4>2
      <4> QED
        BY <3>1, <4>3 DEF Stays
    <3> QED
      BY <3>2, <3>3
  <2>3. ASSUME NEW i \in DOMAIN calls', Moved(i)'
        PROVE  Stays(Value(calls[i]), i)'
    <3>1. i \in Nat /\ i >= 1 /\ i + 1 \in DOMAIN calls /\ i + 1 # 0 /\ (i + 1) - 1 = i /\ i + 1 \in Nat
      BY <1>2
    <3>2. PICK v : v = Value(calls'[i])
      OBVIOUS
    <3>3. Moved(i + 1) /\ v = Value(calls[i + 1])
      BY <1>4, <2>3, <3>2
    <3>4. Stays(v, i + 1)
      BY <1>1, <3>1, <3>3 DEF CommandInv, UseListed
    <3>5. Stays(v, IF i + 1 = 0 THEN 0 ELSE (i + 1) - 1)'
      BY <1>8, <3>1, <3>4
    <3>6. Stays(v, i)'
      BY <3>1, <3>5 DEF Stays
    <3> QED
      BY <3>2, <3>6 DEF Stays
  <2> QED
    BY <2>1, <2>2, <2>3 DEF UseListed
<1>10. LatestList'
  <2>1. ASSUME \A i \in DOMAIN calls' : ~Took(i)'
        PROVE  list' \in {PublicList(stored'), {}}
    <3>1. \A i \in DOMAIN calls : i # 1 => ~Took(i)
      BY <1>5, <2>1
    <3>2. CASE Took(1)
      <4>1. \A j \in DOMAIN calls : 1 < j => ~Took(j)
        BY <1>1, <3>1
      <4>2. c.answer.list = PublicList(stored)
        BY <1>1, <1>2, <3>2, <4>1 DEF CommandInv, LatestList
      <4> QED
        BY <1>2, <1>3, <3>2, <4>2
    <3>3. CASE ~Took(1)
      <4>1. list' = list /\ \A i \in DOMAIN calls : ~Took(i)
        BY <1>2, <1>3, <3>1, <3>3
      <4> QED
        BY <1>1, <1>2, <4>1 DEF CommandInv, LatestList
    <3> QED
      BY <3>2, <3>3
  <2>2. ASSUME NEW i \in DOMAIN calls', Took(i)', \A j \in DOMAIN calls' : i < j => ~Took(j)'
        PROVE  calls'[i].answer.list = PublicList(stored')
    <3>1. Took(i + 1) /\ i + 1 \in DOMAIN calls /\ i \in Nat
      BY <1>2, <1>4, <2>2
    <3>2. \A j \in DOMAIN calls : i + 1 < j => ~Took(j)
      BY <1>1, <1>2, <1>5, <2>2, <3>1
    <3>3. calls[i + 1].answer.list = PublicList(stored)
      BY <1>1, <3>1, <3>2 DEF CommandInv, LatestList
    <3> QED
      BY <1>2, <3>3
  <2> QED
    BY <2>1, <2>2 DEF LatestList
<1>11. LatestUse'
  <2>1. ASSUME \A i \in DOMAIN calls' : ~Moved(i)'
        PROVE  conn' \in {0, inUse'}
    <3>1. \A i \in DOMAIN calls : i # 1 => ~Moved(i)
      BY <1>5, <2>1
    <3>2. CASE Moved(1)
      <4>1. \A j \in DOMAIN calls : 1 < j => ~Moved(j)
        BY <1>1, <3>1
      <4>2. Value(calls[1]) \in {0, inUse}
        BY <1>1, <1>2, <3>2, <4>1 DEF CommandInv, LatestUse
      <4> QED
        BY <1>2, <1>3, <3>2, <4>2
    <3>3. CASE ~Moved(1)
      <4>1. conn' = conn /\ \A i \in DOMAIN calls : ~Moved(i)
        BY <1>2, <1>3, <3>1, <3>3
      <4> QED
        BY <1>1, <1>2, <4>1 DEF CommandInv, LatestUse
    <3> QED
      BY <3>2, <3>3
  <2>2. ASSUME NEW i \in DOMAIN calls', Moved(i)', \A j \in DOMAIN calls' : i < j => ~Moved(j)'
        PROVE  Value(calls'[i]) \in {0, inUse'}
    <3>1. Moved(i + 1) /\ i + 1 \in DOMAIN calls /\ i \in Nat
      BY <1>2, <1>4, <2>2
    <3>2. \A j \in DOMAIN calls : i + 1 < j => ~Moved(j)
      BY <1>1, <1>2, <1>5, <2>2, <3>1
    <3>3. Value(calls[i + 1]) \in {0, inUse}
      BY <1>1, <3>1, <3>2 DEF CommandInv, LatestUse
    <3> QED
      BY <1>2, <1>4, <3>3
  <2> QED
    BY <2>1, <2>2 DEF LatestUse
<1> QED
  BY <1>6, <1>7, <1>9, <1>10, <1>11 DEF CommandInv

-----------------------------------------------------------------------------
\* A step that changes no variable.
LEMMA ConnectionStutter ==
    ASSUME ConnectionInv, UNCHANGED connectionVars
    PROVE  ConnectionInv'
<1>1. ConnectionTypes'
  BY DEF ConnectionInv, ConnectionTypes, StoreType, ListType, PanelType, CallsType, FormCalls,
         connectionVars, storeVars, listVars, panelVars, callVars
<1>2. SameEffects /\ InOrder'
  BY KeptEffects DEF ConnectionInv, connectionVars, storeVars, listVars, callVars
<1> QED
  BY <1>1, <1>2, SameEffectsInv DEF ConnectionInv

\* The start: the first load has not run, and the connection in use is stored.
LEMMA ConnectionInitInv ==
    ASSUME ConnectionsAssumption, NothingAssumption, ConnectionInit
    PROVE  ConnectionInv
<1> DEFINE c == Call("load", 0, Nothing, Nothing, {})
<1>1. c \in CallType
  BY CallTyped DEF Commands, ConnectionsAssumption
<1>2. /\ c.answer = Nothing /\ c.views = {} /\ c.cmd = "load"
  BY DEF Call
<1> HIDE DEF c
<1>3. /\ calls = <<c>> /\ calls \in Seq(CallType) /\ DOMAIN calls = {1} /\ calls[1] = c
  BY <1>1 DEF ConnectionInit, c
<1>4. Len(Kept) \in Nat /\ DOMAIN Kept = 1..Len(Kept)
  BY LenProperties DEF ConnectionsAssumption
<1>5. StoreType /\ ListType /\ PanelType /\ CallsType
  <2>1. MaxIds \in Nat /\ Kept \in Seq(Connection) /\ Len(Kept) <= MaxIds
    BY DEF ConnectionsAssumption
  <2>2. StoreType
    <3>1. <<>> \in Seq(Connection)
      OBVIOUS
    <3> QED
      BY <1>4, <2>1, <3>1 DEF ConnectionInit, StoreType
  <2>3. ListType /\ CallsType
    BY <1>3, <2>1 DEF ConnectionInit, ListType, CallsType
  <2>4. PanelType
    <3>1. dialogs \in [{"import", "export"} -> {"closed", "open", "busy"}]
      BY DEF ConnectionInit
    <3>2. 0 \in 0..MaxIds
      BY <2>1
    <3> QED
      BY <3>1, <3>2 DEF ConnectionInit, PanelType
  <2> QED
    BY <2>2, <2>3, <2>4
<1>6. FormCalls
  BY <1>2, <1>3 DEF FormCalls
<1>7. \A i \in DOMAIN calls : ~Ran(i) /\ ~Took(i) /\ ~Moved(i)
  BY <1>2, <1>3 DEF Ran, Took, Moved
<1>8. inUse \in IdsOf(PublicList(stored)) \cup {0}
  <2>1. inUse = 0 \/ (inUse \in DOMAIN stored /\ stored[inUse].id = inUse)
    BY <1>4 DEF ConnectionInit, ConnectionsAssumption
  <2> QED
    BY <2>1, StoredIds
<1>9. InOrder /\ UseStored /\ UseListed /\ LatestList /\ LatestUse
  BY <1>7, <1>8 DEF InOrder, UseStored, UseListed, Stays, LatestList, LatestUse, ConnectionInit
<1> QED
  BY <1>5, <1>6, <1>9 DEF ConnectionInv, ConnectionTypes, CommandInv

\* Every step keeps the invariant.
LEMMA ConnectionStep ==
    ASSUME ConnectionInv, ConnectionsAssumption, NothingAssumption, [ConnectionNext]_connectionVars
    PROVE  ConnectionInv'
<1>1. CASE PanelNext
  BY <1>1, PanelEffects, SameEffectsInv DEF ConnectionInv
<1>2. CASE CommandNext
  <2>1. PICK n \in DOMAIN calls : Run(n) \/ RunFails(n)
    BY <1>2 DEF CommandNext
  <2>2. CASE Run(n)
    BY <2>2, RunFacts, RunInv DEF ConnectionInv
  <2>3. CASE RunFails(n)
    BY <2>3, RunFailsFacts, RunFailsInv DEF ConnectionInv
  <2> QED
    BY <2>1, <2>2, <2>3
<1>3. CASE Answered
  BY <1>3, AnsweredFacts, AnsweredInv DEF ConnectionInv
<1>4. CASE UNCHANGED connectionVars
  BY <1>4, ConnectionStutter
<1> QED
  BY <1>1, <1>2, <1>3, <1>4 DEF ConnectionNext

\* The inductive invariant holds in every reachable state.
LEMMA ConnectionInvariance == ConnectionSpec => []ConnectionInv
<1>1. ConnectionInit => ConnectionInv
  BY ConnectionsAssumption, NothingAssumption, ConnectionInitInv
<1>2. ConnectionInv /\ [ConnectionNext]_connectionVars => ConnectionInv'
  BY ConnectionsAssumption, NothingAssumption, ConnectionStep
<1> QED
  BY <1>1, <1>2, PTL DEF ConnectionSpec

\* The state of the panel, the store and the calls is always well formed.
THEOREM ConnectionTypeCorrect == ConnectionSpec => []ConnectionTypeOK
<1>1. ConnectionInv => ConnectionTypeOK
  BY ConnectionTypesImply DEF ConnectionInv
<1> QED
  BY <1>1, ConnectionInvariance, PTL

\* However many commands overlap, once all are answered the list is the stored
\* one and the connection in use is listed and stored as active.
THEOREM ListIsStored == ConnectionSpec => []ListFollowsStore
<1>1. ConnectionInv => ListFollowsStore
  <2> SUFFICES ASSUME ConnectionInv, calls = <<>>
               PROVE  /\ list \in {PublicList(stored), {}}
                      /\ conn # 0 => conn = inUse /\ conn \in IdsOf(list)
    BY DEF ListFollowsStore
  <2>1. DOMAIN calls = {}
    OBVIOUS
  <2> QED
    BY <2>1 DEF ConnectionInv, CommandInv, UseListed, LatestList, LatestUse
<1> QED
  BY <1>1, ConnectionInvariance, PTL

-----------------------------------------------------------------------------
(* What the other views rely on.                                           *)

LEMMA ViewStep ==
    ASSUME ConnectionInv, ConnectionInv', ConnectionsAssumption, NothingAssumption,
           [ConnectionNext]_connectionVars
    PROVE  [View!ViewNext]_<<IdsOf(list), conn>>
<1> DEFINE ids == IdsOf(list')
<1>1. /\ ids \in SUBSET (1..MaxIds) /\ conn' \in 0..MaxIds
      /\ conn' \in ids \cup {0}
  BY DEF ConnectionInv, ConnectionTypes, ListType, IdsOf, Entry, CommandInv, UseListed
<1>2. CASE PanelNext \/ CommandNext \/ UNCHANGED connectionVars
  <2>1. UNCHANGED <<list, conn>>
    <3>1. CASE PanelNext
      BY <3>1, PanelEffects DEF ConnectionInv, SameEffects
    <3>2. CASE CommandNext
      BY <3>2 DEF CommandNext, Run, RunFails, listVars
    <3>3. CASE UNCHANGED connectionVars
      BY <3>3 DEF connectionVars, listVars
    <3> QED
      BY <1>2, <3>1, <3>2, <3>3
  <2> QED
    BY <2>1
<1>3. CASE Answered
  <2>1. conn' = IF Switches(calls[1]) THEN Value(calls[1]) ELSE conn
    BY <1>3, AnsweredFacts DEF ConnectionInv
  <2>2. CASE Switches(calls[1])
    <3>1. View!Switch(ids, conn')
      BY <1>1 DEF View!Switch
    <3> QED
      BY <1>1, <3>1 DEF View!ViewNext
  <2>3. CASE ~Switches(calls[1])
    <3>1. View!Relist(ids)
      BY <1>1, <2>1, <2>3 DEF View!Relist
    <3> QED
      BY <1>1, <3>1 DEF View!ViewNext
  <2> QED
    BY <2>2, <2>3
<1> QED
  BY <1>2, <1>3 DEF ConnectionNext

\* What Connections shows the rest of the interface is a behaviour of
\* ActiveConnection: the connection in use is always listed.
THEOREM ConnectionsImplementView == ConnectionSpec => ImplementsView
<1>1. ConnectionInit => View!ViewInit
  BY DEF ConnectionInit, View!ViewInit, IdsOf
<1>2. ConnectionInv /\ ConnectionInv' /\ [ConnectionNext]_connectionVars
        => [View!ViewNext]_<<IdsOf(list), conn>>
  BY ConnectionsAssumption, NothingAssumption, ViewStep
<1> QED
  BY <1>1, <1>2, ConnectionInvariance, PTL DEF ConnectionSpec, ImplementsView, View!ViewSpec

(***************************************************************************)
(* Types.  A file that holds a bundle names its key, and one in the        *)
(* encrypted format holds no text.                                         *)

Names == Ids \cup {"active"}
Verdicts == Ids \cup Secrets \cup {None, "gone", "open"}

Sound == {d \in Configs : /\ At(d, "bundle") # {} => d.key # None
                          /\ d.format = "encrypted" => At(d, "text") = {}}
Stored == Sound \cup {Missing}

ConfigValues == [secrets : Partial(Ids, Secrets), active : Ids \cup {None}]
Vaults == [master : Keys \cup {None}, refs : Partial(Ids, Secrets)]
Sides == [old : {"none", "text", "sealed"}, corrupt : {"none", "text", "sealed"}]
Fates == [Names -> Verdicts]

Reading == {"dispatch", "key", "stage"}
Writing == {"stagebackup", "backup", "primary", "aside", "undoprimary", "undobackup"}
Closing == {"sweep", "cleanup", "drop"}
Steps == {"disk", "recover", "abort", "ok"} \cup Reading \cup Writing \cup Closing

Runs == [pc : Steps, by : Callers, call : {"public", "load", "fetch", "active", "save"},
         arg : Ids \cup {None}, config : ConfigValues, touched : SUBSET Names,
         was : Fates, disk : Sound, new : Sound, mode : {"current", "legacy"},
         before : (Stored \cup {Invalid}) \X Stored, created : BOOLEAN,
         refs : SUBSET Ids, todo : SUBSET {"old", "corrupt"},
         failed : BOOLEAN, faults : Nat]

CommandStates == {Idle} \cup [pc : {"reading", "activating", "loading", "saving"}]
                        \cup [pc : {"loaded"}, config : ConfigValues]

ConfigTypes ==
    /\ windows \in BOOLEAN
    /\ primary \in Stored \cup {Invalid}
    /\ backup \in Stored
    /\ side \in Sides
    /\ vault \in Vaults
    /\ cache \in {None, vault.master}
    /\ lock \in Callers \cup {None}
    /\ caller \in [Callers -> CommandStates]
    /\ run \in {Idle} \cup Runs
    /\ fate \in Fates
    /\ told \in BOOLEAN
    /\ sanitised \in BOOLEAN

-----------------------------------------------------------------------------
(* What a file, or a configuration in memory, says of a name.              *)

Spoken(refs, f, k) ==
    IF k = "active" THEN f.active
    ELSE IF k \notin DOMAIN f.entries THEN "gone"
    ELSE IF f.entries[k].at # "ref" THEN f.entries[k].secret
    ELSE IF k \in DOMAIN refs THEN refs[k] ELSE None

Told(config, k) ==
    IF k = "active" THEN config.active
    ELSE IF k \in DOMAIN config.secrets THEN config.secrets[k] ELSE "gone"

Agrees(refs, f, verdicts, S) ==
    IsConfig(f) => \A k \in S : verdicts[k] # "open" => Spoken(refs, f, k) = verdicts[k]

Conforms(config, verdicts, S) ==
    \A k \in S : verdicts[k] # "open" => Told(config, k) = verdicts[k]

\* Both files, and the empty configuration that stands for two missing ones.
PairAgrees(refs, p, b, verdicts) ==
    /\ Agrees(refs, p, verdicts, Names)
    /\ Agrees(refs, b, verdicts, Names)
    /\ p = Missing /\ b = Missing => Agrees(refs, Empty, verdicts, Names)

Opened(verdicts, S) == [k \in Names |-> IF k \in S THEN "open" ELSE verdicts[k]]

\* Whether the vault opens a file.
Unlocks(v, f) == IsConfig(f) => /\ At(f, "bundle") # {} => f.key = v.master
                                /\ At(f, "ref") \subseteq DOMAIN v.refs

Bundleless(f) == At(f, "bundle") = {}

-----------------------------------------------------------------------------
(* The commands: one holds CONFIG_LOCK from its load to its save, and only *)
(* one has a call under way.                                               *)

CallOf(c, s, r) ==
    /\ s.pc = "reading" => r.call \in {"public", "load", "fetch"} /\ r.touched = {}
    /\ s.pc = "activating" => r.call = "active" /\ r.touched = {"active"}
    /\ s.pc = "loading" => r.call = "load" /\ r.touched = {}
    /\ s.pc = "saving" => r.call = "save"
    /\ s.pc \in {"reading", "activating", "loading", "saving"}

CommandsOK ==
    /\ \A c \in Callers : caller[c].pc \in {"activating", "loading", "loaded", "saving"} => lock = c
    /\ \A c \in Callers : caller[c].pc \notin {"idle", "loaded"} => run # Idle /\ run.by = c
    /\ run # Idle => CallOf(run.by, caller[run.by], run)
    /\ \A c \in Callers : caller[c].pc = "loaded" => Conforms(caller[c].config, fate, Names)

-----------------------------------------------------------------------------
(* The call under way.                                                     *)

\* Where it is, and what it finds in the files.
FromDisk(r, p, b) == \/ IsConfig(p) /\ r.disk = p
                     \/ p = Missing /\ b = Missing /\ r.disk = Empty

Position(r, p, b) ==
    /\ r.pc = "recover" => IsConfig(b)
    /\ r.pc \in {"disk", "recover", "dispatch", "key"} => ~r.created
    /\ r.pc \in Reading => FromDisk(r, p, b)
    /\ r.pc \in Writing => r.before[1] # Invalid /\ (r.before[1] = Missing => r.before[2] = Missing)
    /\ r.pc = "stagebackup" => p = r.before[1] /\ b = r.before[2]
    /\ r.pc = "backup" => p = r.before[1] /\ b \in {r.before[2], Missing}
    /\ r.pc = "primary" => p = r.before[1] /\ b = r.new
    /\ r.pc = "aside" => p = Missing /\ b = r.new
    /\ r.pc = "undoprimary" => p \in {r.before[1], Missing} /\ b = r.new
    /\ r.pc = "undobackup" => p = r.before[1] /\ b \in {r.new, r.before[2], Missing}
    /\ r.pc = "ok" => p = r.new /\ b = r.new /\ r.call \in {"save", "active"}
    /\ r.pc \in Closing => r.call \in {"load", "fetch"}
    /\ r.pc \in Closing /\ r.refs # {} => p = r.new /\ b = r.new

\* What it knows: the configuration it writes, and the credentials it moves.
HasConfig(r) == \/ r.call = "save" /\ r.pc # "abort"
                \/ r.call = "load" /\ r.pc \in Reading \cup Writing \cup Closing /\ r.pc # "dispatch"

Content(r, v) ==
    /\ HasConfig(r) => Conforms(r.config, r.was, Names \ r.touched)
    /\ r.pc = "key" /\ r.call = "fetch" =>
          r.arg \in At(r.disk, "text") \cup (At(r.disk, "ref") \cap DOMAIN v.refs)
    /\ r.pc = "key" => r.call \in {"load", "fetch", "save"}
    /\ r.pc \in {"stage"} \cup Writing => r.call # "public"
    /\ r.pc = "key" /\ r.call = "fetch" => r.refs \subseteq {r.arg}
    /\ r.pc \in {"stage", "ok"} \cup Writing \cup Closing /\ r.call \in {"load", "fetch"} =>
          At(r.new, "ref") \cap r.refs = {}
    /\ r.pc \in {"stage", "ok"} \cup Writing =>
          /\ Agrees(v.refs, r.new, r.was, Names \ r.touched)
          /\ r.call = "load" => At(r.new, "text") = {}

\* What the user was told, and what is open while the files are replaced.
Verdict(r, p, b, v, verdicts) ==
    /\ r.pc \in {"disk", "recover"} \cup Reading \cup Closing => verdicts = r.was
    /\ r.pc \in Writing \cup {"ok"} => verdicts = Opened(r.was, r.touched)
    /\ r.pc = "abort" => verdicts \in {r.was, Opened(r.was, r.touched)}
    /\ r.pc \in Writing => PairAgrees(v.refs, r.before[1], r.before[2], r.was)
    /\ r.pc = "abort" /\ ~r.failed => PairAgrees(v.refs, p, b, r.was)

\* What opens the files, unless a rollback has failed.
Unlocking(r, p, b, v) ==
    /\ r.pc \in {"stage", "ok"} \cup Writing => Unlocks(v, r.new)
    /\ r.pc \in Writing => Unlocks(v, r.before[1]) /\ Unlocks(v, r.before[2])
    /\ r.created /\ r.pc \in Writing => Bundleless(r.before[1]) /\ Bundleless(r.before[2])
    /\ r.created /\ (r.pc = "stage" \/ (r.pc = "abort" /\ ~r.failed)) => Bundleless(p) /\ Bundleless(b)

\* Where text may be.
Cleaning(r, p, b, s, clean) ==
    /\ r.pc = "stage" /\ Text(r.new) = "text" => Text(p) = "text"
    /\ r.pc \in Writing => /\ Text(r.new) = "text" => Text(r.before[1]) = "text"
                           /\ Text(r.before[2]) = "text" => Text(r.before[1]) = "text"
                           /\ clean => Text(r.before[1]) = "sealed"
    /\ r.pc \in Closing /\ r.call = "load" => Text(p) = "sealed" /\ Text(b) = "sealed"
    /\ r.pc = "cleanup" => \A f \in DOMAIN s : s[f] = "text" => f \in r.todo \/ r.failed
    /\ r.pc = "drop" /\ p # Missing => \A f \in DOMAIN s : s[f] # "text"

FilesAgree == PairAgrees(vault.refs, primary, backup, fate)
FilesOpen == told \/ (Unlocks(vault, primary) /\ Unlocks(vault, backup))
FilesSealed == /\ IsConfig(primary) /\ Text(backup) = "text" => Text(primary) = "text"
               /\ sanitised => /\ Text(primary) = "sealed" /\ Text(backup) = "sealed"
                               /\ \A f \in DOMAIN side : side[f] # "text"

RunOK ==
    run # Idle =>
        /\ Position(run, primary, backup)
        /\ Content(run, vault)
        /\ Verdict(run, primary, backup, vault, fate)
        /\ told \/ Unlocking(run, primary, backup, vault)
        /\ Cleaning(run, primary, backup, side, sanitised)

ConfigInv == ConfigTypes /\ CommandsOK /\ RunOK /\ FilesAgree /\ FilesOpen /\ FilesSealed

-----------------------------------------------------------------------------
(* Files and what they say.                                                *)

USE NoneAssumption, IdsAssumption

\* The empty configuration and the two readings that are no configuration.
LEMMA ConfigFacts ==
    /\ Empty \in Sound /\ IsConfig(Empty)
    /\ At(Empty, "text") = {} /\ At(Empty, "ref") = {} /\ At(Empty, "bundle") = {}
    /\ Missing # Invalid /\ ~IsConfig(Missing) /\ ~IsConfig(Invalid)
    /\ \A f \in Sound : IsConfig(f) /\ f \in Configs /\ f # Missing /\ f # Invalid
    /\ At(Missing, "text") = {} /\ At(Missing, "ref") = {} /\ At(Missing, "bundle") = {}
<1>1. Missing # Invalid /\ ~IsConfig(Missing) /\ ~IsConfig(Invalid)
  BY DEF Missing, Invalid, IsConfig, Empty
<1>2. \A f \in Configs : IsConfig(f) /\ f # Missing /\ f # Invalid
  BY DEF Missing, Invalid, IsConfig, Empty, Configs
<1>3. << >> \in [{} -> Entries] /\ DOMAIN << >> = {}
  OBVIOUS
<1>4. Empty \in Configs
  <2>1. << >> \in Partial(Ids, Entries)
    BY <1>3 DEF Partial
  <2> QED
    BY <2>1 DEF Empty, Configs
<1>5. At(Empty, "text") = {} /\ At(Empty, "ref") = {} /\ At(Empty, "bundle") = {}
      /\ At(Missing, "text") = {} /\ At(Missing, "ref") = {} /\ At(Missing, "bundle") = {}
  BY <1>3 DEF At, Empty, Missing
<1> QED
  BY <1>1, <1>2, <1>4, <1>5 DEF Sound

\* The parts of a configuration, and that a connection kept in some way is one of its entries.
LEMMA EntryFacts ==
    ASSUME NEW f \in Configs
    PROVE  /\ DOMAIN f.entries \subseteq Ids
           /\ f.active \in Ids \cup {None} /\ f.key \in Keys \cup {None}
           /\ \A i \in DOMAIN f.entries :
                 /\ f.entries[i].at \in {"text", "bundle", "ref"}
                 /\ f.entries[i].at # "ref" => f.entries[i].secret \in Secrets
           /\ \A k \in {"text", "bundle", "ref"} : At(f, k) \subseteq DOMAIN f.entries
<1>1. PICK D \in SUBSET Ids : f.entries \in [D -> Entries]
  BY DEF Configs, Partial
<1>2. \A i \in D : f.entries[i] \in Entries
  BY <1>1
<1>3. \A e \in Entries : e.at \in {"text", "bundle", "ref"} /\ (e.at # "ref" => e.secret \in Secrets)
  BY DEF Entries
<1> QED
  BY <1>1, <1>2, <1>3 DEF Configs, At

\* What a file says under the vault of this state is what the model's Says reports.
LEMMA SpokenIsSays ==
    ASSUME NEW f \in Configs, NEW k \in Names
    PROVE  Says(f, k) = Spoken(vault.refs, f, k)
<1>1. CASE k = "active"
  <2>1. k \notin DOMAIN f.entries
    BY <1>1, EntryFacts
  <2> QED
    BY <1>1, <2>1 DEF Says, Spoken
<1>2. CASE k # "active" /\ k \in DOMAIN f.entries
  BY <1>2 DEF Says, Spoken, SecretOf
<1>3. CASE k # "active" /\ k \notin DOMAIN f.entries
  BY <1>3 DEF Says, Spoken
<1> QED
  BY <1>1, <1>2, <1>3

\* A file either holds some secret as text or is sealed.
LEMMA TextFacts ==
    /\ \A f : Text(f) \in {"text", "sealed"}
    /\ \A f : Text(f) = "text" <=> IsConfig(f) /\ At(f, "text") # {}
    /\ Text(Missing) = "sealed" /\ Text(Empty) = "sealed"
  BY ConfigFacts DEF Text

\* Partial functions, by their domains.
LEMMA PartialFacts ==
    ASSUME NEW S, NEW T
    PROVE  /\ \A g \in Partial(S, T) : /\ DOMAIN g \subseteq S
                                       /\ \A i \in DOMAIN g : g[i] \in T
                                       /\ g = [i \in DOMAIN g |-> g[i]]
           /\ \A D \in SUBSET S : \A g \in [D -> T] : g \in Partial(S, T)
  BY DEF Partial

\* A file with every secret in the bundle says what its configuration says.
LEMMA SealedFacts ==
    ASSUME NEW config \in ConfigValues, NEW k \in Keys \cup {None},
           DOMAIN config.secrets # {} => k # None
    PROVE  LET f == Sealed(config.secrets, config.active, k)
           IN  /\ f \in Sound
               /\ At(f, "text") = {} /\ At(f, "ref") = {}
               /\ At(f, "bundle") # {} => f.key = k
               /\ \A refs, n : Spoken(refs, f, n) = Told(config, n)
<1> DEFINE f == Sealed(config.secrets, config.active, k)
<1>1. /\ config.secrets \in Partial(Ids, Secrets) /\ config.active \in Ids \cup {None}
      /\ DOMAIN config.secrets \subseteq Ids
      /\ \A i \in DOMAIN config.secrets : config.secrets[i] \in Secrets
  BY PartialFacts DEF ConfigValues
<1>2. /\ f.entries = [i \in DOMAIN config.secrets |-> [at |-> "bundle", secret |-> config.secrets[i]]]
      /\ f.active = config.active /\ f.format = "encrypted"
      /\ f.key = IF DOMAIN config.secrets = {} THEN None ELSE k
  BY DEF Sealed
<1>3. \A i \in DOMAIN config.secrets : [at |-> "bundle", secret |-> config.secrets[i]] \in Entries
  BY <1>1 DEF Entries
<1>4. f.entries \in [DOMAIN config.secrets -> Entries]
  BY <1>2, <1>3
<1>5. f.entries \in Partial(Ids, Entries)
  <2> HIDE DEF f
  <2> QED
    BY <1>1, <1>4 DEF Partial
<1>6. f \in Configs
  <2>1. f = [format |-> f.format, entries |-> f.entries, active |-> f.active, key |-> f.key]
    BY DEF Sealed
  <2> HIDE DEF f
  <2> QED
    BY <1>1, <1>2, <1>5, <2>1 DEF Configs
<1>7. /\ DOMAIN f.entries = DOMAIN config.secrets
      /\ \A i \in DOMAIN f.entries : f.entries[i].at = "bundle" /\ f.entries[i].secret = config.secrets[i]
  BY <1>2
<1>8. At(f, "text") = {} /\ At(f, "ref") = {}
  BY <1>7 DEF At
<1>9. At(f, "bundle") # {} => f.key = k
  BY <1>2, <1>7 DEF At
<1>10. f \in Sound
  <2>1. At(f, "bundle") # {} => f.key # None
    BY <1>2, <1>7 DEF At
  <2> QED
    BY <1>6, <1>8, <2>1 DEF Sound
<1>11. \A refs, n : Spoken(refs, f, n) = Told(config, n)
  <2> HIDE DEF f
  <2> QED
    BY <1>2, <1>7 DEF Spoken, Told
<1> QED
  BY <1>8, <1>9, <1>10, <1>11

\* A file of which some entries are moved to the bundle says what it said.
LEMMA PartlySealedFacts ==
    ASSUME NEW d \in Sound, NEW k \in Keys, vault \in Vaults,
           NEW target \in At(d, "text") \cup (At(d, "ref") \cap DOMAIN vault.refs)
    PROVE  LET f == PartlySealed(d, target, k)
           IN  /\ f \in Sound
               /\ At(f, "text") = {} /\ At(f, "ref") = At(d, "ref") \ {target}
               /\ f.key = k
               /\ \A n \in Names : Spoken(vault.refs, f, n) = Spoken(vault.refs, d, n)
<1> DEFINE f == PartlySealed(d, target, k)
<1>1. /\ d \in Configs /\ d.entries \in Partial(Ids, Entries)
      /\ DOMAIN d.entries \subseteq Ids /\ d.active \in Ids \cup {None}
      /\ \A i \in DOMAIN d.entries :
            /\ d.entries[i] \in Entries
            /\ d.entries[i].at \in {"text", "bundle", "ref"}
            /\ d.entries[i].at # "ref" => d.entries[i].secret \in Secrets
  BY EntryFacts, PartialFacts DEF Sound, Configs
<1> DEFINE moved(i) == i = target \/ d.entries[i].at = "text"
<1> DEFINE sealed == [i \in DOMAIN d.entries |->
                         IF moved(i) THEN [at |-> "bundle", secret |-> SecretOf(d, i)] ELSE d.entries[i]]
<1>2. /\ f.entries = sealed
      /\ f.active = d.active /\ f.format = "encrypted" /\ f.key = k
      /\ f = [format |-> f.format, entries |-> f.entries, active |-> f.active, key |-> f.key]
  <2>1. d = [format |-> d.format, entries |-> d.entries, active |-> d.active, key |-> d.key]
    BY <1>1 DEF Configs
  <2>2. f = [d EXCEPT !.format = "encrypted", !.key = k, !.entries = sealed]
    BY DEF PartlySealed
  <2> HIDE DEF f, sealed
  <2> QED
    BY <2>1, <2>2
<1>3. target \in DOMAIN d.entries /\ d.entries[target].at \in {"text", "ref"}
      /\ (d.entries[target].at = "ref" => target \in DOMAIN vault.refs)
  BY DEF At
<1>4. \A i \in DOMAIN vault.refs : vault.refs[i] \in Secrets
  BY PartialFacts DEF Vaults
<1>5. \A i \in DOMAIN d.entries : moved(i) => SecretOf(d, i) \in Secrets
  BY <1>1, <1>3, <1>4 DEF SecretOf
<1>6. \A i \in DOMAIN d.entries : f.entries[i] \in Entries
  <2> TAKE i \in DOMAIN d.entries
  <2>1. CASE moved(i)
    <3>1. SecretOf(d, i) \in Secrets
      BY <1>5, <2>1
    <3>2. [at |-> "bundle", secret |-> SecretOf(d, i)] \in Entries
      BY <3>1 DEF Entries
    <3> QED
      BY <1>2, <2>1, <3>2
  <2>2. CASE ~moved(i)
    BY <1>1, <1>2, <2>2
  <2> QED
    BY <2>1, <2>2
<1>7. DOMAIN f.entries = DOMAIN d.entries /\ f.entries \in [DOMAIN d.entries -> Entries]
  BY <1>2, <1>6
<1>8. f \in Configs
  <2> HIDE DEF f
  <2>1. f.entries \in Partial(Ids, Entries)
    BY <1>1, <1>7 DEF Partial
  <2> QED
    BY <1>1, <1>2, <2>1 DEF Configs
<1>9. \A i \in DOMAIN d.entries : IF moved(i) THEN f.entries[i].at = "bundle" /\ f.entries[i].secret = SecretOf(d, i)
                                  ELSE f.entries[i] = d.entries[i]
  BY <1>2
<1> HIDE DEF f
<1>10. At(f, "text") = {} /\ At(f, "ref") = At(d, "ref") \ {target}
  BY <1>1, <1>3, <1>7, <1>9 DEF At
<1>11. f \in Sound
  BY <1>2, <1>8, <1>10 DEF Sound
<1>12. \A n \in Names : Spoken(vault.refs, f, n) = Spoken(vault.refs, d, n)
  <2> TAKE n \in Names
  <2>1. CASE n \in DOMAIN d.entries /\ n # "active"
    <3>1. CASE moved(n)
      BY <1>7, <1>9, <2>1, <3>1 DEF Spoken, SecretOf
    <3>2. CASE ~moved(n)
      BY <1>7, <1>9, <2>1, <3>2 DEF Spoken
    <3> QED
      BY <3>1, <3>2
  <2>2. CASE ~(n \in DOMAIN d.entries /\ n # "active")
    BY <1>2, <1>7, <2>2 DEF Spoken
  <2> QED
    BY <2>1, <2>2
<1> QED
  BY <1>2, <1>10, <1>11, <1>12 DEF f

\* A configuration that is opened in full says what its file says.
LEMMA HydratedFacts ==
    ASSUME NEW d \in Sound, vault \in Vaults, At(d, "ref") \subseteq DOMAIN vault.refs
    PROVE  LET config == [secrets |-> Hydrated(d), active |-> d.active]
           IN  /\ config \in ConfigValues
               /\ \A n \in Names : Told(config, n) = Spoken(vault.refs, d, n)
<1> DEFINE config == [secrets |-> Hydrated(d), active |-> d.active]
<1>1. /\ DOMAIN d.entries \subseteq Ids /\ d.active \in Ids \cup {None}
      /\ \A i \in DOMAIN d.entries :
            /\ d.entries[i].at \in {"text", "bundle", "ref"}
            /\ d.entries[i].at # "ref" => d.entries[i].secret \in Secrets
  BY EntryFacts DEF Sound
<1>2. \A i \in DOMAIN vault.refs : vault.refs[i] \in Secrets
  BY PartialFacts DEF Vaults
<1>3. \A i \in DOMAIN d.entries : SecretOf(d, i) \in Secrets
  BY <1>1, <1>2 DEF SecretOf, At
<1>4. Hydrated(d) \in [DOMAIN d.entries -> Secrets]
  BY <1>3 DEF Hydrated
<1>5. Hydrated(d) \in Partial(Ids, Secrets)
  BY <1>1, <1>4, PartialFacts
<1>6. config \in ConfigValues
  BY <1>1, <1>5 DEF ConfigValues
<1>7. \A n \in Names : Told(config, n) = Spoken(vault.refs, d, n)
  BY DEF Told, Spoken, Hydrated, SecretOf
<1> QED
  BY <1>6, <1>7

\* Agreement with verdicts: on fewer names, with more of them open, and of a file that says the same.
LEMMA AgreesFacts ==
    ASSUME NEW refs, NEW f, NEW S, NEW T, NEW v
    PROVE  /\ S \subseteq T /\ Agrees(refs, f, v, T) => Agrees(refs, f, v, S)
           /\ ~IsConfig(f) => Agrees(refs, f, v, S)
           /\ Agrees(refs, f, v, Names) => Agrees(refs, f, Opened(v, S), Names)
           /\ \A g : IsConfig(f) /\ Agrees(refs, f, v, Names)
                     /\ (\A n \in Names : Spoken(refs, g, n) = Spoken(refs, f, n))
                     => Agrees(refs, g, v, Names)
<1>1. \A n \in Names : Opened(v, S)[n] # "open" => Opened(v, S)[n] = v[n]
  BY DEF Opened
<1> QED
  BY <1>1 DEF Agrees

-----------------------------------------------------------------------------
(* The call under way, and the command it belongs to.                      *)

LEMMA CallFacts ==
    ASSUME ConfigTypes
    PROVE  /\ run # Idle <=> run \in Runs
           /\ \A p \in Steps : AtStep(p) => run \in Runs
           /\ \A r \in Runs : r # Idle /\ r.pc \in Steps /\ r.by \in Callers
<1>1. Idle.pc = "idle" /\ \A r \in Runs : r.pc \in Steps /\ r.by \in Callers
  BY DEF Idle, Runs
<1>2. "idle" \notin Steps
  BY DEF Steps, Reading, Writing, Closing
<1> QED
  BY <1>1, <1>2 DEF ConfigTypes, AtStep

\* Two calls that differ in where they are and in how often they failed.
SameCall(q, r) ==
    /\ q.by = r.by /\ q.call = r.call /\ q.arg = r.arg /\ q.config = r.config
    /\ q.touched = r.touched /\ q.was = r.was /\ q.disk = r.disk /\ q.new = r.new
    /\ q.mode = r.mode /\ q.before = r.before /\ q.created = r.created
    /\ q.refs = r.refs /\ q.todo = r.todo /\ q.failed = r.failed

\* A step that only moves on leaves the call what it is.
LEMMA GotoFacts ==
    ASSUME ConfigTypes, run \in Runs, NEW p \in Steps, Goto(p) \/ FailTo(p)
    PROVE  run' \in Runs /\ run'.pc = p /\ SameCall(run', run)
<1>1. \A n \in Nat : LET q == [run EXCEPT !.pc = p, !.faults = n]
                     IN  q \in Runs /\ q.pc = p /\ SameCall(q, run)
  BY DEF Runs, SameCall
<1>2. run.faults \in Nat /\ run.faults + 1 \in Nat
  BY DEF Runs
<1>3. [run EXCEPT !.pc = p] = [run EXCEPT !.pc = p, !.faults = run.faults]
  BY DEF Runs
<1> QED
  BY <1>1, <1>2, <1>3 DEF Goto, FailTo

\* The states a command can be in.
LEMMA StateFacts ==
    ASSUME ConfigTypes, NEW c \in Callers
    PROVE  /\ caller[c] \in CommandStates
           /\ caller[c].pc \in {"idle", "reading", "activating", "loading", "loaded", "saving"}
           /\ caller[c].pc = "idle" <=> caller[c] = Idle
           /\ caller[c].pc = "loaded" => caller[c].config \in ConfigValues
           /\ Idle.pc = "idle" /\ Idle \in CommandStates
<1>1. caller[c] \in CommandStates
  BY DEF ConfigTypes
<1> QED
  BY <1>1 DEF CommandStates, Idle

\* While another command is loaded, the call under way changes nothing.
LEMMA OthersRead ==
    ASSUME ConfigTypes, CommandsOK, run # Idle,
           NEW c \in Callers, c # run.by, caller[c].pc = "loaded"
    PROVE  run.call \in {"public", "load", "fetch"} /\ run.touched = {} /\ lock = c
<1>1. lock = c
  BY DEF CommandsOK
<1>2. run.by \in Callers
  BY CallFacts
<1>3. caller[run.by].pc \notin {"activating", "loading", "saving"}
  BY <1>1, <1>2 DEF CommandsOK
<1>4. CallOf(run.by, caller[run.by], run)
  BY DEF CommandsOK
<1> QED
  BY <1>1, <1>3, <1>4 DEF CallOf

\* The call goes on.
LEMMA CommandGoesOn ==
    ASSUME ConfigTypes, CommandsOK, run # Idle, run' # Idle, UNCHANGED <<caller, lock>>,
           run'.by = run.by, run'.touched = run.touched,
           run'.call = run.call \/ (run.call = "fetch" /\ run'.call = "load"),
           \A k \in Names : fate'[k] # "open" => fate'[k] = fate[k]
    PROVE  CommandsOK'
<1>1. \A c \in Callers : caller'[c].pc = "loaded" => Conforms(caller'[c].config, fate', Names)
  <2>1. \A c \in Callers : caller[c].pc = "loaded" => Conforms(caller[c].config, fate, Names)
    BY DEF CommandsOK
  <2> QED
    BY <2>1 DEF Conforms
<1>2. CallOf(run'.by, caller'[run'.by], run')
  BY DEF CommandsOK, CallOf
<1> QED
  BY <1>1, <1>2 DEF CommandsOK

\* A command ends.
LEMMA LeaveFacts ==
    ASSUME ConfigTypes, CommandsOK, NEW c \in Callers, LeaveCommand(c),
           run = Idle \/ run.by = c, run' = Idle,
           \A d \in Callers \ {c} : caller[d].pc = "loaded" => Conforms(caller[d].config, fate', Names)
    PROVE  CommandsOK' /\ caller' \in [Callers -> CommandStates] /\ lock' \in Callers \cup {None}
<1>1. caller \in [Callers -> CommandStates] /\ lock \in Callers \cup {None}
  BY DEF ConfigTypes
<1>2. caller' = [caller EXCEPT ![c] = Idle] /\ lock' = IF lock = c THEN None ELSE lock
  BY DEF LeaveCommand
<1>3. caller' \in [Callers -> CommandStates] /\ lock' \in Callers \cup {None}
      /\ caller'[c].pc = "idle" /\ \A d \in Callers \ {c} : caller'[d] = caller[d]
  BY <1>1, <1>2, StateFacts
<1>4. \A d \in Callers : caller'[d].pc \in {"activating", "loading", "loaded", "saving"} => lock' = d
  BY <1>2, <1>3 DEF CommandsOK
<1>5. \A d \in Callers : caller'[d].pc \notin {"idle", "loaded"} => run' # Idle /\ run'.by = d
  BY <1>3 DEF CommandsOK
<1>6. \A d \in Callers : caller'[d].pc = "loaded" => Conforms(caller'[d].config, fate', Names)
  BY <1>3
<1> QED
  BY <1>3, <1>4, <1>5, <1>6 DEF CommandsOK

\* A call that fails leaves its caller well formed and the lock with whoever still needs it.
LEMMA ReturnErrFacts ==
    ASSUME ConfigTypes, CommandsOK, run # Idle, ReturnErr,
           (\A k \in Names : fate'[k] # "open" => fate'[k] = fate[k]) \/ run.touched # {}
    PROVE  CommandsOK' /\ caller' \in [Callers -> CommandStates] /\ lock' \in Callers \cup {None}
<1>1. \A d \in Callers \ {run.by} : caller[d].pc = "loaded" => Conforms(caller[d].config, fate', Names)
  <2> TAKE d \in Callers \ {run.by}
  <2> HAVE caller[d].pc = "loaded"
  <2>1. \A k \in Names : fate'[k] # "open" => fate'[k] = fate[k]
    BY OthersRead
  <2>2. Conforms(caller[d].config, fate, Names)
    BY DEF CommandsOK
  <2> QED
    BY <2>1, <2>2 DEF Conforms
<1>2. run.by \in Callers /\ LeaveCommand(run.by) /\ run' = Idle
  BY CallFacts DEF ReturnErr
<1> QED
  BY <1>1, <1>2, LeaveFacts

\* A call that succeeds hands on a configuration that says what the user was told.
LEMMA ReturnOkFacts ==
    ASSUME ConfigTypes, CommandsOK, run # Idle, ReturnOk,
           (\A k \in Names : fate'[k] # "open" => fate'[k] = fate[k]) \/ run.call \in {"save", "active"},
           run.call = "load" => Conforms(run.config, fate', Names)
    PROVE  CommandsOK' /\ caller' \in [Callers -> CommandStates] /\ lock' \in Callers \cup {None}
<1>1. \A d \in Callers \ {run.by} : caller[d].pc = "loaded" => Conforms(caller[d].config, fate', Names)
  <2> TAKE d \in Callers \ {run.by}
  <2> HAVE caller[d].pc = "loaded"
  <2>1. \A k \in Names : fate'[k] # "open" => fate'[k] = fate[k]
    BY OthersRead
  <2>2. Conforms(caller[d].config, fate, Names)
    BY DEF CommandsOK
  <2> QED
    BY <2>1, <2>2 DEF Conforms
<1>2. run.by \in Callers /\ run' = Idle /\ run \in Runs
  BY CallFacts DEF ReturnOk
<1>3. CASE caller[run.by].pc # "loading"
  <2>1. LeaveCommand(run.by)
    BY <1>3 DEF ReturnOk
  <2> QED
    BY <1>1, <1>2, <2>1, LeaveFacts
<1>4. CASE caller[run.by].pc = "loading"
  <2> DEFINE c == run.by
             next == [pc |-> "loaded", config |-> run.config]
  <2>1. caller' = [caller EXCEPT ![c] = next] /\ lock' = lock
    BY <1>4 DEF ReturnOk
  <2>2. next \in CommandStates /\ next.pc = "loaded" /\ next.config = run.config
    BY <1>2 DEF CommandStates, Runs
  <2>3. run.call = "load" /\ lock = c
    BY <1>2, <1>4 DEF CommandsOK, CallOf
  <2> HIDE DEF next
  <2>4. caller' \in [Callers -> CommandStates] /\ lock' \in Callers \cup {None}
        /\ caller'[c] = next /\ \A d \in Callers \ {c} : caller'[d] = caller[d]
    BY <1>2, <2>1, <2>2 DEF ConfigTypes
  <2>5. \A d \in Callers : caller'[d].pc \in {"activating", "loading", "loaded", "saving"} => lock' = d
    BY <2>1, <2>2, <2>3, <2>4 DEF CommandsOK
  <2>6. \A d \in Callers : caller'[d].pc \notin {"idle", "loaded"} => run' # Idle /\ run'.by = d
    BY <2>2, <2>4 DEF CommandsOK
  <2>7. \A d \in Callers : caller'[d].pc = "loaded" => Conforms(caller'[d].config, fate', Names)
    BY <1>1, <2>2, <2>3, <2>4
  <2> QED
    BY <1>2, <2>4, <2>5, <2>6, <2>7 DEF CommandsOK
<1> QED
  BY <1>3, <1>4

-----------------------------------------------------------------------------
(* Reading.                                                                *)

\* A call that ends without a change of what is stored or told.
LEMMA EndsQuietly ==
    ASSUME ConfigInv, run # Idle, ReturnErr,
           UNCHANGED <<windows, primary, backup, side, vault, fate, told, sanitised>>,
           cache' \in {None, vault.master}
    PROVE  ConfigInv'
<1>1. ConfigTypes /\ CommandsOK /\ RunOK /\ FilesAgree /\ FilesOpen /\ FilesSealed
  BY DEF ConfigInv
<1>2. CommandsOK' /\ caller' \in [Callers -> CommandStates] /\ lock' \in Callers \cup {None}
  BY <1>1, ReturnErrFacts
<1>3. run' = Idle
  BY DEF ReturnErr
<1>4. ConfigTypes'
  BY <1>1, <1>2, <1>3 DEF ConfigTypes
<1>5. RunOK'
  BY <1>3 DEF RunOK
<1>6. FilesAgree' /\ FilesOpen' /\ FilesSealed'
  BY <1>1 DEF FilesAgree, FilesOpen, FilesSealed
<1> QED
  BY <1>2, <1>4, <1>5, <1>6 DEF ConfigInv

\* A call that ends and writes nothing more keeps the invariant.
LEMMA EndsWell ==
    ASSUME ConfigInv, run # Idle, ReturnOk, HasConfig(run) \/ run.call # "load",
           run.pc \in Reading \cup Closing,
           UNCHANGED <<windows, primary, backup, side, vault, fate, told>>,
           cache' \in {None, vault.master},
           sanitised' \in BOOLEAN,
           sanitised' => sanitised \/ (run.pc = "drop" /\ run.call = "load" /\ primary # Missing)
    PROVE  ConfigInv'
<1>1. ConfigTypes /\ CommandsOK /\ RunOK /\ FilesAgree /\ FilesOpen /\ FilesSealed
  BY DEF ConfigInv
<1>2. run \in Runs /\ run.by \in Callers
  BY <1>1, CallFacts
<1>3. run.call = "load" => Conforms(run.config, fate', Names)
  <2> HAVE run.call = "load"
  <2>1. run.touched = {}
    BY <1>1, <1>2 DEF CommandsOK, CallOf
  <2>2. fate = run.was
    BY <1>1 DEF RunOK, Verdict
  <2>3. Conforms(run.config, run.was, Names \ run.touched)
    BY <1>1 DEF RunOK, Content
  <2> QED
    BY <2>1, <2>2, <2>3 DEF Conforms
<1>4. CommandsOK' /\ caller' \in [Callers -> CommandStates] /\ lock' \in Callers \cup {None}
  BY <1>1, <1>3, ReturnOkFacts
<1>5. run' = Idle
  BY DEF ReturnOk
<1>6. ConfigTypes'
  BY <1>1, <1>4, <1>5 DEF ConfigTypes
<1>7. RunOK'
  BY <1>5 DEF RunOK
<1>8. FilesAgree' /\ FilesOpen'
  BY <1>1 DEF FilesAgree, FilesOpen
<1>9. FilesSealed'
  <2>1. Cleaning(run, primary, backup, side, sanitised)
    BY <1>1 DEF RunOK
  <2>2. CASE sanitised \/ ~sanitised'
    BY <1>1, <2>2 DEF FilesSealed
  <2>3. CASE run.pc = "drop" /\ run.call = "load" /\ primary # Missing
    BY <1>1, <2>1, <2>3 DEF FilesSealed, Cleaning, Closing
  <2> QED
    BY <2>2, <2>3
<1> QED
  BY <1>4, <1>6, <1>7, <1>8, <1>9 DEF ConfigInv

\* The configuration that was read is at hand.
LEMMA DiskRead ==
    ASSUME ConfigInv, run \in Runs, run.pc \in {"disk", "recover"},
           NEW d \in Sound, FromDisk([disk |-> d], primary', backup'),
           run' = [run EXCEPT !.pc = "dispatch", !.disk = d],
           UNCHANGED <<windows, backup, side, vault, cache, lock, caller, fate, told, sanitised>>,
           primary' = primary \/ (primary' = backup /\ backup # Missing)
    PROVE  ConfigInv'
<1>1. ConfigTypes /\ CommandsOK /\ RunOK /\ FilesAgree /\ FilesOpen /\ FilesSealed /\ run # Idle
  BY CallFacts DEF ConfigInv
<1>2. /\ run' \in Runs /\ run'.pc = "dispatch" /\ run'.disk = d
      /\ run'.by = run.by /\ run'.call = run.call /\ run'.arg = run.arg /\ run'.config = run.config
      /\ run'.touched = run.touched /\ run'.was = run.was /\ run'.new = run.new
      /\ run'.created = run.created
      /\ run'.before = run.before /\ run'.refs = run.refs /\ run'.failed = run.failed
  BY DEF Runs, Steps, Reading
<1>3. run' # Idle
  BY <1>1, <1>2, CallFacts
<1>4. ConfigTypes'
  BY <1>1, <1>2 DEF ConfigTypes
<1>5. CommandsOK'
  BY <1>1, <1>2, <1>3, CommandGoesOn
<1>6. RunOK'
  <2>1. Position(run', primary', backup')
    <3>1. Position(run, primary, backup)
      BY <1>1 DEF RunOK
    <3> QED
      BY <1>2, <3>1 DEF Position, FromDisk, Reading, Writing, Closing
  <2>2. Content(run', vault')
    <3>1. HasConfig(run') => HasConfig(run)
      BY <1>2 DEF HasConfig, Reading, Writing, Closing
    <3>2. Content(run, vault)
      BY <1>1 DEF RunOK
    <3> QED
      BY <1>2, <3>1, <3>2 DEF Content, Reading, Writing, Closing
  <2>3. Verdict(run', primary', backup', vault', fate')
    <3>1. Verdict(run, primary, backup, vault, fate)
      BY <1>1 DEF RunOK
    <3> QED
      BY <1>2, <3>1 DEF Verdict, Reading, Writing, Closing
  <2>4. Unlocking(run', primary', backup', vault')
    BY <1>2 DEF Unlocking, Writing
  <2>5. Cleaning(run', primary', backup', side', sanitised')
    BY <1>2 DEF Cleaning, Writing, Closing
  <2> QED
    BY <2>1, <2>2, <2>3, <2>4, <2>5 DEF RunOK
<1>7. FilesAgree'
  BY <1>1 DEF FilesAgree, PairAgrees
<1>8. FilesOpen'
  BY <1>1 DEF FilesOpen
<1>9. FilesSealed'
  BY <1>1 DEF FilesSealed
<1> QED
  BY <1>4, <1>5, <1>6, <1>7, <1>8, <1>9 DEF ConfigInv

\* The call looks at the next file.
LEMMA ToRecover ==
    ASSUME ConfigInv, run \in Runs, run.pc \in {"disk", "recover"},
           run'= run \/ Goto("recover") \/ FailTo("recover"), IsConfig(backup),
           UNCHANGED <<windows, backup, side, vault, cache, lock, caller, fate, told, sanitised>>,
           primary' \in {primary, Missing}
    PROVE  ConfigInv'
<1>1. ConfigTypes /\ CommandsOK /\ RunOK /\ FilesAgree /\ FilesOpen /\ FilesSealed /\ run # Idle
  BY CallFacts DEF ConfigInv
<1>2. run' \in Runs /\ run'.pc \in {"disk", "recover"} /\ SameCall(run', run)
  <2>1. "recover" \in Steps
    BY DEF Steps
  <2>2. CASE run' = run
    BY <2>2 DEF SameCall
  <2> QED
    BY <1>1, <2>1, <2>2, GotoFacts
<1>3. run' # Idle
  BY <1>1, <1>2, CallFacts
<1>4. ConfigTypes'
  BY <1>1, <1>2 DEF ConfigTypes, Stored
<1>5. CommandsOK'
  BY <1>1, <1>2, <1>3, CommandGoesOn DEF SameCall
<1>6. RunOK'
  <2>1. Position(run', primary', backup')
    <3>1. Position(run, primary, backup)
      BY <1>1 DEF RunOK
    <3> QED
      BY <1>2, <3>1 DEF Position, SameCall, Reading, Writing, Closing
  <2>2. Content(run', vault')
    <3>1. HasConfig(run') => HasConfig(run)
      BY <1>2 DEF HasConfig, SameCall, Reading, Writing, Closing
    <3>2. Content(run, vault)
      BY <1>1 DEF RunOK
    <3> QED
      BY <1>2, <3>1, <3>2 DEF Content, SameCall, Reading, Writing, Closing
  <2>3. Verdict(run', primary', backup', vault', fate')
    <3>1. Verdict(run, primary, backup, vault, fate)
      BY <1>1 DEF RunOK
    <3> QED
      BY <1>2, <3>1 DEF Verdict, SameCall, Reading, Writing, Closing
  <2>4. Unlocking(run', primary', backup', vault')
    BY <1>2 DEF Unlocking, Writing
  <2>5. Cleaning(run', primary', backup', side', sanitised')
    BY <1>2 DEF Cleaning, Writing, Closing
  <2> QED
    BY <2>1, <2>2, <2>3, <2>4, <2>5 DEF RunOK
<1>7. backup # Missing
  BY ConfigFacts
<1>8. FilesAgree'
  BY <1>1, <1>7, ConfigFacts DEF FilesAgree, PairAgrees, Agrees
<1>9. FilesOpen'
  BY <1>1, ConfigFacts DEF FilesOpen, Unlocks
<1>10. FilesSealed'
  BY <1>1, ConfigFacts, TextFacts DEF FilesSealed
<1> QED
  BY <1>4, <1>5, <1>6, <1>8, <1>9, <1>10 DEF ConfigInv

\* Reading the primary file, or finding that the backup has to take its place.
LEMMA ReadDiskInv == ASSUME ConfigInv, ReadDisk PROVE ConfigInv'
<1>1. ConfigTypes /\ run \in Runs /\ run # Idle /\ run.pc = "disk"
  BY CallFacts DEF ConfigInv, ReadDisk, AtStep, Steps
<1>2. UNCHANGED <<windows, primary, backup, side, vault, cache, fate, told, sanitised>>
  BY DEF ReadDisk, files
<1>3. CASE IsConfig(primary) /\ run' = [run EXCEPT !.pc = "dispatch", !.disk = primary] /\ UNCHANGED <<caller, lock>>
  <2>1. primary \in Sound /\ FromDisk([disk |-> primary], primary', backup') /\ primary # Missing
    BY <1>1, <1>2, <1>3, ConfigFacts DEF ConfigTypes, Stored, FromDisk
  <2> QED
    BY <1>1, <1>2, <1>3, <2>1, DiskRead
<1>4. CASE primary = Missing /\ backup = Missing
           /\ run' = [run EXCEPT !.pc = "dispatch", !.disk = Empty] /\ UNCHANGED <<caller, lock>>
  <2>1. Empty \in Sound /\ FromDisk([disk |-> Empty], primary', backup')
    BY <1>2, <1>4, ConfigFacts DEF FromDisk
  <2> QED
    BY <1>1, <1>2, <1>4, <2>1, DiskRead
<1>5. CASE IsConfig(backup) /\ (Goto("recover") \/ FailTo("recover")) /\ UNCHANGED <<caller, lock>>
  BY <1>1, <1>2, <1>5, ToRecover
<1>6. CASE ReturnErr
  <2>1. cache' \in {None, vault.master}
    BY <1>1, <1>2 DEF ConfigTypes
  <2> QED
    BY <1>1, <1>2, <1>6, <2>1, EndsQuietly
<1> QED
  BY <1>3, <1>4, <1>5, <1>6 DEF ReadDisk

\* Putting the backup in the place of a lost or invalid primary.
LEMMA RecoverInv == ASSUME ConfigInv, Recover PROVE ConfigInv'
<1>1. ConfigTypes /\ run \in Runs /\ run # Idle /\ run.pc = "recover"
  BY CallFacts DEF ConfigInv, Recover, AtStep, Steps
<1>2. UNCHANGED <<windows, backup, side, vault, cache, fate, told, sanitised>>
  BY DEF Recover
<1>3. IsConfig(backup) /\ backup # Missing /\ backup \in Sound
  BY <1>1, ConfigFacts DEF ConfigInv, RunOK, Position, ConfigTypes, Stored
<1>4. CASE primary' = Missing /\ UNCHANGED <<run, caller, lock>>
  BY <1>1, <1>2, <1>3, <1>4, ToRecover
<1>5. CASE primary' = backup /\ run' = [run EXCEPT !.pc = "dispatch", !.disk = backup]
           /\ UNCHANGED <<caller, lock>>
  <2>1. FromDisk([disk |-> backup], primary', backup')
    BY <1>3, <1>5 DEF FromDisk
  <2> QED
    BY <1>1, <1>2, <1>3, <1>5, <2>1, DiskRead
<1>6. CASE ReturnErr /\ UNCHANGED primary
  <2>1. cache' \in {None, vault.master}
    BY <1>1, <1>2 DEF ConfigTypes
  <2> QED
    BY <1>1, <1>2, <1>6, <2>1, EndsQuietly
<1> QED
  BY <1>4, <1>5, <1>6 DEF Recover

-----------------------------------------------------------------------------
(* What is done with it.                                                   *)

\* A file is ready to be written, perhaps with a new key.
LEMMA ToStage ==
    ASSUME ConfigInv, run \in Runs, run.pc \in {"dispatch", "key"},
           run' \in Runs, run'.pc = "stage",
           run'.by = run.by, run'.touched = run.touched, run'.was = run.was, run'.disk = run.disk,
           run'.call = run.call \/ (run.call = "fetch" /\ run'.call = "load"),
           vault' \in Vaults, vault'.refs = vault.refs, cache' \in {None, vault'.master},
           UNCHANGED <<windows, primary, backup, side, lock, caller, fate, told, sanitised>>,
           run'.call # "public",
           run'.call \in {"load", "save"} => Conforms(run'.config, run.was, Names \ run.touched),
           run'.call \in {"load", "fetch"} => At(run'.new, "ref") \cap run'.refs = {},
           run'.call = "load" => At(run'.new, "text") = {},
           Agrees(vault.refs, run'.new, run.was, Names \ run.touched),
           Text(run'.new) = "text" => Text(primary) = "text",
           told \/ Unlocks(vault', run'.new),
           run'.created \/ vault' # vault => told \/ (Bundleless(primary) /\ Bundleless(backup))
    PROVE  ConfigInv'
<1>1. ConfigTypes /\ CommandsOK /\ RunOK /\ FilesAgree /\ FilesOpen /\ FilesSealed /\ run # Idle
  BY CallFacts DEF ConfigInv
<1>2. run' # Idle
  BY <1>1, CallFacts
<1>3. ConfigTypes'
  BY <1>1 DEF ConfigTypes
<1>4. CommandsOK'
  BY <1>1, <1>2, CommandGoesOn
<1>5. RunOK'
  <2>1. Position(run', primary', backup')
    <3>1. Position(run, primary, backup)
      BY <1>1 DEF RunOK
    <3> QED
      BY <3>1 DEF Position, FromDisk, Reading, Writing, Closing
  <2>2. Content(run', vault')
    BY DEF Content, HasConfig, Writing, Closing
  <2>3. Verdict(run', primary', backup', vault', fate')
    <3>1. Verdict(run, primary, backup, vault, fate)
      BY <1>1 DEF RunOK
    <3> QED
      BY <3>1 DEF Verdict, Reading, Writing, Closing
  <2>4. told' \/ Unlocking(run', primary', backup', vault')
    BY DEF Unlocking, Writing
  <2>5. Cleaning(run', primary', backup', side', sanitised')
    BY DEF Cleaning, Writing, Closing
  <2> QED
    BY <2>1, <2>2, <2>3, <2>4, <2>5 DEF RunOK
<1>6. FilesAgree'
  BY <1>1 DEF FilesAgree
<1>7. FilesOpen'
  <2>1. CASE vault' = vault
    BY <1>1, <2>1 DEF FilesOpen
  <2>2. CASE vault' # vault
    BY <1>1, <2>2 DEF FilesOpen, Unlocks, Bundleless
  <2> QED
    BY <2>1, <2>2
<1>8. FilesSealed'
  BY <1>1 DEF FilesSealed
<1> QED
  BY <1>3, <1>4, <1>5, <1>6, <1>7, <1>8 DEF ConfigInv

\* A key is needed.
LEMMA ToKey ==
    ASSUME ConfigInv, run \in Runs, run.pc = "dispatch",
           run' \in Runs, run'.pc = "key",
           run'.by = run.by, run'.touched = run.touched, run'.was = run.was, run'.disk = run.disk,
           run'.created = run.created,
           run'.call = run.call \/ (run.call = "fetch" /\ run'.call = "load"),
           UNCHANGED <<windows, primary, backup, side, vault, lock, caller, fate, told, sanitised>>,
           cache' \in {None, vault.master},
           run'.call \in {"load", "fetch", "save"},
           run'.call \in {"load", "save"} => Conforms(run'.config, run.was, Names \ run.touched),
           run'.call = "fetch" =>
               /\ run'.arg \in At(run.disk, "text") \cup (At(run.disk, "ref") \cap DOMAIN vault.refs)
               /\ run'.refs \subseteq {run'.arg}
    PROVE  ConfigInv'
<1>1. ConfigTypes /\ CommandsOK /\ RunOK /\ FilesAgree /\ FilesOpen /\ FilesSealed /\ run # Idle
  BY CallFacts DEF ConfigInv
<1>2. run' # Idle
  BY <1>1, CallFacts
<1>3. ConfigTypes'
  BY <1>1 DEF ConfigTypes
<1>4. CommandsOK'
  BY <1>1, <1>2, CommandGoesOn
<1>5. RunOK'
  <2>1. Position(run', primary', backup')
    <3>1. Position(run, primary, backup)
      BY <1>1 DEF RunOK
    <3> QED
      BY <3>1 DEF Position, FromDisk, Reading, Writing, Closing
  <2>2. Content(run', vault')
    BY DEF Content, HasConfig, Writing, Closing
  <2>3. Verdict(run', primary', backup', vault', fate')
    <3>1. Verdict(run, primary, backup, vault, fate)
      BY <1>1 DEF RunOK
    <3> QED
      BY <3>1 DEF Verdict, Reading, Writing, Closing
  <2>4. Unlocking(run', primary', backup', vault')
    BY DEF Unlocking, Writing
  <2>5. Cleaning(run', primary', backup', side', sanitised')
    BY DEF Cleaning, Writing, Closing
  <2> QED
    BY <2>1, <2>2, <2>3, <2>4, <2>5 DEF RunOK
<1>6. FilesAgree' /\ FilesOpen' /\ FilesSealed'
  BY <1>1 DEF FilesAgree, FilesOpen, FilesSealed
<1> QED
  BY <1>3, <1>4, <1>5, <1>6 DEF ConfigInv

\* load has opened everything, save has everything: the whole file is written.
LEMMA WriteInv ==
    ASSUME ConfigInv, run \in Runs, run.pc = "dispatch",
           NEW r \in Runs, run' = Write(r), r.call \in {"load", "save"},
           r.by = run.by, r.touched = run.touched, r.was = run.was, r.disk = run.disk,
           r.created = run.created,
           r.call = run.call \/ (run.call = "fetch" /\ r.call = "load"),
           Conforms(r.config, run.was, Names \ run.touched),
           UNCHANGED <<windows, primary, backup, side, vault, lock, caller, fate, told, sanitised>>,
           cache' \in {None, vault.master}
    PROVE  ConfigInv'
<1>1. ~run.created /\ vault \in Vaults
  BY CallFacts DEF ConfigInv, RunOK, Position, ConfigTypes
<1>2. r.config \in ConfigValues
  BY DEF Runs
<1>3. CASE DOMAIN r.config.secrets = {}
  <2> DEFINE f == Sealed(r.config.secrets, r.config.active, None)
  <2>1. /\ f \in Sound /\ At(f, "text") = {} /\ At(f, "ref") = {}
        /\ \A refs, n : Spoken(refs, f, n) = Told(r.config, n)
    BY <1>2, <1>3, SealedFacts
  <2>2. At(f, "bundle") = {}
    BY <1>3 DEF At, Sealed
  <2> HIDE DEF f
  <2> DEFINE q == [r EXCEPT !.pc = "stage", !.new = f]
  <2>3. f \in Sound
    BY <2>1
  <2>4. /\ q \in Runs /\ q.pc = "stage" /\ q.new = f
        /\ q.by = r.by /\ q.touched = r.touched /\ q.was = r.was /\ q.disk = r.disk
        /\ q.call = r.call /\ q.config = r.config /\ q.created = r.created
    <3>1. q \in Runs
      BY <2>3 DEF Runs, Steps, Reading
    <3>2. /\ q.pc = "stage" /\ q.new = f
          /\ q.by = r.by /\ q.touched = r.touched /\ q.was = r.was /\ q.disk = r.disk
          /\ q.call = r.call /\ q.config = r.config /\ q.created = r.created
      BY DEF Runs
    <3> QED
      BY <3>1, <3>2
  <2>7. run' = q
    BY <1>3 DEF Write, f
  <2> HIDE DEF q
  <2>5. Agrees(vault.refs, f, run.was, Names \ run.touched)
    BY <2>1 DEF Agrees, Conforms
  <2>6. Text(f) # "text" /\ Unlocks(vault, f)
    BY <2>1, <2>2, TextFacts DEF Unlocks
  <2> QED
    BY <1>1, <2>1, <2>4, <2>5, <2>6, <2>7, ToStage
<1>4. CASE DOMAIN r.config.secrets # {}
  <2>1. run' = [r EXCEPT !.pc = "key"]
    BY <1>4 DEF Write
  <2>2. /\ run' \in Runs /\ run'.pc = "key"
        /\ run'.by = r.by /\ run'.touched = r.touched /\ run'.was = r.was /\ run'.disk = r.disk
        /\ run'.call = r.call /\ run'.config = r.config /\ run'.created = r.created
    BY <2>1 DEF Runs, Steps, Reading
  <2> QED
    BY <2>2, ToKey
<1> QED
  BY <1>3, <1>4

\* What is known of the files once they are read and before they are written.
LEMMA DiskFacts ==
    ASSUME ConfigInv, run \in Runs, run.pc \in Reading
    PROVE  /\ run.disk \in Sound /\ fate = run.was
           /\ Agrees(vault.refs, run.disk, run.was, Names)
           /\ \A n \in Names : run.was[n] # "open" => Spoken(vault.refs, run.disk, n) = run.was[n]
           /\ told \/ Unlocks(vault, run.disk)
           /\ Text(run.disk) = "text" => Text(primary) = "text"
           /\ Text(backup) = "text" => Text(run.disk) = "text"
           /\ primary = Missing => backup = Missing
           /\ primary # Missing => primary = run.disk
<1>1. /\ FromDisk(run, primary, backup) /\ FilesAgree /\ FilesOpen /\ FilesSealed
      /\ fate = run.was /\ run.disk \in Sound
  BY CallFacts DEF ConfigInv, RunOK, Position, Verdict, Runs
<1>2. CASE IsConfig(primary) /\ run.disk = primary
  BY <1>1, <1>2, ConfigFacts DEF FilesAgree, FilesOpen, FilesSealed, PairAgrees, Agrees
<1>3. CASE primary = Missing /\ backup = Missing /\ run.disk = Empty
  <2>1. Unlocks(vault, Empty)
    BY ConfigFacts DEF Unlocks
  <2> QED
    BY <1>1, <1>3, <2>1, ConfigFacts, TextFacts DEF FilesAgree, PairAgrees, Agrees
<1> QED
  BY <1>1, <1>2, <1>3 DEF FromDisk

\* The master key kept in memory is the one in the vault.
LEMMA CacheFacts ==
    ASSUME ConfigTypes
    PROVE  /\ KeyNow \in {None, vault.master} /\ KeyNow \in Keys \cup {None}
           /\ \A d : CacheOpened(d) => cache' \in {None, vault.master}
           /\ cache' = cache => cache' \in {None, vault.master}
  BY DEF ConfigTypes, KeyNow, CacheOpened, Vaults

\* A full load decides what it has to write.
LEMMA LoadInv ==
    ASSUME ConfigInv, run \in Runs, run.pc = "dispatch", Load,
           UNCHANGED <<windows, primary, backup, side, vault, fate, told, sanitised>>
    PROVE  ConfigInv'
<1> DEFINE d == run.disk
           config == [secrets |-> Hydrated(d), active |-> d.active]
           r == [run EXCEPT !.config = config, !.call = "load", !.mode = "legacy", !.refs = At(d, "ref")]
<1>1. /\ ConfigTypes /\ CommandsOK /\ RunOK /\ FilesAgree /\ FilesOpen /\ FilesSealed /\ run # Idle
      /\ vault \in Vaults
  BY CallFacts DEF ConfigInv, ConfigTypes
<1>2. /\ d \in Sound /\ fate = run.was
      /\ \A n \in Names : run.was[n] # "open" => Spoken(vault.refs, d, n) = run.was[n]
      /\ Text(backup) = "text" => Text(d) = "text"
      /\ primary = Missing => backup = Missing
      /\ primary # Missing => primary = d
  BY DiskFacts DEF Reading
<1>3. /\ At(d, "ref") \subseteq DOMAIN vault.refs /\ At(d, "ref") \subseteq Ids
      /\ run.call = "load" \/ run.call = "fetch"
      /\ UNCHANGED <<caller, lock>>
      /\ cache' \in {None, vault.master}
  BY <1>1, <1>2, EntryFacts, CacheFacts DEF Load, Sound
<1>4. config \in ConfigValues /\ Conforms(config, run.was, Names)
  <2> HIDE DEF config
  <2>1. config = [secrets |-> Hydrated(d), active |-> d.active]
    BY DEF config
  <2>2. config \in ConfigValues /\ \A n \in Names : Told(config, n) = Spoken(vault.refs, d, n)
    BY <1>1, <1>2, <1>3, <2>1, HydratedFacts
  <2> QED
    BY <1>2, <2>2 DEF Conforms
<1>5. Conforms(config, run.was, Names \ run.touched)
  BY <1>4 DEF Conforms
<1>6. run' = IF d.format # "encrypted" \/ At(d, "ref") # {} THEN Write(r)
             ELSE [r EXCEPT !.pc = IF primary = Missing THEN "drop" ELSE "sweep"]
  BY DEF Load
<1> HIDE DEF config
<1>7. /\ r \in Runs /\ r.call = "load" /\ r.config = config /\ r.refs = At(d, "ref")
      /\ r.by = run.by /\ r.touched = run.touched /\ r.was = run.was /\ r.disk = run.disk
      /\ r.created = run.created
  BY <1>3, <1>4 DEF Runs
<1> HIDE DEF r, d
<1>8. CASE d.format # "encrypted" \/ At(d, "ref") # {}
  <2>1. run' = Write(r)
    BY <1>6, <1>8
  <2> QED
    BY <1>3, <1>5, <1>7, <2>1, WriteInv
<1>9. CASE ~(d.format # "encrypted" \/ At(d, "ref") # {})
  <2> DEFINE p == IF primary = Missing THEN "drop" ELSE "sweep"
  <2>1. run' = [r EXCEPT !.pc = p]
    BY <1>6, <1>9
  <2>2. p \in {"drop", "sweep"} /\ p \in Steps /\ (p = "drop" => primary = Missing)
    BY DEF Steps, Closing
  <2> HIDE DEF p
  <2>3. /\ run' \in Runs /\ run'.pc = p /\ run'.call = "load" /\ run'.config = config
        /\ run'.refs = {} /\ run'.by = run.by /\ run'.touched = run.touched /\ run'.was = run.was
        /\ run'.created = run.created /\ run'.new = r.new
    BY <1>7, <1>9, <2>1, <2>2 DEF Runs
  <2>4. Text(primary) = "sealed" /\ Text(backup) = "sealed"
    <3>1. Text(d) = "sealed"
      BY <1>2, <1>9, TextFacts DEF Sound
    <3> QED
      BY <1>2, <3>1, TextFacts
  <2>5. run' # Idle
    BY <1>1, <2>3, CallFacts
  <2>6. CommandsOK'
    BY <1>1, <1>3, <2>3, <2>5, CommandGoesOn
  <2>7. ConfigTypes'
    BY <1>1, <1>3, <2>3 DEF ConfigTypes
  <2>8. Position(run', primary', backup')
    BY <1>2, <2>2, <2>3 DEF Position, Reading, Writing, Closing
  <2>9. Content(run', vault')
    BY <1>5, <2>2, <2>3 DEF Content, Reading, Writing
  <2>10. Verdict(run', primary', backup', vault', fate')
    BY <1>2, <2>2, <2>3 DEF Verdict, Writing
  <2>11. Unlocking(run', primary', backup', vault')
    BY <2>2, <2>3 DEF Unlocking, Writing
  <2>12. Cleaning(run', primary', backup', side', sanitised')
    BY <2>2, <2>3, <2>4 DEF Cleaning, Writing
  <2>13. FilesAgree' /\ FilesOpen' /\ FilesSealed'
    BY <1>1 DEF FilesAgree, FilesOpen, FilesSealed
  <2> QED
    BY <2>6, <2>7, <2>8, <2>9, <2>10, <2>11, <2>12, <2>13 DEF ConfigInv, RunOK
<1> QED
  BY <1>8, <1>9

\* A connection whose secret is not in the bundle yet is fetched, and migrated.
LEMMA FetchLegacyInv ==
    ASSUME ConfigInv, run \in Runs, run.pc = "dispatch", FetchLegacy,
           UNCHANGED <<windows, primary, backup, side, vault, fate, told, sanitised>>
    PROVE  ConfigInv'
<1> DEFINE d == run.disk
           i == run.arg
           m == IF d.format = "encrypted" THEN "current" ELSE "legacy"
<1>1. ConfigTypes
  BY DEF ConfigInv
<1>2. /\ run' = [run EXCEPT !.pc = "key", !.refs = {i} \cap At(d, "ref"), !.mode = m]
      /\ run.call = "fetch" /\ i \in At(d, "text") \cup (At(d, "ref") \cap DOMAIN vault.refs)
      /\ UNCHANGED <<caller, lock>> /\ cache' \in {None, vault.master}
  BY <1>1, CacheFacts DEF FetchLegacy
<1>3. d \in Configs
  BY DEF Runs, Sound
<1>4. i \in Ids /\ m \in {"current", "legacy"} /\ "key" \in Steps
  BY <1>2, <1>3, EntryFacts DEF Steps, Reading
<1> HIDE DEF m
<1>5. /\ run' \in Runs /\ run'.pc = "key" /\ run'.refs = {i} \cap At(d, "ref")
      /\ run'.by = run.by /\ run'.call = run.call /\ run'.arg = i /\ run'.touched = run.touched
      /\ run'.was = run.was /\ run'.disk = run.disk /\ run'.created = run.created
  BY <1>2, <1>4 DEF Runs
<1> QED
  BY <1>2, <1>5, ToKey

\* The active connection is changed in the file.
LEMMA ActivateInv ==
    ASSUME ConfigInv, run \in Runs, run.pc = "dispatch", Activate,
           UNCHANGED <<windows, primary, backup, side, vault, fate, told, sanitised>>
    PROVE  ConfigInv'
<1> DEFINE d == run.disk
           f == [d EXCEPT !.active = run.arg]
<1>1. /\ ConfigTypes /\ CommandsOK /\ run # Idle /\ vault \in Vaults /\ ~run.created
      /\ run.by \in Callers
  BY CallFacts DEF ConfigInv, ConfigTypes, RunOK, Position
<1>2. /\ d \in Sound
      /\ Agrees(vault.refs, d, run.was, Names)
      /\ told \/ Unlocks(vault, d)
      /\ Text(d) = "text" => Text(primary) = "text"
  BY DiskFacts DEF Reading
<1>3. run.call = "active" /\ run.arg \in Ids \cup {None} /\ UNCHANGED <<caller, lock>>
      /\ cache' \in {None, vault.master}
  BY <1>1, CacheFacts DEF Activate, Runs
<1>4. run.touched = {"active"}
  BY <1>1, <1>3 DEF CommandsOK, CallOf
<1>5. run' = [run EXCEPT !.pc = "stage", !.new = f]
  BY DEF Activate
<1>6. /\ f \in Configs /\ f.entries = d.entries /\ f.key = d.key /\ f.format = d.format
  BY <1>2, <1>3 DEF Sound, Configs
<1> HIDE DEF f, d
<1>7. \A k \in {"text", "bundle", "ref"} : At(f, k) = At(d, k)
  BY <1>6 DEF At
<1>8. f \in Sound
  BY <1>2, <1>6, <1>7 DEF Sound
<1>9. IsConfig(f) /\ IsConfig(d)
  BY <1>2, <1>8, ConfigFacts
<1>10. Text(f) = Text(d)
  BY <1>7, <1>9 DEF Text
<1>11. Unlocks(vault, d) => Unlocks(vault, f)
  BY <1>6, <1>7, <1>9 DEF Unlocks
<1>12. Agrees(vault.refs, f, run.was, Names \ run.touched)
  BY <1>2, <1>4, <1>6, <1>9 DEF Agrees, Spoken
<1> DEFINE q == [run EXCEPT !.pc = "stage", !.new = f]
<1>13. /\ q \in Runs /\ q.pc = "stage" /\ q.new = f
       /\ q.by = run.by /\ q.touched = run.touched /\ q.was = run.was /\ q.disk = run.disk
       /\ q.call = run.call /\ q.config = run.config /\ q.created = run.created
  <2>1. q \in Runs
    BY <1>8 DEF Runs, Steps, Reading
  <2>2. /\ q.pc = "stage" /\ q.new = f
        /\ q.by = run.by /\ q.touched = run.touched /\ q.was = run.was /\ q.disk = run.disk
        /\ q.call = run.call /\ q.config = run.config /\ q.created = run.created
    BY DEF Runs
  <2> QED
    BY <2>1, <2>2
<1> HIDE DEF q
<1>14. run' = q
  BY <1>5 DEF q
<1> QED
  BY <1>1, <1>2, <1>3, <1>10, <1>11, <1>12, <1>13, <1>14, ToStage

\* The first step of every call after reading.
LEMMA DispatchInv == ASSUME ConfigInv, Dispatch PROVE ConfigInv'
<1>1. ConfigTypes /\ run \in Runs /\ run # Idle /\ run.pc = "dispatch"
  BY CallFacts DEF ConfigInv, Dispatch, AtStep, Steps, Reading
<1>2. UNCHANGED <<windows, primary, backup, side, vault, fate, told, sanitised>>
  BY DEF Dispatch, files
<1>3. CASE Load
  BY <1>1, <1>2, <1>3, LoadInv
<1>4. CASE FetchSealed
  <2>1. ReturnOk /\ run.call = "fetch" /\ cache' \in {None, vault.master}
    BY <1>1, <1>4, CacheFacts DEF FetchSealed
  <2> QED
    BY <1>1, <1>2, <2>1, EndsWell DEF Reading, ConfigTypes
<1>5. CASE FetchLegacy
  BY <1>1, <1>2, <1>5, FetchLegacyInv
<1>6. CASE Activate
  BY <1>1, <1>2, <1>6, ActivateInv
<1>7. CASE Save
  <2>1. run.call = "save" /\ run' = Write(run) /\ UNCHANGED <<caller, lock>>
        /\ cache' \in {None, vault.master}
    BY <1>1, <1>7, CacheFacts DEF Save
  <2>2. Conforms(run.config, run.was, Names \ run.touched)
    BY <1>1, <2>1 DEF ConfigInv, RunOK, Content, HasConfig
  <2> QED
    BY <1>1, <1>2, <2>1, <2>2, WriteInv
<1>8. CASE ReadOnly
  <2>1. ReturnOk /\ run.call = "public" /\ cache' \in {None, vault.master}
    BY <1>1, <1>8, CacheFacts DEF ReadOnly
  <2> QED
    BY <1>1, <1>2, <2>1, EndsWell DEF Reading, ConfigTypes
<1>9. CASE Refuse
  <2>1. ReturnErr /\ cache' \in {None, vault.master}
    BY <1>1, <1>9, CacheFacts DEF Refuse
  <2> QED
    BY <1>1, <1>2, <2>1, EndsQuietly
<1> QED
  BY <1>3, <1>4, <1>5, <1>6, <1>7, <1>8, <1>9 DEF Dispatch

-----------------------------------------------------------------------------
(* The key.                                                                *)

LEMMA NewFileFacts ==
    ASSUME ConfigInv, run \in Runs, run.pc = "key", NEW k \in Keys,
           NEW v, v.master = k, v.refs = vault.refs
    PROVE  LET f == NewFile(k)
           IN  /\ f \in Sound /\ At(f, "text") = {}
               /\ run.call \in {"load", "fetch"} => At(f, "ref") \cap run.refs = {}
               /\ Agrees(vault.refs, f, run.was, Names \ run.touched)
               /\ told \/ Unlocks(v, f)
<1> DEFINE d == run.disk
<1>1. /\ vault \in Vaults /\ Content(run, vault) /\ run.config \in ConfigValues
      /\ run.call \in {"load", "fetch", "save"}
  BY CallFacts DEF ConfigInv, ConfigTypes, RunOK, Content, Runs
<1>2. /\ d \in Sound /\ IsConfig(d)
      /\ Agrees(vault.refs, d, run.was, Names)
      /\ told \/ Unlocks(vault, d)
  BY DiskFacts, ConfigFacts DEF Reading
<1>3. CASE run.call = "fetch"
  <2> DEFINE f == PartlySealed(d, run.arg, k)
  <2>1. run.arg \in At(d, "text") \cup (At(d, "ref") \cap DOMAIN vault.refs) /\ run.refs \subseteq {run.arg}
    BY <1>1, <1>3 DEF Content
  <2>2. /\ f \in Sound
        /\ At(f, "text") = {} /\ At(f, "ref") = At(d, "ref") \ {run.arg}
        /\ f.key = k
        /\ \A n \in Names : Spoken(vault.refs, f, n) = Spoken(vault.refs, d, n)
    BY <1>1, <1>2, <2>1, PartlySealedFacts
  <2>3. NewFile(k) = f
    BY <1>3 DEF NewFile
  <2> HIDE DEF f
  <2>4. Agrees(vault.refs, f, run.was, Names \ run.touched)
    BY <1>2, <2>2 DEF Agrees
  <2>5. told \/ Unlocks(v, f)
    BY <1>2, <2>2 DEF Unlocks
  <2> QED
    BY <2>1, <2>2, <2>3, <2>4, <2>5
<1>4. CASE run.call \in {"load", "save"}
  <2> DEFINE f == Sealed(run.config.secrets, run.config.active, k)
  <2>1. k # None /\ k \in Keys \cup {None}
    OBVIOUS
  <2>2. /\ f \in Sound
        /\ At(f, "text") = {} /\ At(f, "ref") = {}
        /\ At(f, "bundle") # {} => f.key = k
        /\ \A refs, n : Spoken(refs, f, n) = Told(run.config, n)
    BY <1>1, <2>1, SealedFacts
  <2>3. NewFile(k) = f
    BY <1>4 DEF NewFile
  <2> HIDE DEF f
  <2>4. Conforms(run.config, run.was, Names \ run.touched)
    BY <1>1, <1>4 DEF Content, HasConfig, Reading
  <2>5. Agrees(vault.refs, f, run.was, Names \ run.touched)
    BY <2>2, <2>4 DEF Agrees, Conforms
  <2>6. Unlocks(v, f)
    BY <2>2 DEF Unlocks
  <2> QED
    BY <2>2, <2>3, <2>5, <2>6
<1> QED
  BY <1>1, <1>3, <1>4

\* The call goes on with the key it was given, or with a new one.
LEMMA UseKeyInv ==
    ASSUME ConfigInv, run \in Runs, run.pc = "key",
           NEW k \in Keys, NEW created \in BOOLEAN, UseKey(k, created),
           vault' \in Vaults, vault'.master = k, vault'.refs = vault.refs,
           created \/ vault' # vault => vault.master = None,
           UNCHANGED <<windows, primary, backup, side, fate, told, sanitised>>
    PROVE  ConfigInv'
<1> DEFINE f == NewFile(k)
           q == [run EXCEPT !.pc = "stage", !.created = created, !.new = f]
<1>1. /\ f \in Sound /\ At(f, "text") = {}
      /\ run.call \in {"load", "fetch"} => At(f, "ref") \cap run.refs = {}
      /\ Agrees(vault.refs, f, run.was, Names \ run.touched)
  BY NewFileFacts
<1>2. told \/ Unlocks(vault', f)
  BY NewFileFacts
<1>3. run' = q /\ cache' = k /\ UNCHANGED <<caller, lock>>
  BY DEF UseKey
<1> HIDE DEF f
<1>4. q \in Runs
  BY <1>1 DEF Runs, Steps, Reading
<1>5. /\ q.pc = "stage" /\ q.new = f /\ q.created = created
      /\ q.by = run.by /\ q.touched = run.touched /\ q.was = run.was /\ q.disk = run.disk
      /\ q.call = run.call /\ q.config = run.config /\ q.refs = run.refs
  BY DEF Runs
<1> HIDE DEF q
<1>6. /\ FilesOpen /\ Content(run, vault) /\ backup \in Stored
  BY CallFacts DEF ConfigInv, RunOK, ConfigTypes
<1>7. /\ run.call # "public"
      /\ run.call \in {"load", "save"} => Conforms(run.config, run.was, Names \ run.touched)
  BY <1>6 DEF Content, HasConfig, Reading
<1>8. Text(f) # "text"
  BY <1>1, TextFacts
<1>9. created \/ vault' # vault => told \/ (Bundleless(primary) /\ Bundleless(backup))
  <2> SUFFICES ASSUME vault.master = None, ~told
               PROVE  Bundleless(primary) /\ Bundleless(backup)
    OBVIOUS
  <2>1. primary \in Stored
    BY DiskFacts DEF Reading, Stored
  <2>2. \A g \in Stored : Unlocks(vault, g) => Bundleless(g)
    BY ConfigFacts DEF Stored, Sound, Unlocks, Bundleless
  <2> QED
    BY <1>6, <2>1, <2>2 DEF FilesOpen
<1> QED
  BY <1>1, <1>2, <1>3, <1>4, <1>5, <1>7, <1>8, <1>9, ToStage

\* The key is taken from memory, from the vault, or made.
LEMMA GetKeyInv == ASSUME ConfigInv, GetKey PROVE ConfigInv'
<1>1. ConfigTypes /\ run \in Runs /\ run # Idle /\ run.pc = "key" /\ vault \in Vaults
  BY CallFacts DEF ConfigInv, GetKey, AtStep, Steps, Reading, ConfigTypes
<1>2. UNCHANGED <<windows, primary, backup, side, fate, told, sanitised>>
  BY DEF GetKey, files
<1>3. KeyNow \in {None, vault.master} /\ KeyNow \in Keys \cup {None} /\ cache \in {None, vault.master}
  BY <1>1, CacheFacts DEF ConfigTypes
<1>4. CASE KeyNow # None /\ UseKey(KeyNow, FALSE) /\ UNCHANGED vault
  <2>1. KeyNow \in Keys /\ vault.master = KeyNow
    BY <1>3, <1>4
  <2> DEFINE k == KeyNow
  <2>2. k \in Keys /\ vault.master = k /\ UseKey(k, FALSE)
    BY <1>4, <2>1
  <2> HIDE DEF k
  <2> QED
    BY <1>1, <1>2, <1>4, <2>2, UseKeyInv
<1>5. ASSUME KeyNow = None, NEW k \in Keys, UseKey(k, TRUE), vault' = [vault EXCEPT !.master = k]
      PROVE  ConfigInv'
  <2>1. vault.master = None
    BY <1>5 DEF KeyNow
  <2>2. vault' \in Vaults /\ vault'.master = k /\ vault'.refs = vault.refs
    BY <1>1, <1>5 DEF Vaults
  <2> QED
    BY <1>1, <1>2, <1>5, <2>1, <2>2, UseKeyInv
<1>6. CASE ReturnErr /\ UNCHANGED <<cache, vault>>
  BY <1>1, <1>2, <1>3, <1>6, EndsQuietly
<1> QED
  BY <1>4, <1>5, <1>6 DEF GetKey

-----------------------------------------------------------------------------
(* Writing.                                                                *)

\* Two states of the call that writes one file.
SameWrite(q, r) ==
    /\ q.by = r.by /\ q.call = r.call /\ q.arg = r.arg /\ q.config = r.config
    /\ q.touched = r.touched /\ q.was = r.was /\ q.disk = r.disk /\ q.new = r.new
    /\ q.mode = r.mode /\ q.before = r.before /\ q.created = r.created /\ q.refs = r.refs

\* While a file is written both places hold old, new or no file.
Written(r, p, b) ==
    \/ p = r.before[1] /\ b \in {r.before[2], r.new, Missing}
    \/ p = Missing /\ b = r.new
    \/ p = r.new /\ b = r.new

CleanSides(s) == \A f \in DOMAIN s : s[f] # "text"

\* What is known while the two files are being replaced: both old ones, the new one, and which of them hold.
LEMMA WritingFacts ==
    ASSUME ConfigInv, run \in Runs, run.pc \in Writing
    PROVE  LET o == run.before[1]
               u == run.before[2]
           IN  /\ o \in Stored /\ u \in Stored /\ run.new \in Sound
               /\ o = Missing => u = Missing
               /\ PairAgrees(vault.refs, o, u, run.was) /\ fate = Opened(run.was, run.touched)
               /\ PairAgrees(vault.refs, o, u, fate)
               /\ Agrees(vault.refs, run.new, run.was, Names \ run.touched)
               /\ Agrees(vault.refs, run.new, fate, Names)
               /\ told \/ (Unlocks(vault, o) /\ Unlocks(vault, u) /\ Unlocks(vault, run.new))
               /\ told \/ ~run.created \/ (Bundleless(o) /\ Bundleless(u))
               /\ Text(run.new) = "text" => Text(o) = "text"
               /\ Text(u) = "text" => Text(o) = "text"
               /\ sanitised => Text(o) = "sealed"
               /\ run.call \in {"load", "fetch", "save", "active"}
               /\ run.call = "load" => At(run.new, "text") = {}
               /\ run.call \in {"load", "fetch"} => At(run.new, "ref") \cap run.refs = {}
               /\ run.call \in {"load", "save"} => Conforms(run.config, run.was, Names \ run.touched)
<1> DEFINE o == run.before[1]
           u == run.before[2]
<1>1. /\ Position(run, primary, backup) /\ Content(run, vault)
      /\ Verdict(run, primary, backup, vault, fate)
      /\ told \/ Unlocking(run, primary, backup, vault)
      /\ Cleaning(run, primary, backup, side, sanitised)
  BY CallFacts DEF ConfigInv, RunOK
<1>2. run.before \in (Stored \cup {Invalid}) \X Stored /\ run.new \in Sound
  BY DEF Runs
<1>3. o \in Stored /\ u \in Stored /\ (o = Missing => u = Missing)
  BY <1>1, <1>2 DEF Position
<1>4. PairAgrees(vault.refs, o, u, run.was) /\ fate = Opened(run.was, run.touched)
  BY <1>1 DEF Verdict
<1>5. PairAgrees(vault.refs, o, u, fate)
  <2> HIDE DEF o, u
  <2> QED
    BY <1>4, AgreesFacts DEF PairAgrees
<1>6. Agrees(vault.refs, run.new, run.was, Names \ run.touched)
      /\ run.call \in {"load", "fetch", "save", "active"}
      /\ (run.call = "load" => At(run.new, "text") = {})
      /\ (run.call \in {"load", "fetch"} => At(run.new, "ref") \cap run.refs = {})
  BY <1>1 DEF Content, Runs
<1>7. run.call \in {"load", "save"} => Conforms(run.config, run.was, Names \ run.touched)
  BY <1>1 DEF Content, HasConfig, Writing, Reading, Closing
<1>8. Agrees(vault.refs, run.new, fate, Names)
  BY <1>4, <1>6 DEF Agrees, Opened
<1>9. /\ told \/ (Unlocks(vault, o) /\ Unlocks(vault, u) /\ Unlocks(vault, run.new))
      /\ told \/ ~run.created \/ (Bundleless(o) /\ Bundleless(u))
  BY <1>1 DEF Unlocking
<1>10. /\ Text(run.new) = "text" => Text(o) = "text"
       /\ Text(u) = "text" => Text(o) = "text"
       /\ sanitised => Text(o) = "sealed"
  BY <1>1 DEF Cleaning
<1> QED
  BY <1>2, <1>3, <1>4, <1>5, <1>6, <1>7, <1>8, <1>9, <1>10

\* Any mixture of the old files and the new one agrees with what was told, opens and is no less sealed.
LEMMA WrittenFiles ==
    ASSUME ConfigInv, run \in Runs, run.pc \in Writing, Written(run, primary', backup'),
           UNCHANGED <<vault, fate, told, sanitised>>,
           CleanSides(side) => CleanSides(side') \/ ~sanitised
    PROVE  /\ primary' \in Stored /\ backup' \in Stored
           /\ FilesAgree' /\ FilesOpen' /\ FilesSealed'
<1> DEFINE o == run.before[1]
           u == run.before[2]
           n == run.new
<1>1. /\ o \in Stored /\ u \in Stored /\ n \in Sound /\ IsConfig(n) /\ n # Missing
      /\ o = Missing => u = Missing
      /\ PairAgrees(vault.refs, o, u, fate)
      /\ Agrees(vault.refs, n, fate, Names)
      /\ told \/ (Unlocks(vault, o) /\ Unlocks(vault, u) /\ Unlocks(vault, n))
      /\ Text(n) = "text" => Text(o) = "text"
      /\ Text(u) = "text" => Text(o) = "text"
      /\ sanitised => Text(o) = "sealed"
  BY WritingFacts, ConfigFacts
<1> HIDE DEF o, u, n
<1>2. \/ primary' = o /\ backup' \in {u, n, Missing}
      \/ primary' = Missing /\ backup' = n
      \/ primary' = n /\ backup' = n
  BY DEF Written, o, u, n
<1>3. primary' \in Stored /\ backup' \in Stored
  BY <1>1, <1>2 DEF Stored
<1>4. FilesAgree'
  <2>1. Agrees(vault.refs, Missing, fate, Names)
    BY ConfigFacts DEF Agrees
  <2>2. Agrees(vault.refs, o, fate, Names) /\ Agrees(vault.refs, u, fate, Names)
        /\ (o = Missing => Agrees(vault.refs, Empty, fate, Names))
    BY <1>1 DEF PairAgrees
  <2> QED
    BY <1>1, <1>2, <2>1, <2>2 DEF FilesAgree, PairAgrees
<1>5. FilesOpen'
  <2>1. Unlocks(vault, Missing)
    BY ConfigFacts DEF Unlocks
  <2> QED
    BY <1>1, <1>2, <2>1 DEF FilesOpen
<1>6. FilesSealed'
  <2>1. \A f : Text(f) \in {"text", "sealed"}
    BY TextFacts
  <2>2. Text(Missing) = "sealed" /\ ~IsConfig(Missing)
    BY TextFacts, ConfigFacts
  <2>3. FilesSealed
    BY DEF ConfigInv
  <2>4. sanitised => CleanSides(side')
    BY <2>3 DEF FilesSealed, CleanSides
  <2>5. sanitised => Text(o) = "sealed" /\ Text(u) = "sealed" /\ Text(n) = "sealed"
    BY <1>1, <2>1
  <2>6. IsConfig(primary') /\ Text(backup') = "text" => Text(primary') = "text"
    BY <1>1, <1>2, <2>1, <2>2
  <2>7. sanitised => Text(primary') = "sealed" /\ Text(backup') = "sealed"
    BY <1>2, <2>2, <2>5
  <2> QED
    BY <2>4, <2>6, <2>7 DEF FilesSealed, CleanSides
<1> QED
  BY <1>3, <1>4, <1>5, <1>6

\* A step from one point of the write to another keeps the invariant.
LEMMA WriteGoesOn ==
    ASSUME ConfigInv, run \in Runs, run.pc \in Writing,
           run' \in Runs, run'.pc \in Writing, SameWrite(run', run),
           Position(run', primary', backup'), side' \in Sides,
           CleanSides(side) => CleanSides(side') \/ ~sanitised,
           UNCHANGED <<windows, vault, cache, lock, caller, fate, told, sanitised>>
    PROVE  ConfigInv'
<1>1. ConfigTypes /\ CommandsOK /\ RunOK /\ run # Idle
  BY CallFacts DEF ConfigInv
<1>2. run' # Idle
  BY <1>1, CallFacts
<1>3. Written(run, primary', backup')
  BY DEF Position, Written, SameWrite, Writing
<1>4. primary' \in Stored /\ backup' \in Stored /\ FilesAgree' /\ FilesOpen' /\ FilesSealed'
  BY <1>3, WrittenFiles
<1>5. ConfigTypes'
  BY <1>1, <1>4 DEF ConfigTypes
<1>6. CommandsOK'
  BY <1>1, <1>2, CommandGoesOn DEF SameWrite
<1>7. RunOK'
  <2>1. Content(run', vault')
    BY WritingFacts DEF Content, HasConfig, SameWrite, Writing
  <2>2. Verdict(run', primary', backup', vault', fate')
    BY WritingFacts DEF Verdict, SameWrite, Writing, Reading, Closing
  <2>3. told' \/ Unlocking(run', primary', backup', vault')
    BY WritingFacts DEF Unlocking, SameWrite, Writing
  <2>4. Cleaning(run', primary', backup', side', sanitised')
    BY WritingFacts DEF Cleaning, SameWrite, Writing, Closing
  <2> QED
    BY <2>1, <2>2, <2>3, <2>4 DEF RunOK
<1> QED
  BY <1>4, <1>5, <1>6, <1>7 DEF ConfigInv

\* Both files are in place.
LEMMA WriteEnds ==
    ASSUME ConfigInv, run \in Runs, run.pc \in Writing,
           primary' = run.new, backup' = run.new, AfterWrite, side' \in Sides,
           CleanSides(side) => CleanSides(side') \/ ~sanitised,
           UNCHANGED <<windows, vault, cache, lock, caller, fate, told, sanitised>>
    PROVE  ConfigInv'
<1>1. ConfigTypes /\ CommandsOK /\ RunOK /\ run # Idle /\ run.by \in Callers
  BY CallFacts DEF ConfigInv
<1> DEFINE p == IF run.call \in {"save", "active"} THEN "ok" ELSE "sweep"
<1>2. p \in Steps /\ Goto(p)
  BY DEF AfterWrite, Steps, Closing
<1> HIDE DEF p
<1>3. run' \in Runs /\ run'.pc = p /\ SameCall(run', run)
  BY <1>1, <1>2, GotoFacts
<1>4. run' # Idle
  BY <1>1, <1>3, CallFacts
<1>5. Written(run, primary', backup')
  BY DEF Written
<1>6. primary' \in Stored /\ backup' \in Stored /\ FilesAgree' /\ FilesOpen' /\ FilesSealed'
  BY <1>5, WrittenFiles
<1>7. ConfigTypes'
  BY <1>1, <1>3, <1>6 DEF ConfigTypes
<1>8. CommandsOK'
  BY <1>1, <1>3, <1>4, CommandGoesOn DEF SameCall
<1>9. /\ p = "ok" <=> run.call \in {"save", "active"}
      /\ p = "sweep" <=> run.call \notin {"save", "active"}
      /\ p \in {"ok", "sweep"} /\ "ok" # "sweep"
  BY DEF p
<1>10. run.new # Missing /\ run.new \in Sound
  BY WritingFacts, ConfigFacts
<1>11. run.call \in {"load", "fetch", "save", "active"}
  BY WritingFacts
<1>12. RunOK'
  <2>1. Position(run', primary', backup')
    BY <1>3, <1>9, <1>10, <1>11 DEF Position, SameCall, Reading, Writing, Closing
  <2>2. Content(run', vault')
    BY <1>3, <1>9, WritingFacts DEF Content, HasConfig, SameCall, Writing, Reading, Closing
  <2>3. Verdict(run', primary', backup', vault', fate')
    <3>1. fate = Opened(run.was, run.touched)
      BY WritingFacts
    <3>2. p = "sweep" => fate = run.was
      <4>1. p = "sweep" => run.touched = {}
        BY <1>1, <1>9, <1>11 DEF CommandsOK, CallOf
      <4>2. Opened(run.was, {}) = run.was
        BY DEF Opened, Runs, Fates
      <4> QED
        BY <3>1, <4>1, <4>2
    <3> QED
      BY <1>3, <1>9, <3>1, <3>2 DEF Verdict, SameCall, Writing, Reading, Closing
  <2>4. told' \/ Unlocking(run', primary', backup', vault')
    BY <1>3, <1>9, WritingFacts DEF Unlocking, SameCall, Writing
  <2>5. Cleaning(run', primary', backup', side', sanitised')
    <3>1. run.call = "load" => Text(run.new) = "sealed"
      BY WritingFacts, TextFacts
    <3> QED
      BY <1>3, <1>9, <3>1 DEF Cleaning, SameCall, Writing, Closing
  <2> QED
    BY <2>1, <2>2, <2>3, <2>4, <2>5 DEF RunOK
<1> QED
  BY <1>6, <1>7, <1>8, <1>12 DEF ConfigInv

\* The files are what they were, or the rollback has failed.
LEMMA WriteFails ==
    ASSUME ConfigInv, run \in Runs, run.pc \in Writing,
           run' \in Runs, run'.pc = "abort", SameWrite(run', run),
           Written(run, primary', backup'),
           run'.failed \/ (primary' = run.before[1] /\ backup' = run.before[2]),
           UNCHANGED <<windows, side, vault, cache, lock, caller, fate, told, sanitised>>
    PROVE  ConfigInv'
<1>1. ConfigTypes /\ CommandsOK /\ RunOK /\ run # Idle
  BY CallFacts DEF ConfigInv
<1>2. run' # Idle
  BY <1>1, CallFacts
<1>3. primary' \in Stored /\ backup' \in Stored /\ FilesAgree' /\ FilesOpen' /\ FilesSealed'
  BY WrittenFiles
<1>4. ConfigTypes'
  BY <1>1, <1>3 DEF ConfigTypes
<1>5. CommandsOK'
  BY <1>1, <1>2, CommandGoesOn DEF SameWrite
<1>6. RunOK'
  <2>1. Position(run', primary', backup')
    BY DEF Position, Reading, Writing, Closing
  <2>2. Content(run', vault')
    BY DEF Content, HasConfig, Reading, Writing, Closing
  <2>3. Verdict(run', primary', backup', vault', fate')
    BY WritingFacts DEF Verdict, SameWrite, Writing, Reading, Closing
  <2>4. told' \/ Unlocking(run', primary', backup', vault')
    BY WritingFacts DEF Unlocking, SameWrite, Writing
  <2>5. Cleaning(run', primary', backup', side', sanitised')
    BY DEF Cleaning, Writing, Closing
  <2> QED
    BY <2>1, <2>2, <2>3, <2>4, <2>5 DEF RunOK
<1> QED
  BY <1>3, <1>4, <1>5, <1>6 DEF ConfigInv

\* Staging the new primary file.
LEMMA StagePrimaryInv == ASSUME ConfigInv, StagePrimary PROVE ConfigInv'
<1>1. /\ ConfigTypes /\ CommandsOK /\ RunOK /\ FilesAgree /\ FilesOpen /\ FilesSealed
      /\ run \in Runs /\ run # Idle /\ run.pc = "stage"
  BY CallFacts DEF ConfigInv, StagePrimary, AtStep, Steps, Reading
<1>2. UNCHANGED <<windows, primary, backup, side, vault, cache, lock, caller, told, sanitised>>
  BY DEF StagePrimary, files
<1>3. /\ Position(run, primary, backup) /\ Content(run, vault)
      /\ Verdict(run, primary, backup, vault, fate)
      /\ told \/ Unlocking(run, primary, backup, vault)
      /\ Cleaning(run, primary, backup, side, sanitised)
  BY <1>1 DEF RunOK
<1>4. /\ fate = run.was /\ primary \in Stored /\ backup \in Stored /\ primary # Invalid
      /\ primary = Missing => backup = Missing
      /\ Text(backup) = "text" => Text(primary) = "text"
  <2>1. primary \in Stored
    BY <1>1, DiskFacts DEF Reading, Stored
  <2>2. primary # Invalid
    BY <2>1, ConfigFacts DEF Stored
  <2> QED
    BY <1>1, <2>1, <2>2, DiskFacts, TextFacts DEF Reading, ConfigTypes
<1>5. CASE /\ run' = [run EXCEPT !.pc = "stagebackup", !.before = <<primary, backup>>]
           /\ fate' = [k \in DOMAIN fate |-> IF k \in run.touched THEN "open" ELSE fate[k]]
  <2> DEFINE w == <<primary, backup>>
  <2>1. w \in (Stored \cup {Invalid}) \X Stored /\ w[1] = primary /\ w[2] = backup
    BY <1>4
  <2> HIDE DEF w
  <2>2. run' = [run EXCEPT !.pc = "stagebackup", !.before = w]
    BY <1>5 DEF w
  <2>3. /\ run' \in Runs /\ run'.pc = "stagebackup" /\ run'.before = w
        /\ run'.by = run.by /\ run'.call = run.call /\ run'.config = run.config
        /\ run'.touched = run.touched /\ run'.was = run.was /\ run'.new = run.new
        /\ run'.created = run.created /\ run'.refs = run.refs
    BY <1>1, <2>1, <2>2 DEF Runs, Steps, Writing
  <2>4. fate \in Fates /\ DOMAIN fate = Names
    BY <1>1 DEF ConfigTypes, Fates
  <2>5. fate' = Opened(fate, run.touched) /\ fate' \in Fates
    BY <1>5, <2>4 DEF Opened, Fates, Verdicts
  <2>6. \A k \in Names : fate'[k] # "open" => fate'[k] = fate[k]
    BY <2>5 DEF Opened
  <2>7. run' # Idle
    BY <1>1, <2>3, CallFacts
  <2>8. ConfigTypes'
    BY <1>1, <1>2, <2>3, <2>5 DEF ConfigTypes
  <2>9. CommandsOK'
    BY <1>1, <1>2, <2>3, <2>6, <2>7, CommandGoesOn
  <2>10. FilesAgree'
    BY <1>1, <1>2, <2>6 DEF FilesAgree, PairAgrees, Agrees
  <2>11. FilesOpen' /\ FilesSealed'
    BY <1>1, <1>2, <1>5 DEF FilesOpen, FilesSealed
  <2>12. Position(run', primary', backup')
    BY <1>2, <1>4, <2>1, <2>3 DEF Position, Reading, Writing, Closing
  <2>13. Content(run', vault')
    BY <1>1, <1>2, <1>3, <2>3 DEF Content, HasConfig, Reading, Writing, Closing
  <2>14. Verdict(run', primary', backup', vault', fate')
    BY <1>1, <1>2, <1>4, <2>1, <2>3, <2>5 DEF Verdict, FilesAgree, Reading, Writing, Closing
  <2>15. told' \/ Unlocking(run', primary', backup', vault')
    BY <1>1, <1>2, <1>3, <2>1, <2>3 DEF Unlocking, FilesOpen, Writing
  <2>16. Cleaning(run', primary', backup', side', sanitised')
    BY <1>1, <1>2, <1>3, <1>4, <2>1, <2>3 DEF Cleaning, FilesSealed, Writing, Closing
  <2> QED
    BY <2>8, <2>9, <2>10, <2>11, <2>12, <2>13, <2>14, <2>15, <2>16 DEF ConfigInv, RunOK
<1>6. CASE FailTo("abort") /\ UNCHANGED fate
  <2>1. "abort" \in Steps
    BY DEF Steps
  <2>2. run' \in Runs /\ run'.pc = "abort" /\ SameCall(run', run)
    BY <1>1, <1>6, <2>1, GotoFacts
  <2>3. run' # Idle
    BY <1>1, <2>2, CallFacts
  <2>4. ConfigTypes' /\ FilesAgree' /\ FilesOpen' /\ FilesSealed'
    BY <1>1, <1>2, <1>6, <2>2 DEF ConfigTypes, FilesAgree, FilesOpen, FilesSealed
  <2>5. CommandsOK'
    BY <1>1, <1>2, <1>6, <2>2, <2>3, CommandGoesOn DEF SameCall
  <2>6. Position(run', primary', backup') /\ Content(run', vault')
    BY <2>2 DEF Position, Content, HasConfig, Reading, Writing, Closing
  <2>7. Verdict(run', primary', backup', vault', fate')
    BY <1>1, <1>2, <1>4, <1>6, <2>2 DEF Verdict, FilesAgree, SameCall, Reading, Writing, Closing
  <2>8. told' \/ Unlocking(run', primary', backup', vault')
    BY <1>2, <1>3, <1>1, <2>2 DEF Unlocking, SameCall, Writing
  <2>9. Cleaning(run', primary', backup', side', sanitised')
    BY <2>2 DEF Cleaning, Writing, Closing
  <2> QED
    BY <2>4, <2>5, <2>6, <2>7, <2>8, <2>9 DEF ConfigInv, RunOK
<1> QED
  BY <1>5, <1>6 DEF StagePrimary

\* What the steps of a write have in common.
LEMMA WritingStep ==
    ASSUME ConfigInv, NEW p \in Writing, AtStep(p)
    PROVE  /\ ConfigTypes /\ run \in Runs /\ run # Idle /\ run.pc = p
           /\ Position(run, primary, backup) /\ side \in Sides
           /\ run.before[1] # Invalid /\ (run.before[1] = Missing => run.before[2] = Missing)
           /\ run.new # Missing /\ primary \in Stored
<1>1. /\ ConfigTypes /\ run \in Runs /\ run # Idle /\ run.pc = p
      /\ Position(run, primary, backup) /\ side \in Sides
  BY CallFacts DEF ConfigInv, AtStep, Steps, RunOK, ConfigTypes
<1>2. run.before[1] # Invalid /\ (run.before[1] = Missing => run.before[2] = Missing)
  BY <1>1 DEF Position
<1>3. run.new # Missing /\ run.before[1] \in Stored
  BY <1>1, WritingFacts, ConfigFacts
<1>4. primary \in Stored
  BY <1>1, <1>3 DEF Position, Writing, Stored
<1> QED
  BY <1>1, <1>2, <1>3, <1>4

\* A step of the write that moves on leaves what is written and for whom.
LEMMA MoveFacts ==
    ASSUME ConfigTypes, run \in Runs, run.pc \in Writing, NEW p \in Writing \cup {"abort"},
           Goto(p) \/ FailTo(p) \/ UNCHANGED run
    PROVE  /\ run' \in Runs /\ SameWrite(run', run) /\ SameCall(run', run)
           /\ UNCHANGED run \/ run'.pc = p
<1>1. p \in Steps
  BY DEF Steps
<1>2. CASE UNCHANGED run
  BY <1>2 DEF SameWrite, SameCall
<1>3. CASE Goto(p) \/ FailTo(p)
  BY <1>1, <1>3, GotoFacts DEF SameWrite, SameCall
<1> QED
  BY <1>2, <1>3

\* A step of the write that fails counts the failure and nothing else.
LEMMA FailFacts ==
    ASSUME run \in Runs, NEW p \in Steps, NEW n \in Nat, NEW b \in BOOLEAN,
           \/ run' = [run EXCEPT !.pc = p, !.faults = @ + n] /\ b = run.failed
           \/ run' = [run EXCEPT !.pc = p, !.faults = @ + n, !.failed = b]
    PROVE  run' \in Runs /\ SameWrite(run', run) /\ run'.pc = p /\ run'.failed = b
<1>1. \A m \in Nat : LET q == [run EXCEPT !.pc = p, !.faults = m, !.failed = b]
                     IN  q \in Runs /\ q.pc = p /\ q.failed = b /\ SameWrite(q, run)
  BY DEF Runs, SameWrite
<1>2. run.faults \in Nat /\ run.faults + n \in Nat
  BY DEF Runs
<1>3. \A m \in Nat : LET q == [run EXCEPT !.pc = p, !.faults = m]
                     IN  q \in Runs /\ q.pc = p /\ q.failed = run.failed /\ SameWrite(q, run)
  BY DEF Runs, SameWrite
<1> QED
  BY <1>1, <1>2, <1>3

\* Staging the new backup file.
LEMMA StageBackupInv == ASSUME ConfigInv, StageBackup PROVE ConfigInv'
<1>1. /\ ConfigTypes /\ run \in Runs /\ run.pc = "stagebackup" /\ side \in Sides
      /\ Position(run, primary, backup)
  BY WritingStep DEF StageBackup, Writing
<1>2. UNCHANGED <<windows, primary, backup, side, vault, cache, lock, caller, fate, told, sanitised>>
  BY DEF StageBackup, files
<1>3. CASE Goto("backup")
  <2>1. run' \in Runs /\ SameWrite(run', run) /\ run'.pc = "backup"
    BY <1>1, <1>3, GotoFacts DEF SameWrite, SameCall, Steps, Writing
  <2>2. Position(run', primary', backup')
    BY <1>1, <1>2, <2>1 DEF Position, SameWrite, Reading, Writing, Closing
  <2> QED
    BY <1>1, <1>2, <2>1, <2>2, WriteGoesOn DEF Writing
<1>4. CASE FailTo("abort")
  <2>1. run' \in Runs /\ SameWrite(run', run) /\ run'.pc = "abort"
    BY <1>1, <1>4, GotoFacts DEF SameWrite, SameCall, Steps
  <2>2. primary' = run.before[1] /\ backup' = run.before[2]
    BY <1>1, <1>2 DEF Position
  <2> QED
    BY <1>1, <1>2, <2>1, <2>2, WriteFails DEF Writing, Written
<1> QED
  BY <1>3, <1>4 DEF StageBackup

\* Renaming the staged backup into place, where the old one is removed first on Windows.
LEMMA ReplaceBackupInv == ASSUME ConfigInv, ReplaceBackup PROVE ConfigInv'
<1>1. /\ ConfigTypes /\ run \in Runs /\ run.pc = "backup" /\ run.pc \in Writing /\ side \in Sides
      /\ Position(run, primary, backup)
  BY WritingStep DEF ReplaceBackup, Writing
<1>2. UNCHANGED <<windows, primary, side, vault, cache, lock, caller, fate, told, sanitised>>
  BY DEF ReplaceBackup
<1>3. \/ run' = run /\ backup' = Missing
      \/ Goto("primary") /\ backup' = run.new
      \/ FailTo("undobackup") /\ backup' \in {backup, run.new}
  BY DEF ReplaceBackup
<1>4. /\ run' \in Runs /\ SameWrite(run', run)
      /\ \/ run'.pc = "backup" /\ backup' = Missing
         \/ run'.pc = "primary" /\ backup' = run.new
         \/ run'.pc = "undobackup" /\ backup' \in {backup, run.new}
  <2>1. CASE run' = run /\ backup' = Missing
    BY <1>1, <2>1 DEF SameWrite
  <2>2. CASE Goto("primary") /\ backup' = run.new
    BY <1>1, <2>2, GotoFacts DEF SameWrite, SameCall, Steps, Writing
  <2>3. CASE FailTo("undobackup") /\ backup' \in {backup, run.new}
    BY <1>1, <2>3, GotoFacts DEF SameWrite, SameCall, Steps, Writing
  <2> QED
    BY <1>3, <2>1, <2>2, <2>3
<1>5. Position(run', primary', backup') /\ run'.pc \in Writing
  BY <1>1, <1>2, <1>4 DEF Position, SameWrite, Reading, Writing, Closing
<1> QED
  BY <1>1, <1>2, <1>4, <1>5, WriteGoesOn

\* The files beside the configuration.
LEMMA SideFacts ==
    ASSUME side \in Sides
    PROVE  /\ \A v \in {"none", "text", "sealed"} :
                 /\ [side EXCEPT !.old = v] \in Sides
                 /\ v # "text" /\ CleanSides(side) => CleanSides([side EXCEPT !.old = v])
           /\ Removed("old") = [side EXCEPT !.old = "none"]
           /\ DOMAIN side = {"old", "corrupt"}
           /\ \A f \in DOMAIN side : \A v \in {"none", "text", "sealed"} : [side EXCEPT ![f] = v] \in Sides
  BY DEF Sides, CleanSides, Removed

\* A primary that is set aside takes its text along.
LEMMA SetAside ==
    ASSUME ConfigInv, side' = [side EXCEPT !.old = Text(primary)]
    PROVE  side' \in Sides /\ (CleanSides(side) => CleanSides(side') \/ ~sanitised)
<1>1. side \in Sides /\ (sanitised => Text(primary) = "sealed")
  BY DEF ConfigInv, ConfigTypes, FilesSealed
<1>2. Text(primary) \in {"none", "text", "sealed"}
  BY TextFacts
<1> QED
  BY <1>1, <1>2, SideFacts

\* Renaming the staged primary into place, or moving the old one aside first on Windows.
LEMMA ReplacePrimaryInv == ASSUME ConfigInv, ReplacePrimary PROVE ConfigInv'
<1>1. /\ ConfigTypes /\ run \in Runs /\ run.pc = "primary" /\ run.pc \in Writing /\ side \in Sides
      /\ Position(run, primary, backup)
  BY WritingStep DEF ReplacePrimary, Writing
<1>2. UNCHANGED <<windows, backup, vault, cache, lock, caller, fate, told, sanitised>>
  BY DEF ReplacePrimary
<1>3. CASE primary' = Missing /\ side' = [side EXCEPT !.old = Text(primary)] /\ Goto("aside")
  <2>1. run' \in Runs /\ SameWrite(run', run) /\ run'.pc = "aside"
    BY <1>1, <1>3, GotoFacts DEF SameWrite, SameCall, Steps, Writing
  <2>2. Position(run', primary', backup') /\ run'.pc \in Writing
    BY <1>1, <1>2, <1>3, <2>1 DEF Position, SameWrite, Reading, Writing, Closing
  <2>3. side' \in Sides /\ (CleanSides(side) => CleanSides(side') \/ ~sanitised)
    BY <1>3, SetAside
  <2> QED
    BY <1>1, <1>2, <2>1, <2>2, <2>3, WriteGoesOn
<1>4. CASE primary' = run.new /\ AfterWrite /\ UNCHANGED side
  <2>1. backup' = run.new
    BY <1>1, <1>2 DEF Position
  <2> QED
    BY <1>1, <1>2, <1>4, <2>1, WriteEnds
<1>5. CASE FailTo("undoprimary") /\ UNCHANGED <<primary, side>>
  <2>1. run' \in Runs /\ SameWrite(run', run) /\ run'.pc = "undoprimary"
    BY <1>1, <1>5, GotoFacts DEF SameWrite, SameCall, Steps, Writing
  <2>2. Position(run', primary', backup') /\ run'.pc \in Writing
    BY <1>1, <1>2, <1>5, <2>1 DEF Position, SameWrite, Reading, Writing, Closing
  <2> QED
    BY <1>1, <1>2, <1>5, <2>1, <2>2, WriteGoesOn
<1> QED
  BY <1>3, <1>4, <1>5 DEF ReplacePrimary

\* The rename after the old primary was moved aside.
LEMMA ReplaceAsideInv == ASSUME ConfigInv, ReplaceAside PROVE ConfigInv'
<1>1. /\ ConfigTypes /\ run \in Runs /\ run.pc = "aside" /\ run.pc \in Writing /\ side \in Sides
      /\ Position(run, primary, backup)
  BY WritingStep DEF ReplaceAside, Writing
<1>2. UNCHANGED <<windows, backup, vault, cache, lock, caller, fate, told, sanitised>>
  BY DEF ReplaceAside
<1>3. Removed("old") \in Sides /\ (CleanSides(side) => CleanSides(Removed("old")))
  BY <1>1, SideFacts
<1>4. CASE primary' = run.new /\ side' \in {side, Removed("old")} /\ AfterWrite
  <2>1. backup' = run.new
    BY <1>1, <1>2 DEF Position
  <2> QED
    BY <1>1, <1>2, <1>3, <1>4, <2>1, WriteEnds
<1>5. CASE FailTo("undoprimary") /\ primary' = run.before[1] /\ side' = Removed("old")
  <2>1. run' \in Runs /\ SameWrite(run', run) /\ run'.pc = "undoprimary"
    BY <1>1, <1>5, GotoFacts DEF SameWrite, SameCall, Steps, Writing
  <2>2. Position(run', primary', backup') /\ run'.pc \in Writing
    BY <1>1, <1>2, <1>5, <2>1 DEF Position, SameWrite, Reading, Writing, Closing
  <2> QED
    BY <1>1, <1>2, <1>3, <1>5, <2>1, <2>2, WriteGoesOn
<1>6. CASE run' = [run EXCEPT !.pc = "undoprimary", !.faults = @ + 2] /\ UNCHANGED <<primary, side>>
  <2>1. run' \in Runs /\ SameWrite(run', run) /\ run'.pc = "undoprimary"
    <3>1. "undoprimary" \in Steps /\ 2 \in Nat /\ run.failed \in BOOLEAN
      BY <1>1 DEF Steps, Writing, Runs
    <3> QED
      BY <1>1, <1>6, <3>1, FailFacts
  <2>2. Position(run', primary', backup') /\ run'.pc \in Writing
    BY <1>1, <1>2, <1>6, <2>1 DEF Position, SameWrite, Reading, Writing, Closing
  <2> QED
    BY <1>1, <1>2, <1>6, <2>1, <2>2, WriteGoesOn
<1> QED
  BY <1>4, <1>5, <1>6 DEF ReplaceAside

\* Putting the old primary back after a failure.
LEMMA UndoPrimaryInv == ASSUME ConfigInv, UndoPrimary PROVE ConfigInv'
<1>1. /\ ConfigTypes /\ run \in Runs /\ run.pc = "undoprimary" /\ run.pc \in Writing /\ side \in Sides
      /\ Position(run, primary, backup)
  BY WritingStep DEF UndoPrimary, Writing
<1>2. UNCHANGED <<windows, backup, vault, cache, lock, caller, fate, told, sanitised>>
  BY DEF UndoPrimary
<1>3. CASE primary' = Missing /\ side' = [side EXCEPT !.old = Text(primary)] /\ UNCHANGED run
  <2>1. Position(run', primary', backup') /\ SameWrite(run', run)
    BY <1>1, <1>2, <1>3 DEF Position, SameWrite, Reading, Writing, Closing
  <2>2. side' \in Sides /\ (CleanSides(side) => CleanSides(side') \/ ~sanitised)
    BY <1>3, SetAside
  <2> QED
    BY <1>1, <1>2, <1>3, <2>1, <2>2, WriteGoesOn
<1>4. CASE primary' = run.before[1] /\ side' \in {side, Removed("old")} /\ Goto("undobackup")
  <2>1. run' \in Runs /\ SameWrite(run', run) /\ run'.pc = "undobackup"
    BY <1>1, <1>4, GotoFacts DEF SameWrite, SameCall, Steps, Writing
  <2>2. Position(run', primary', backup') /\ run'.pc \in Writing
    BY <1>1, <1>2, <1>4, <2>1 DEF Position, SameWrite, Reading, Writing, Closing
  <2>3. side' \in Sides /\ (CleanSides(side) => CleanSides(side') \/ ~sanitised)
    BY <1>1, <1>4, SideFacts
  <2> QED
    BY <1>1, <1>2, <2>1, <2>2, <2>3, WriteGoesOn
<1>5. CASE /\ run' = [run EXCEPT !.pc = "undobackup", !.faults = @ + 1, !.failed = TRUE]
           /\ primary' = run.before[1] /\ UNCHANGED side
  <2>1. run' \in Runs /\ SameWrite(run', run) /\ run'.pc = "undobackup"
    <3>1. "undobackup" \in Steps /\ 1 \in Nat /\ TRUE \in BOOLEAN
      BY DEF Steps, Writing
    <3> QED
      BY <1>1, <1>5, <3>1, FailFacts
  <2>2. Position(run', primary', backup') /\ run'.pc \in Writing
    BY <1>1, <1>2, <1>5, <2>1 DEF Position, SameWrite, Reading, Writing, Closing
  <2> QED
    BY <1>1, <1>2, <1>5, <2>1, <2>2, WriteGoesOn
<1> QED
  BY <1>3, <1>4, <1>5 DEF UndoPrimary

\* Restoring the backup after a failure.
LEMMA UndoBackupInv == ASSUME ConfigInv, UndoBackup PROVE ConfigInv'
<1>1. /\ ConfigTypes /\ run \in Runs /\ run.pc = "undobackup" /\ run.pc \in Writing /\ side \in Sides
      /\ Position(run, primary, backup)
  BY WritingStep DEF UndoBackup, Writing
<1>2. UNCHANGED <<windows, primary, side, vault, cache, lock, caller, fate, told, sanitised>>
  BY DEF UndoBackup
<1>3. primary = run.before[1] /\ backup \in {run.new, run.before[2], Missing}
  BY <1>1 DEF Position
<1>4. CASE backup' = Missing /\ UNCHANGED run
  <2>1. Position(run', primary', backup') /\ SameWrite(run', run)
    BY <1>1, <1>2, <1>4 DEF Position, SameWrite, Reading, Writing, Closing
  <2> QED
    BY <1>1, <1>2, <1>4, <2>1, WriteGoesOn
<1>5. CASE backup' = run.before[2] /\ Goto("abort")
  <2>1. run' \in Runs /\ SameWrite(run', run) /\ run'.pc = "abort"
    BY <1>1, <1>5, GotoFacts DEF SameWrite, SameCall, Steps
  <2> QED
    BY <1>1, <1>2, <1>3, <1>5, <2>1, WriteFails DEF Written
<1>6. CASE run' = [run EXCEPT !.pc = "abort", !.faults = @ + 1, !.failed = TRUE] /\ UNCHANGED backup
  <2>1. run' \in Runs /\ SameWrite(run', run) /\ run'.pc = "abort" /\ run'.failed
    <3>1. "abort" \in Steps /\ 1 \in Nat /\ TRUE \in BOOLEAN
      BY DEF Steps
    <3> QED
      BY <1>1, <1>6, <3>1, FailFacts
  <2> QED
    BY <1>1, <1>2, <1>3, <1>6, <2>1, WriteFails DEF Written
<1> QED
  BY <1>4, <1>5, <1>6 DEF UndoBackup

\* The write ends with an error, after a rollback that may itself have failed.
LEMMA AbortInv == ASSUME ConfigInv, Abort PROVE ConfigInv'
<1>1. /\ ConfigTypes /\ CommandsOK /\ RunOK /\ FilesAgree /\ FilesOpen /\ FilesSealed
      /\ run \in Runs /\ run # Idle /\ run.pc = "abort" /\ vault \in Vaults
  BY CallFacts DEF ConfigInv, Abort, AtStep, Steps, ConfigTypes
<1>2. UNCHANGED <<windows, primary, backup, side, sanitised>> /\ run' = Idle /\ ReturnErr
  BY DEF Abort, files, ReturnErr
<1>3. /\ fate' = IF run.failed THEN fate ELSE run.was
      /\ told' = (told \/ run.failed)
  BY DEF Abort
<1>4. Verdict(run, primary, backup, vault, fate) /\ (told \/ Unlocking(run, primary, backup, vault))
  BY <1>1 DEF RunOK
<1>5. vault'.refs = vault.refs /\ vault' \in Vaults /\ cache' \in {None, vault'.master}
      /\ (~run.created => vault' = vault)
  <2>1. CASE run.created
    <3>1. PICK k \in {None, vault.master} : vault' = [vault EXCEPT !.master = k] /\ cache' = None
      BY <2>1 DEF Abort
    <3> QED
      BY <1>1, <2>1, <3>1 DEF Vaults
  <2>2. CASE ~run.created
    BY <1>1, <2>2 DEF Abort, ConfigTypes
  <2> QED
    BY <2>1, <2>2
<1>6. (\A k \in Names : fate'[k] # "open" => fate'[k] = fate[k]) \/ run.touched # {}
  <2>1. run.touched = {} => Opened(run.was, run.touched) = run.was
    BY <1>1 DEF Opened, Runs, Fates
  <2> QED
    BY <1>1, <1>3, <1>4, <2>1 DEF Verdict
<1>7. CommandsOK' /\ caller' \in [Callers -> CommandStates] /\ lock' \in Callers \cup {None}
  BY <1>1, <1>2, <1>6, ReturnErrFacts
<1>8. fate' \in Fates /\ told' \in BOOLEAN
  BY <1>1, <1>3 DEF ConfigTypes, Runs
<1>9. ConfigTypes'
  BY <1>1, <1>2, <1>5, <1>7, <1>8 DEF ConfigTypes
<1>10. RunOK'
  BY <1>2 DEF RunOK
<1>11. FilesAgree'
  BY <1>1, <1>2, <1>3, <1>4, <1>5 DEF FilesAgree, Verdict
<1>12. FilesOpen'
  <2>1. CASE told \/ run.failed
    BY <1>3, <2>1 DEF FilesOpen
  <2>2. CASE ~told /\ ~run.failed /\ run.created
    BY <1>1, <1>2, <1>4, <1>5, <2>2 DEF FilesOpen, Unlocking, Unlocks, Bundleless
  <2>3. CASE ~run.created
    BY <1>1, <1>2, <1>3, <1>5, <2>3 DEF FilesOpen
  <2> QED
    BY <2>1, <2>2, <2>3
<1>13. FilesSealed'
  BY <1>1, <1>2 DEF FilesSealed
<1> QED
  BY <1>7, <1>9, <1>10, <1>11, <1>12, <1>13 DEF ConfigInv

-----------------------------------------------------------------------------
(* After the write.                                                        *)

LEMMA ReportOkInv == ASSUME ConfigInv, ReportOk PROVE ConfigInv'
<1> DEFINE n == run.new
<1>1. /\ ConfigTypes /\ CommandsOK /\ RunOK /\ FilesAgree /\ FilesOpen /\ FilesSealed
      /\ run \in Runs /\ run # Idle /\ run.pc = "ok" /\ fate \in Fates /\ DOMAIN fate = Names
      /\ vault \in Vaults
  BY CallFacts DEF ConfigInv, ReportOk, AtStep, Steps, ConfigTypes, Fates
<1>2. UNCHANGED <<windows, primary, backup, side, vault, cache, told, sanitised>> /\ ReturnOk /\ run' = Idle
  BY DEF ReportOk, files, ReturnOk
<1>3. /\ primary = n /\ backup = n /\ run.call \in {"save", "active"}
      /\ n \in Sound /\ n \in Configs /\ n # Missing
      /\ fate = Opened(run.was, run.touched)
      /\ Agrees(vault.refs, n, run.was, Names \ run.touched)
  BY <1>1, ConfigFacts DEF RunOK, Position, Verdict, Content, Runs, Sound
<1> HIDE DEF n
<1>4. fate' = [k \in Names |-> IF k \in run.touched \/ fate[k] = "open" THEN Says(n, k) ELSE fate[k]]
  BY <1>1 DEF ReportOk, n
<1>5. \A k \in Names : Says(n, k) = Spoken(vault.refs, n, k) /\ Spoken(vault.refs, n, k) \in Verdicts
  <2> TAKE k \in Names
  <2>1. Says(n, k) = Spoken(vault.refs, n, k)
    BY <1>3, SpokenIsSays
  <2>2. \A i \in DOMAIN vault.refs : vault.refs[i] \in Secrets
    BY <1>1, PartialFacts DEF Vaults
  <2>3. n.active \in Ids \cup {None}
        /\ \A i \in DOMAIN n.entries : n.entries[i].at # "ref" => n.entries[i].secret \in Secrets
    BY <1>3, EntryFacts
  <2>4. Spoken(vault.refs, n, k) \in Verdicts
    BY <2>2, <2>3 DEF Spoken, Verdicts
  <2> QED
    BY <2>1, <2>4
<1>6. fate' \in Fates
  BY <1>1, <1>4, <1>5 DEF Fates
<1>7. Agrees(vault.refs, n, fate', Names)
  <2> SUFFICES ASSUME IsConfig(n), NEW k \in Names, fate'[k] # "open"
               PROVE  Spoken(vault.refs, n, k) = fate'[k]
    BY DEF Agrees
  <2>1. CASE k \in run.touched \/ fate[k] = "open"
    BY <1>4, <1>5, <2>1
  <2>2. CASE ~(k \in run.touched \/ fate[k] = "open")
    BY <1>3, <1>4, <2>2 DEF Agrees, Opened
  <2> QED
    BY <2>1, <2>2
<1>8. CommandsOK' /\ caller' \in [Callers -> CommandStates] /\ lock' \in Callers \cup {None}
  BY <1>1, <1>2, <1>3, ReturnOkFacts
<1>9. ConfigTypes'
  BY <1>1, <1>2, <1>6, <1>8 DEF ConfigTypes
<1>10. FilesAgree'
  BY <1>2, <1>3, <1>7 DEF FilesAgree, PairAgrees
<1>11. FilesOpen' /\ FilesSealed'
  BY <1>1, <1>2 DEF FilesOpen, FilesSealed
<1>12. RunOK'
  BY <1>2 DEF RunOK
<1> QED
  BY <1>8, <1>9, <1>10, <1>11, <1>12 DEF ConfigInv

\* What is known after the files are written and before the call returns.
LEMMA ClosingFacts ==
    ASSUME ConfigInv, NEW p \in Closing, AtStep(p)
    PROVE  /\ ConfigTypes /\ CommandsOK /\ RunOK /\ FilesAgree /\ FilesOpen /\ FilesSealed
           /\ run \in Runs /\ run # Idle /\ run.pc = p
           /\ run.call \in {"load", "fetch"} /\ fate = run.was
           /\ run.refs # {} => primary = run.new /\ backup = run.new
           /\ At(run.new, "ref") \cap run.refs = {}
           /\ run.call = "load" => /\ Text(primary) = "sealed" /\ Text(backup) = "sealed"
                                   /\ HasConfig(run)
                                   /\ Conforms(run.config, run.was, Names \ run.touched)
<1>1. /\ ConfigTypes /\ CommandsOK /\ RunOK /\ FilesAgree /\ FilesOpen /\ FilesSealed
      /\ run \in Runs /\ run # Idle /\ run.pc = p
  BY CallFacts DEF ConfigInv, AtStep, Steps
<1>2. run.call = "load" => HasConfig(run)
  BY <1>1 DEF HasConfig, Closing
<1> QED
  BY <1>1, <1>2 DEF RunOK, Position, Content, Verdict, Cleaning

\* The cleanup goes on: the files stay, and what is set aside loses text only.
LEMMA ClosingGoesOn ==
    ASSUME ConfigInv, NEW p \in Closing, AtStep(p),
           run' \in Runs, run'.pc \in Closing,
           run'.by = run.by, run'.call = run.call, run'.config = run.config,
           run'.touched = run.touched, run'.was = run.was, run'.new = run.new,
           run'.refs \subseteq run.refs,
           vault' \in Vaults, vault'.master = vault.master,
           FilesAgree', told \/ (Unlocks(vault', primary) /\ Unlocks(vault', backup)),
           side' \in Sides, CleanSides(side) => CleanSides(side'),
           run'.pc = "cleanup" => \A f \in DOMAIN side' : side'[f] = "text" => f \in run'.todo \/ run'.failed,
           run'.pc = "drop" /\ primary # Missing => CleanSides(side'),
           UNCHANGED <<windows, primary, backup, cache, lock, caller, fate, told, sanitised>>
    PROVE  ConfigInv'
<1>1. run' # Idle /\ ConfigTypes /\ CommandsOK /\ run # Idle /\ FilesSealed
  BY CallFacts, ClosingFacts
<1>2. ConfigTypes'
  BY <1>1 DEF ConfigTypes
<1>3. CommandsOK'
  BY <1>1, CommandGoesOn
<1>4. FilesOpen'
  BY DEF FilesOpen
<1>5. FilesSealed'
  BY <1>1 DEF FilesSealed, CleanSides
<1>6. RunOK'
  <2>1. Position(run', primary', backup')
    BY ClosingFacts DEF Position, Reading, Writing, Closing
  <2>2. Content(run', vault')
    BY ClosingFacts DEF Content, HasConfig, Reading, Writing, Closing
  <2>3. Verdict(run', primary', backup', vault', fate')
    BY ClosingFacts DEF Verdict, Reading, Writing, Closing
  <2>4. Unlocking(run', primary', backup', vault')
    BY DEF Unlocking, Writing, Closing
  <2>5. Cleaning(run', primary', backup', side', sanitised')
    BY ClosingFacts DEF Cleaning, CleanSides, Writing, Closing
  <2> QED
    BY <2>1, <2>2, <2>3, <2>4, <2>5 DEF RunOK
<1> QED
  BY <1>2, <1>3, <1>4, <1>5, <1>6 DEF ConfigInv

\* Removing what was left beside the files.
LEMMA SweepInv == ASSUME ConfigInv, Sweep PROVE ConfigInv'
<1>1. /\ ConfigTypes /\ FilesAgree /\ FilesOpen /\ run \in Runs /\ run # Idle /\ AtStep("sweep")
      /\ "sweep" \in Closing /\ side \in Sides /\ vault \in Vaults /\ cache \in {None, vault.master}
  BY ClosingFacts DEF Sweep, Closing, ConfigTypes
<1>2. UNCHANGED <<windows, primary, backup, side, vault, cache, fate, told, sanitised>>
  BY DEF Sweep, files
<1> DEFINE left == {f \in DOMAIN side : side[f] # "none"}
<1>3. CASE run' = [run EXCEPT !.pc = "cleanup", !.todo = left] /\ UNCHANGED <<caller, lock>>
  <2>1. left \subseteq {"old", "corrupt"} /\ \A f \in DOMAIN side : side[f] = "text" => f \in left
    BY <1>1, SideFacts
  <2> HIDE DEF left
  <2>2. /\ run' \in Runs /\ run'.pc = "cleanup" /\ run'.pc \in Closing /\ run'.todo = left
        /\ run'.by = run.by /\ run'.call = run.call /\ run'.config = run.config
        /\ run'.touched = run.touched /\ run'.was = run.was /\ run'.new = run.new
        /\ run'.refs = run.refs
    BY <1>1, <1>3, <2>1 DEF Runs, Steps, Closing
  <2>3. FilesAgree' /\ (told \/ (Unlocks(vault', primary) /\ Unlocks(vault', backup)))
    BY <1>1, <1>2 DEF FilesAgree, FilesOpen
  <2> QED
    BY <1>1, <1>2, <1>3, <2>1, <2>2, <2>3, ClosingGoesOn
<1>4. CASE ReturnErr
  BY <1>1, <1>2, <1>4, EndsQuietly
<1> QED
  BY <1>3, <1>4 DEF Sweep

\* Each leftover is removed, or its removal fails.
LEMMA CleanUpInv == ASSUME ConfigInv, CleanUp PROVE ConfigInv'
<1>1. /\ ConfigTypes /\ FilesAgree /\ FilesOpen /\ run \in Runs /\ run # Idle /\ AtStep("cleanup")
      /\ run.pc = "cleanup" /\ RunOK
      /\ "cleanup" \in Closing /\ side \in Sides /\ vault \in Vaults /\ cache \in {None, vault.master}
  BY ClosingFacts DEF CleanUp, Closing, ConfigTypes
<1>2. UNCHANGED <<windows, primary, backup, vault, cache, fate, told, sanitised>>
  BY DEF CleanUp
<1>3. FilesAgree' /\ (told \/ (Unlocks(vault', primary) /\ Unlocks(vault', backup)))
  BY <1>1, <1>2 DEF FilesAgree, FilesOpen
<1>4. \A f \in DOMAIN side : side[f] = "text" => f \in run.todo \/ run.failed
  BY <1>1 DEF RunOK, Cleaning
<1>5. run.todo \subseteq {"old", "corrupt"} /\ run.faults \in Nat
  BY <1>1 DEF Runs
<1>6. ASSUME NEW f \in run.todo, UNCHANGED <<caller, lock>>,
             NEW v \in {"none", "sealed"}, side' = [side EXCEPT ![f] = v],
             NEW m \in Nat, run' = [run EXCEPT !.todo = @ \ {f}, !.faults = m]
      PROVE  ConfigInv'
  <2>1. f \in DOMAIN side
    BY <1>1, <1>5, SideFacts
  <2>2. side' \in Sides /\ DOMAIN side' = DOMAIN side /\ side'[f] = v
        /\ \A g \in DOMAIN side : g # f => side'[g] = side[g]
    BY <1>1, <1>6, <2>1, SideFacts DEF Sides
  <2>3. run.todo \ {f} \subseteq {"old", "corrupt"}
    BY <1>5
  <2>4. /\ run' \in Runs /\ run'.pc = "cleanup" /\ run'.pc \in Closing /\ run'.todo = run.todo \ {f}
        /\ run'.by = run.by /\ run'.call = run.call /\ run'.config = run.config
        /\ run'.touched = run.touched /\ run'.was = run.was /\ run'.new = run.new
        /\ run'.refs = run.refs /\ run'.failed = run.failed
    BY <1>1, <1>6, <2>3 DEF Runs, Closing
  <2>5. CleanSides(side) => CleanSides(side')
    BY <2>2 DEF CleanSides
  <2>6. \A g \in DOMAIN side' : side'[g] = "text" => g \in run'.todo \/ run'.failed
    BY <1>4, <2>2, <2>4
  <2> QED
    BY <1>1, <1>2, <1>3, <1>6, <2>2, <2>4, <2>5, <2>6, ClosingGoesOn
<1>7. ASSUME NEW f \in run.todo, UNCHANGED <<caller, lock, side>>,
             run' = [run EXCEPT !.todo = @ \ {f}, !.faults = @ + 1, !.failed = TRUE]
      PROVE  ConfigInv'
  <2>1. run.todo \ {f} \subseteq {"old", "corrupt"} /\ run.faults + 1 \in Nat
    BY <1>5
  <2>2. /\ run' \in Runs /\ run'.pc = "cleanup" /\ run'.pc \in Closing /\ run'.failed
        /\ run'.by = run.by /\ run'.call = run.call /\ run'.config = run.config
        /\ run'.touched = run.touched /\ run'.was = run.was /\ run'.new = run.new
        /\ run'.refs = run.refs
    BY <1>1, <1>7, <2>1 DEF Runs, Closing
  <2> QED
    BY <1>1, <1>2, <1>3, <1>7, <2>2, ClosingGoesOn
<1>8. CASE run.todo = {} /\ ~run.failed /\ Goto("drop") /\ UNCHANGED <<side, caller, lock>>
  <2>1. CleanSides(side)
    BY <1>4, <1>8 DEF CleanSides
  <2>2. run' \in Runs /\ run'.pc = "drop" /\ run'.pc \in Closing /\ SameCall(run', run)
    BY <1>1, <1>8, GotoFacts DEF Steps, Closing
  <2> QED
    BY <1>1, <1>2, <1>3, <1>8, <2>1, <2>2, ClosingGoesOn DEF SameCall
<1>9. CASE ReturnErr /\ UNCHANGED side
  BY <1>1, <1>2, <1>9, EndsQuietly
<1>10. ASSUME NEW f \in run.todo, UNCHANGED <<caller, lock>>,
              \/ /\ side' = Removed(f)
                 /\ run' = [run EXCEPT !.todo = @ \ {f}]
              \/ /\ CanFail
                 /\ side' = [side EXCEPT ![f] = "sealed"]
                 /\ run' = [run EXCEPT !.todo = @ \ {f}, !.faults = @ + 1]
              \/ /\ CanFail
                 /\ run' = [run EXCEPT !.todo = @ \ {f}, !.faults = @ + 1, !.failed = TRUE]
                 /\ UNCHANGED side
       PROVE  ConfigInv'
  <2>1. CASE side' = Removed(f) /\ run' = [run EXCEPT !.todo = @ \ {f}]
    <3>1. run' = [run EXCEPT !.todo = @ \ {f}, !.faults = run.faults]
      BY <1>1, <2>1 DEF Runs
    <3>2. side' = [side EXCEPT ![f] = "none"]
      BY <2>1 DEF Removed
    <3> QED
      BY <1>5, <1>6, <1>10, <3>1, <3>2
  <2>2. CASE side' = [side EXCEPT ![f] = "sealed"] /\ run' = [run EXCEPT !.todo = @ \ {f}, !.faults = @ + 1]
    <3>1. run.faults + 1 \in Nat /\ run' = [run EXCEPT !.todo = @ \ {f}, !.faults = run.faults + 1]
      BY <1>5, <2>2
    <3> QED
      BY <1>6, <1>10, <2>2, <3>1
  <2>3. CASE UNCHANGED side /\ run' = [run EXCEPT !.todo = @ \ {f}, !.faults = @ + 1, !.failed = TRUE]
    BY <1>7, <1>10, <2>3
  <2> QED
    BY <1>10, <2>1, <2>2, <2>3
<1> QED
  BY <1>8, <1>9, <1>10 DEF CleanUp

\* A credential that no file refers to makes no difference.
LEMMA DroppedFacts ==
    ASSUME vault \in Vaults, NEW n \in Sound, NEW S, At(n, "ref") \cap S = {}
    PROVE  LET refs == Restrict(vault.refs, DOMAIN vault.refs \ S)
               v == [vault EXCEPT !.refs = refs]
           IN  /\ v \in Vaults /\ v.master = vault.master /\ v.refs = refs
               /\ \A k \in Names : Spoken(refs, n, k) = Spoken(vault.refs, n, k)
               /\ Unlocks(vault, n) => Unlocks(v, n)
<1> DEFINE refs == Restrict(vault.refs, DOMAIN vault.refs \ S)
           v == [vault EXCEPT !.refs = refs]
<1>1. DOMAIN refs = DOMAIN vault.refs \ S /\ \A i \in DOMAIN refs : refs[i] = vault.refs[i]
  BY DEF Restrict
<1>2. DOMAIN vault.refs \subseteq Ids /\ \A i \in DOMAIN vault.refs : vault.refs[i] \in Secrets
  BY PartialFacts DEF Vaults
<1>3. refs \in [DOMAIN vault.refs \ S -> Secrets]
  BY <1>2 DEF Restrict
<1> HIDE DEF refs
<1>4. refs \in Partial(Ids, Secrets)
  BY <1>1, <1>2, <1>3 DEF Partial
<1>5. v \in Vaults /\ v.master = vault.master /\ v.refs = refs
  BY <1>4 DEF Vaults
<1>6. \A k \in Names : Spoken(refs, n, k) = Spoken(vault.refs, n, k)
  <2> TAKE k \in Names
  <2>1. CASE k # "active" /\ k \in DOMAIN n.entries /\ n.entries[k].at = "ref"
    <3>1. k \notin S
      BY <2>1 DEF At
    <3> QED
      BY <1>1, <2>1, <3>1 DEF Spoken
  <2>2. CASE ~(k # "active" /\ k \in DOMAIN n.entries /\ n.entries[k].at = "ref")
    BY <2>2 DEF Spoken
  <2> QED
    BY <2>1, <2>2
<1>7. Unlocks(vault, n) => Unlocks(v, n)
  BY <1>1, <1>5 DEF Unlocks
<1> QED
  BY <1>5, <1>6, <1>7 DEF refs

\* The credentials moved into the file are deleted from the credential store.
LEMMA DropCredentialsInv == ASSUME ConfigInv, DropCredentials PROVE ConfigInv'
<1>1. /\ ConfigTypes /\ FilesAgree /\ FilesOpen /\ run \in Runs /\ run # Idle /\ AtStep("drop")
      /\ run.pc = "drop" /\ RunOK
      /\ "drop" \in Closing /\ side \in Sides /\ vault \in Vaults /\ cache \in {None, vault.master}
  BY ClosingFacts DEF DropCredentials, Closing, ConfigTypes
<1>2. UNCHANGED <<windows, primary, backup, side, cache, fate, told>>
  BY DEF DropCredentials, files
<1>3. ASSUME NEW i \in run.refs, NEW S \in {{}, {i}},
             run' = [run EXCEPT !.refs = @ \ {i}],
             vault' = [vault EXCEPT !.refs = Restrict(@, DOMAIN @ \ S)],
             UNCHANGED <<caller, lock, sanitised>>
      PROVE  ConfigInv'
  <2> DEFINE n == run.new
  <2>1. /\ primary = n /\ backup = n /\ n \in Sound /\ IsConfig(n) /\ n # Missing
        /\ At(n, "ref") \cap S = {}
    BY <1>1, <1>3, ClosingFacts, ConfigFacts DEF Runs
  <2> HIDE DEF n
  <2>2. /\ vault' \in Vaults /\ vault'.master = vault.master
        /\ \A k \in Names : Spoken(vault'.refs, n, k) = Spoken(vault.refs, n, k)
        /\ Unlocks(vault, n) => Unlocks(vault', n)
    BY <1>1, <1>3, <2>1, DroppedFacts
  <2>3. FilesAgree'
    BY <1>1, <1>2, <2>1, <2>2 DEF FilesAgree, PairAgrees, Agrees
  <2>4. told \/ (Unlocks(vault', primary) /\ Unlocks(vault', backup))
    BY <1>1, <2>1, <2>2 DEF FilesOpen
  <2>5. /\ run' \in Runs /\ run'.pc = "drop" /\ run'.pc \in Closing
        /\ run'.by = run.by /\ run'.call = run.call /\ run'.config = run.config
        /\ run'.touched = run.touched /\ run'.was = run.was /\ run'.new = run.new
        /\ run'.refs \subseteq run.refs
    BY <1>1, <1>3 DEF Runs, Closing
  <2>6. primary # Missing => CleanSides(side)
    BY <1>1 DEF RunOK, Cleaning, CleanSides
  <2> QED
    BY <1>1, <1>2, <1>3, <2>2, <2>3, <2>4, <2>5, <2>6, ClosingGoesOn
<1>4. CASE /\ ReturnOk /\ sanitised' = (sanitised \/ (run.call = "load" /\ primary # Missing))
           /\ UNCHANGED vault
  <2>1. HasConfig(run) \/ run.call # "load"
    BY <1>1, ClosingFacts
  <2>2. sanitised' \in BOOLEAN
    BY <1>1, <1>4 DEF ConfigTypes
  <2>3. sanitised' => sanitised \/ (run.pc = "drop" /\ run.call = "load" /\ primary # Missing)
    BY <1>1, <1>4
  <2> QED
    BY <1>1, <1>2, <1>4, <2>1, <2>2, <2>3, EndsWell DEF Closing
<1> QED
  BY <1>3, <1>4 DEF DropCredentials

-----------------------------------------------------------------------------
(* The commands and the environment.                                       *)

LEMMA StartFacts ==
    ASSUME ConfigTypes, NEW c \in Callers, NEW call \in {"public", "load", "fetch", "active", "save"},
           NEW arg \in Ids \cup {None}, NEW config \in ConfigValues, NEW touched \in SUBSET Names
    PROVE  LET r == Start(c, call, arg, config, touched)
           IN  /\ r \in Runs /\ r.pc = "disk" /\ r.by = c /\ r.call = call /\ r.config = config
               /\ r.touched = touched /\ r.was = fate /\ ~r.created
<1>1. <<Missing, Missing>> \in (Stored \cup {Invalid}) \X Stored
  BY DEF Stored
<1>2. Empty \in Sound /\ fate \in Fates /\ {} \in SUBSET Ids /\ "disk" \in Steps
  BY ConfigFacts DEF ConfigTypes, Steps
<1> QED
  BY <1>1, <1>2 DEF Start, Runs

\* A command gets STORE_LOCK and begins a call.
LEMMA Begins ==
    ASSUME ConfigInv, run = Idle, NEW c \in Callers,
           NEW call \in {"public", "load", "fetch", "active", "save"},
           NEW arg \in Ids \cup {None}, NEW config \in ConfigValues, NEW touched \in SUBSET Names,
           NEW s \in {"reading", "activating", "loading", "saving"},
           run' = Start(c, call, arg, config, touched),
           caller' = [caller EXCEPT ![c] = [pc |-> s]],
           \/ lock = None /\ lock' = c
           \/ lock' = lock /\ (s = "reading" \/ lock = c),
           s = "reading" => call \in {"public", "load", "fetch"} /\ touched = {},
           s = "activating" => call = "active" /\ touched = {"active"},
           s = "loading" => call = "load" /\ touched = {},
           s = "saving" => call = "save",
           call = "save" => Conforms(config, fate, Names \ touched),
           UNCHANGED <<windows, primary, backup, side, vault, cache, fate, told, sanitised>>
    PROVE  ConfigInv'
<1>1. ConfigTypes /\ CommandsOK /\ FilesAgree /\ FilesOpen /\ FilesSealed
  BY DEF ConfigInv
<1> DEFINE r == Start(c, call, arg, config, touched)
           n == [pc |-> s]
<1>2. /\ r \in Runs /\ r.pc = "disk" /\ r.by = c /\ r.call = call /\ r.config = config
      /\ r.touched = touched /\ r.was = fate /\ ~r.created
  BY <1>1, StartFacts
<1>3. run' = r
  OBVIOUS
<1> HIDE DEF r
<1>4. n \in CommandStates /\ n.pc = s
  BY DEF CommandStates
<1>5. caller' = [caller EXCEPT ![c] = n]
  OBVIOUS
<1> HIDE DEF n
<1>6. caller' \in [Callers -> CommandStates] /\ caller'[c] = n
      /\ \A d \in Callers \ {c} : caller'[d] = caller[d]
  BY <1>1, <1>4, <1>5 DEF ConfigTypes
<1>7. run' # Idle
  BY <1>1, <1>2, <1>3, CallFacts
<1>8. ConfigTypes'
  BY <1>1, <1>2, <1>3, <1>6 DEF ConfigTypes
<1>9. CommandsOK'
  <2>1. \A d \in Callers : caller'[d].pc \in {"activating", "loading", "loaded", "saving"} => lock' = d
    <3> TAKE d \in Callers
    <3>1. CASE d = c
      BY <1>4, <1>6, <3>1
    <3>2. CASE d # c
      BY <1>1, <1>6, <3>2 DEF CommandsOK
    <3> QED
      BY <3>1, <3>2
  <2>2. \A d \in Callers : caller'[d].pc \notin {"idle", "loaded"} => run' # Idle /\ run'.by = d
    BY <1>1, <1>2, <1>3, <1>6, <1>7 DEF CommandsOK
  <2>3. CallOf(run'.by, caller'[run'.by], run')
    BY <1>2, <1>3, <1>4, <1>6 DEF CallOf
  <2>4. \A d \in Callers : caller'[d].pc = "loaded" => Conforms(caller'[d].config, fate', Names)
    BY <1>1, <1>4, <1>6 DEF CommandsOK
  <2> QED
    BY <2>1, <2>2, <2>3, <2>4 DEF CommandsOK
<1>10. RunOK'
  <2>1. Position(run', primary', backup')
    BY <1>2, <1>3 DEF Position, Reading, Writing, Closing
  <2>2. Content(run', vault')
    BY <1>2, <1>3 DEF Content, HasConfig, Reading, Writing, Closing
  <2>3. Verdict(run', primary', backup', vault', fate')
    BY <1>2, <1>3 DEF Verdict, Reading, Writing, Closing
  <2>4. Unlocking(run', primary', backup', vault') /\ Cleaning(run', primary', backup', side', sanitised')
    BY <1>2, <1>3 DEF Unlocking, Cleaning, Writing, Closing
  <2> QED
    BY <2>1, <2>2, <2>3, <2>4 DEF RunOK
<1>11. FilesAgree' /\ FilesOpen' /\ FilesSealed'
  BY <1>1 DEF FilesAgree, FilesOpen, FilesSealed
<1> QED
  BY <1>8, <1>9, <1>10, <1>11 DEF ConfigInv

\* A command starts with no configuration.
LEMMA NoConfigTyped == NoConfig \in ConfigValues
<1>1. << >> \in [{} -> Secrets] /\ {} \in SUBSET Ids
  OBVIOUS
<1>2. << >> \in Partial(Ids, Secrets)
  BY <1>1 DEF Partial
<1> QED
  BY <1>2 DEF NoConfig, ConfigValues

\* A command that only reads.
LEMMA ReadInv == ASSUME ConfigInv, NEW c \in Callers, Read(c) PROVE ConfigInv'
<1>1. /\ run = Idle /\ caller' = [caller EXCEPT ![c] = [pc |-> "reading"]] /\ lock' = lock
      /\ UNCHANGED <<windows, primary, backup, side, vault, cache, fate, told, sanitised>>
  BY DEF Read, MayBegin, files
<1>2. PICK call \in {"public", "load", "fetch"}, arg \in Ids \cup {None} :
          run' = Start(c, call, arg, NoConfig, {})
  BY DEF Read
<1> DEFINE s == "reading"
<1>3. s \in {"reading", "activating", "loading", "saving"} /\ {} \in SUBSET Names
      /\ call \in {"public", "load", "fetch", "active", "save"} /\ call # "save"
  OBVIOUS
<1> QED
  BY <1>1, <1>2, <1>3, NoConfigTyped, Begins

\* The command that changes the active connection takes the lock and starts its call.
LEMMA SetActiveInv == ASSUME ConfigInv, NEW c \in Callers, SetActive(c) PROVE ConfigInv'
<1>1. /\ run = Idle /\ caller' = [caller EXCEPT ![c] = [pc |-> "activating"]] /\ lock = None /\ lock' = c
      /\ UNCHANGED <<windows, primary, backup, side, vault, cache, fate, told, sanitised>>
  BY DEF SetActive, MayBegin, files
<1>2. PICK arg \in Ids \cup {None} : run' = Start(c, "active", arg, NoConfig, {"active"})
  BY DEF SetActive
<1>3. {"active"} \in SUBSET Names
  BY DEF Names
<1> QED
  BY <1>1, <1>2, <1>3, NoConfigTyped, Begins

\* A command that changes the connections takes the lock and loads.
LEMMA MutateInv == ASSUME ConfigInv, NEW c \in Callers, Mutate(c) PROVE ConfigInv'
<1>1. /\ run = Idle /\ caller' = [caller EXCEPT ![c] = [pc |-> "loading"]] /\ lock = None /\ lock' = c
      /\ run' = Start(c, "load", None, NoConfig, {})
      /\ UNCHANGED <<windows, primary, backup, side, vault, cache, fate, told, sanitised>>
  BY DEF Mutate, MayBegin, files
<1>2. None \in Ids \cup {None} /\ {} \in SUBSET Names
  OBVIOUS
<1> QED
  BY <1>1, <1>2, NoConfigTyped, Begins

\* A command changes what it says it touches, and nothing else.
LEMMA ChangesFacts ==
    ASSUME NEW config \in ConfigValues, NEW change \in Changes(config)
    PROVE  /\ change.config \in ConfigValues /\ change.touched \in SUBSET Names
           /\ \A n \in Names \ change.touched : Told(change.config, n) = Told(config, n)
<1> DEFINE old == config.secrets
<1>1. /\ old \in Partial(Ids, Secrets) /\ config.active \in Ids \cup {None}
      /\ DOMAIN old \subseteq Ids /\ \A i \in DOMAIN old : old[i] \in Secrets
      /\ config = [secrets |-> old, active |-> config.active]
  BY PartialFacts DEF ConfigValues
<1>2. \A D \in SUBSET Ids : \A g \in [D -> Secrets] : g \in Partial(Ids, Secrets)
  BY PartialFacts
<1>3. \A new \in Partial(Ids \ DOMAIN old, Secrets) :
          /\ DOMAIN new \subseteq Ids \ DOMAIN old /\ \A i \in DOMAIN new : new[i] \in Secrets
          /\ new \in [DOMAIN new -> Secrets]
  BY PartialFacts
<1>4. CASE change \in Additions(config)
  <2>1. PICK new \in Partial(Ids \ DOMAIN old, Secrets) :
            change = [config |-> [config EXCEPT !.secrets = [i \in DOMAIN @ \cup DOMAIN new |->
                                      IF i \in DOMAIN new THEN new[i] ELSE @[i]]],
                      touched |-> DOMAIN new]
    BY <1>4 DEF Additions
  <2> DEFINE g == [i \in DOMAIN old \cup DOMAIN new |-> IF i \in DOMAIN new THEN new[i] ELSE old[i]]
  <2>2. g \in [DOMAIN old \cup DOMAIN new -> Secrets] /\ DOMAIN old \cup DOMAIN new \in SUBSET Ids
    BY <1>1, <1>3
  <2>3. /\ DOMAIN g = DOMAIN old \cup DOMAIN new
        /\ \A i \in DOMAIN old \ DOMAIN new : g[i] = old[i]
    OBVIOUS
  <2>4. change.config = [config EXCEPT !.secrets = g] /\ change.touched = DOMAIN new
    BY <2>1
  <2> HIDE DEF g, old
  <2>5. change.config = [secrets |-> g, active |-> config.active]
    BY <1>1, <2>4
  <2>6. g \in Partial(Ids, Secrets)
    BY <1>2, <2>2
  <2>7. change.config \in ConfigValues
    BY <1>1, <2>5, <2>6 DEF ConfigValues
  <2>8. \A n \in Names \ DOMAIN new : Told(change.config, n) = Told(config, n)
    BY <2>3, <2>5 DEF Told, old
  <2> QED
    BY <1>3, <2>4, <2>7, <2>8 DEF Names
<1>5. CASE change \in Edits(config)
  <2>1. PICK i \in DOMAIN old, s \in Secrets :
            change = [config |-> [config EXCEPT !.secrets[i] = s], touched |-> {i}]
    BY <1>5 DEF Edits
  <2> DEFINE g == [old EXCEPT ![i] = s]
  <2>2. old = [j \in DOMAIN old |-> old[j]]
    BY <1>1, PartialFacts
  <2>3. g \in [DOMAIN old -> Secrets] /\ DOMAIN g = DOMAIN old /\ \A j \in DOMAIN old \ {i} : g[j] = old[j]
    BY <1>1, <2>2
  <2>4. change.config = [config EXCEPT !.secrets = g] /\ change.touched = {i}
    BY <2>1
  <2> HIDE DEF g, old
  <2>5. change.config = [secrets |-> g, active |-> config.active]
    BY <1>1, <2>4
  <2>6. g \in Partial(Ids, Secrets)
    BY <1>1, <1>2, <2>3
  <2>7. change.config \in ConfigValues
    BY <1>1, <2>5, <2>6 DEF ConfigValues
  <2>8. \A n \in Names \ {i} : Told(change.config, n) = Told(config, n)
    BY <2>3, <2>5 DEF Told, old
  <2> QED
    BY <1>1, <2>4, <2>7, <2>8 DEF Names
<1>6. CASE change \in Deletions(config)
  <2>1. PICK i \in Ids :
            change = [config |-> [secrets |-> Restrict(old, DOMAIN old \ {i}),
                                  active |-> IF config.active = i THEN None ELSE config.active],
                      touched |-> {i} \cup (IF config.active = i THEN {"active"} ELSE {})]
    BY <1>6 DEF Deletions
  <2> DEFINE g == Restrict(old, DOMAIN old \ {i})
             a == IF config.active = i THEN None ELSE config.active
  <2>2. /\ g \in [DOMAIN old \ {i} -> Secrets] /\ DOMAIN g = DOMAIN old \ {i}
        /\ \A j \in DOMAIN old \ {i} : g[j] = old[j]
    BY <1>1 DEF Restrict
  <2>3. a \in Ids \cup {None} /\ ("active" \notin change.touched => a = config.active)
    BY <1>1, <2>1
  <2>4. change.config = [secrets |-> g, active |-> a] /\ i \in change.touched
        /\ change.touched \in SUBSET Names
    BY <2>1 DEF Names
  <2> HIDE DEF g, a, old
  <2>5. g \in Partial(Ids, Secrets)
    <3>1. DOMAIN old \ {i} \in SUBSET Ids
      BY <1>1
    <3> QED
      BY <1>2, <2>2, <3>1
  <2>6. change.config \in ConfigValues
    BY <2>3, <2>4, <2>5 DEF ConfigValues
  <2>7. \A n \in Names \ change.touched : Told(change.config, n) = Told(config, n)
    BY <2>2, <2>3, <2>4 DEF Told, old
  <2> QED
    BY <2>4, <2>6, <2>7
<1>7. CASE change \in Imports(config)
  <2>1. PICK new \in Partial(Ids \ DOMAIN old, Secrets) :
            change = [config |-> [secrets |-> new, active |-> None], touched |-> Ids \cup {"active"}]
    BY <1>7 DEF Imports
  <2>2. new \in Partial(Ids, Secrets)
    <3>1. DOMAIN new \in SUBSET Ids /\ new \in [DOMAIN new -> Secrets]
      BY <1>3
    <3> QED
      BY <1>2, <3>1
  <2>3. change.config \in ConfigValues /\ change.touched = Names
    BY <2>1, <2>2 DEF ConfigValues, Names
  <2> QED
    BY <2>3
<1> QED
  BY <1>4, <1>5, <1>6, <1>7 DEF Changes

\* It saves the loaded configuration with its change.
LEMMA SaveChangeInv == ASSUME ConfigInv, NEW c \in Callers, SaveChange(c) PROVE ConfigInv'
<1>1. /\ run = Idle /\ caller[c].pc = "loaded" /\ lock' = lock
      /\ caller' = [caller EXCEPT ![c] = [pc |-> "saving"]]
      /\ UNCHANGED <<windows, primary, backup, side, vault, cache, fate, told, sanitised>>
  BY DEF SaveChange, files
<1>2. PICK change \in Changes(caller[c].config) :
          run' = Start(c, "save", None, change.config, change.touched)
  BY DEF SaveChange
<1>3. caller[c].config \in ConfigValues /\ Conforms(caller[c].config, fate, Names) /\ lock = c
  BY <1>1, StateFacts DEF ConfigInv, CommandsOK
<1> DEFINE config == change.config
           touched == change.touched
<1>4. /\ config \in ConfigValues /\ touched \in SUBSET Names
      /\ \A n \in Names \ touched : Told(config, n) = Told(caller[c].config, n)
  BY <1>3, ChangesFacts
<1>5. Conforms(config, fate, Names \ touched)
  <2> HIDE DEF config, touched
  <2> QED
    BY <1>3, <1>4 DEF Conforms
<1>6. None \in Ids \cup {None}
  OBVIOUS
<1>7. run' = Start(c, "save", None, config, touched)
  BY <1>2
<1> HIDE DEF config, touched
<1> QED
  BY <1>1, <1>3, <1>4, <1>5, <1>6, <1>7, Begins

\* It gives up, and the lock is free again.
LEMMA GiveUpInv == ASSUME ConfigInv, NEW c \in Callers, GiveUp(c) PROVE ConfigInv'
<1>1. ConfigTypes /\ CommandsOK /\ RunOK /\ FilesAgree /\ FilesOpen /\ FilesSealed
  BY DEF ConfigInv
<1>2. /\ UNCHANGED <<windows, primary, backup, side, vault, cache, run, fate, told, sanitised>>
      /\ caller[c].pc = "loaded" /\ LeaveCommand(c)
  BY DEF GiveUp, files
<1>3. caller' = [caller EXCEPT ![c] = Idle] /\ lock' = IF lock = c THEN None ELSE lock
  BY <1>2 DEF LeaveCommand
<1>4. caller' \in [Callers -> CommandStates] /\ lock' \in Callers \cup {None}
      /\ caller'[c].pc = "idle" /\ \A d \in Callers \ {c} : caller'[d] = caller[d]
  BY <1>1, <1>3, StateFacts DEF ConfigTypes
<1>5. ConfigTypes'
  BY <1>1, <1>2, <1>4 DEF ConfigTypes
<1>6. run # Idle => run.by # c /\ run.by \in Callers
  <2>1. run # Idle => run.by \in Callers /\ CallOf(run.by, caller[run.by], run)
    BY <1>1, CallFacts DEF CommandsOK
  <2> QED
    BY <1>2, <2>1 DEF CallOf
<1>7. CommandsOK'
  <2>1. \A d \in Callers : caller'[d].pc \in {"activating", "loading", "loaded", "saving"} => lock' = d
    BY <1>1, <1>3, <1>4 DEF CommandsOK
  <2>2. \A d \in Callers : caller'[d].pc \notin {"idle", "loaded"} => run' # Idle /\ run'.by = d
    BY <1>1, <1>2, <1>4 DEF CommandsOK
  <2>3. run' # Idle => CallOf(run'.by, caller'[run'.by], run')
    BY <1>1, <1>2, <1>4, <1>6 DEF CommandsOK
  <2>4. \A d \in Callers : caller'[d].pc = "loaded" => Conforms(caller'[d].config, fate', Names)
    BY <1>1, <1>2, <1>4 DEF CommandsOK
  <2> QED
    BY <2>1, <2>2, <2>3, <2>4 DEF CommandsOK
<1>8. RunOK' /\ FilesAgree' /\ FilesOpen' /\ FilesSealed'
  BY <1>1, <1>2 DEF RunOK, FilesAgree, FilesOpen, FilesSealed
<1> QED
  BY <1>5, <1>7, <1>8 DEF ConfigInv

\* The process dies: what is in memory is lost, what is in the files and the vault is not.
LEMMA CrashInv == ASSUME ConfigInv, Crash PROVE ConfigInv'
<1>1. ConfigTypes /\ FilesAgree /\ FilesOpen /\ FilesSealed
  BY DEF ConfigInv
<1>2. /\ UNCHANGED <<windows, primary, backup, side, vault, fate, told, sanitised>>
      /\ run' = Idle /\ caller' = [c \in Callers |-> Idle] /\ lock' = None /\ cache' = None
  BY DEF Crash, files
<1>3. Idle \in CommandStates /\ Idle.pc = "idle"
  BY DEF CommandStates, Idle
<1>4. ConfigTypes'
  BY <1>1, <1>2, <1>3 DEF ConfigTypes
<1>5. CommandsOK' /\ RunOK'
  BY <1>2, <1>3 DEF CommandsOK, RunOK
<1>6. FilesAgree' /\ FilesOpen' /\ FilesSealed'
  BY <1>1, <1>2 DEF FilesAgree, FilesOpen, FilesSealed
<1> QED
  BY <1>4, <1>5, <1>6 DEF ConfigInv

\* The primary file is lost or damaged while no call is under way.
LEMMA LosePrimaryInv == ASSUME ConfigInv, LosePrimary PROVE ConfigInv'
<1>1. ConfigTypes /\ CommandsOK /\ RunOK /\ FilesAgree /\ FilesOpen /\ FilesSealed
  BY DEF ConfigInv
<1>2. /\ UNCHANGED <<windows, backup, side, vault, cache, lock, caller, run, fate, told, sanitised>>
      /\ run = Idle /\ primary' \in {Missing, Invalid} /\ IsConfig(backup)
  BY DEF LosePrimary
<1>3. ~IsConfig(primary') /\ backup # Missing /\ Text(primary') = "sealed"
  <2>1. \A f \in {Missing, Invalid} : ~IsConfig(f) /\ Text(f) = "sealed"
    BY ConfigFacts, TextFacts
  <2> QED
    BY <1>2, <2>1, ConfigFacts
<1>4. ConfigTypes'
  BY <1>1, <1>2 DEF ConfigTypes, Stored
<1>5. CommandsOK' /\ RunOK'
  BY <1>1, <1>2 DEF CommandsOK, RunOK
<1>6. FilesAgree'
  BY <1>1, <1>2, <1>3 DEF FilesAgree, PairAgrees, Agrees
<1>7. FilesOpen' /\ FilesSealed'
  BY <1>1, <1>2, <1>3 DEF FilesOpen, FilesSealed, Unlocks
<1> QED
  BY <1>4, <1>5, <1>6, <1>7 DEF ConfigInv

\* An installation, new or left by an older version, meets the invariant.
LEMMA ConfigInitInv == ASSUME Init PROVE ConfigInv
<1>1. primary \in {Missing} \cup Legacy /\ backup \in {Missing, primary}
  BY DEF Init
<1>2. Legacy \subseteq Sound
  <2>1. Legacy \subseteq Configs
    BY DEF Legacy, Configs
  <2>2. \A d \in Legacy : At(d, "bundle") = {} /\ d.format # "encrypted"
    BY DEF Legacy
  <2> QED
    BY <2>1, <2>2 DEF Sound
<1>3. primary \in Stored /\ backup \in Stored
  BY <1>1, <1>2 DEF Stored
<1> DEFINE file == IF IsConfig(primary) THEN primary ELSE Empty
           known == IF IsConfig(primary) THEN At(primary, "ref") ELSE {}
<1>4. file \in Sound /\ file \in Configs
  BY <1>1, <1>2, ConfigFacts
<1>5. vault \in [master : {None}, refs : [known -> Secrets]]
  BY DEF Init
<1>6. known \subseteq Ids
  BY <1>4, EntryFacts
<1>7. vault \in Vaults /\ DOMAIN vault.refs = known /\ vault.refs \in [known -> Secrets]
      /\ vault.master = None
  <2> HIDE DEF known
  <2>1. [known -> Secrets] \subseteq Partial(Ids, Secrets)
    BY <1>6 DEF Partial
  <2> QED
    BY <1>5, <2>1 DEF Vaults
<1>8. fate = [k \in Names |-> Says(file, k)]
  <2>1. fate = [k \in Names |-> IF IsConfig(primary) THEN Says(primary, k) ELSE Says(Empty, k)]
    BY DEF Init, Names
  <2> QED
    BY <2>1
<1>9. \A k \in Names : Says(file, k) = Spoken(vault.refs, file, k)
  <2> HIDE DEF file
  <2> QED
    BY <1>4, SpokenIsSays
<1>10. \A k \in Names : Spoken(vault.refs, file, k) \in Verdicts
  <2>1. \A i \in DOMAIN vault.refs : vault.refs[i] \in Secrets
    BY <1>7
  <2>2. file.active \in Ids \cup {None}
        /\ \A i \in DOMAIN file.entries : file.entries[i].at # "ref" => file.entries[i].secret \in Secrets
    BY <1>4, EntryFacts
  <2> HIDE DEF file
  <2> QED
    BY <2>1, <2>2 DEF Spoken, Verdicts
<1>11. fate \in Fates
  <2> HIDE DEF file
  <2> QED
    BY <1>8, <1>9, <1>10 DEF Fates
<1>12. Idle \in CommandStates /\ Idle.pc = "idle"
  BY DEF CommandStates, Idle
<1>13. side \in [old : {"none"}, corrupt : {"none", "text"}] => side \in Sides
  BY DEF Sides
<1>14. ConfigTypes
  BY <1>3, <1>7, <1>11, <1>12, <1>13 DEF Init, ConfigTypes
<1>15. CommandsOK /\ RunOK
  BY <1>12 DEF Init, CommandsOK, RunOK
<1>16. FilesAgree
  <2>1. \A k \in Names : Spoken(vault.refs, file, k) = fate[k]
    <3> HIDE DEF file
    <3> QED
      BY <1>8, <1>9
  <2>2. Agrees(vault.refs, primary, fate, Names)
    BY <2>1 DEF Agrees
  <2>3. Agrees(vault.refs, backup, fate, Names)
    BY <1>1, <2>2, ConfigFacts DEF Agrees
  <2>4. primary = Missing => Agrees(vault.refs, Empty, fate, Names)
    BY <2>1, ConfigFacts DEF Agrees
  <2> QED
    BY <2>2, <2>3, <2>4 DEF FilesAgree, PairAgrees
<1>17. FilesOpen
  <2>1. \A d \in Legacy : At(d, "bundle") = {}
    BY DEF Legacy
  <2>2. Unlocks(vault, primary)
    BY <1>1, <1>7, <2>1, ConfigFacts DEF Unlocks
  <2>3. Unlocks(vault, backup)
    BY <1>1, <2>2, ConfigFacts DEF Unlocks
  <2> QED
    BY <2>2, <2>3 DEF FilesOpen
<1>18. FilesSealed
  BY <1>1, TextFacts DEF Init, FilesSealed
<1> QED
  BY <1>14, <1>15, <1>16, <1>17, <1>18 DEF ConfigInv

\* The invariant is about the variables alone.
LEMMA ConfigStutter == ASSUME ConfigInv, UNCHANGED vars PROVE ConfigInv'
  BY DEF ConfigInv, ConfigTypes, CommandsOK, RunOK, FilesAgree, FilesOpen, FilesSealed, vars, files

\* Every step keeps the invariant.
LEMMA ConfigStep == ASSUME ConfigInv, [Next]_vars PROVE ConfigInv'
<1>1. CASE Step
  BY <1>1, ReadDiskInv, RecoverInv, DispatchInv, GetKeyInv, StagePrimaryInv, StageBackupInv,
     ReplaceBackupInv, ReplacePrimaryInv, ReplaceAsideInv, UndoPrimaryInv, UndoBackupInv, AbortInv,
     ReportOkInv, SweepInv, CleanUpInv, DropCredentialsInv DEF Step
<1>2. ASSUME NEW c \in Callers, Read(c) \/ SetActive(c) \/ Mutate(c) \/ SaveChange(c) \/ GiveUp(c)
      PROVE  ConfigInv'
  BY <1>2, ReadInv, SetActiveInv, MutateInv, SaveChangeInv, GiveUpInv
<1>3. CASE Crash
  BY <1>3, CrashInv
<1>4. CASE LosePrimary
  BY <1>4, LosePrimaryInv
<1>5. CASE UNCHANGED vars
  BY <1>5, ConfigStutter
<1> QED
  BY <1>1, <1>2, <1>3, <1>4, <1>5 DEF Next

\* The inductive invariant holds in every reachable state.
LEMMA ConfigInvariance == Spec => []ConfigInv
<1>1. Init => ConfigInv
  BY ConfigInitInv
<1>2. ConfigInv /\ [Next]_vars => ConfigInv'
  BY ConfigStep
<1> QED
  BY <1>1, <1>2, PTL DEF Spec

\* The files, the vault, the commands and the call under way are always well formed:
\* a primary file may be found invalid, a backup file never is.
THEOREM ConfigTypeCorrect == Spec => []ConfigTypes
<1>1. ConfigInv => ConfigTypes
  BY DEF ConfigInv
<1> QED
  BY <1>1, ConfigInvariance, PTL

\* Unless the user was told that a rollback failed, the credential store holds what
\* opens the file and its backup: no crash, failing step or rollback of a new key
\* leaves a file that write_config_with_fs wrote without the key it was sealed with.
THEOREM FilesCanBeOpened == Spec => []Openable
<1>1. ConfigInv => Openable
  <2> SUFFICES ASSUME ConfigInv, ~told, NEW f \in {primary, backup}, IsConfig(f)
               PROVE  Opens(f)
    BY DEF Openable, Files
  <2>1. Unlocks(vault, f) /\ f \in Stored \cup {Invalid}
    BY DEF ConfigInv, ConfigTypes, FilesOpen
  <2>2. f \in Configs
    BY <2>1, ConfigFacts DEF Stored, Sound
  <2>3. \A i \in DOMAIN f.entries : f.entries[i].at \in {"text", "bundle", "ref"}
    BY <2>2, EntryFacts
  <2> QED
    BY <2>1, <2>3 DEF Opens, Unlocks, At
<1> QED
  BY <1>1, ConfigInvariance, PTL

\* What the user was told of a connection, or of the active one, is what both files
\* say of it, whatever other command ran, call failed, crash or recovery came since.
THEOREM ReportsHold == Spec => []AsReported
<1>1. ConfigInv => AsReported
  <2> SUFFICES ASSUME ConfigInv, NEW k \in DOMAIN fate, fate[k] # "open",
                      NEW f \in {primary, backup}, IsConfig(f)
               PROVE  Says(f, k) = fate[k]
    BY DEF AsReported, Files
  <2>1. Agrees(vault.refs, f, fate, Names) /\ f \in Stored \cup {Invalid} /\ k \in Names
    BY DEF ConfigInv, ConfigTypes, FilesAgree, PairAgrees, Fates
  <2>2. f \in Configs
    BY <2>1, ConfigFacts DEF Stored, Sound
  <2>3. Spoken(vault.refs, f, k) = fate[k]
    BY <2>1 DEF Agrees
  <2> QED
    BY <2>1, <2>2, <2>3, SpokenIsSays
<1> QED
  BY <1>1, ConfigInvariance, PTL

\* Once a full load has succeeded, no secret is left as text in the primary file, in
\* the backup or in a file beside them.
THEOREM TextIsGone == Spec => []NoTextLeft
<1>1. ConfigInv => NoTextLeft
  BY DEF ConfigInv, FilesSealed, NoTextLeft, Files
<1> QED
  BY <1>1, ConfigInvariance, PTL

=============================================================================
