------------------------ MODULE EntityDialogsProofs ------------------------
(***************************************************************************)
(* Theorems about EntityDialogs: its type correctness, that properties and *)
(* rules on display are those of the selection, that a message to a queue  *)
(* with sessions names one, and that a rule is overwritten only with a     *)
(* draft made from it.                                                     *)
(***************************************************************************)
EXTENDS EntityDialogs, TLAPS

-----------------------------------------------------------------------------
(* Type correctness, in the parts the handlers disturb.                    *)

PlaceType ==
    /\ listed \subseteq 1..MaxIds /\ conn \in listed \cup {0}
    /\ sel \in Names \cup {None}
PropType ==
    /\ props \in Shown \cup [status : {"none", "loading", "error"}]
    /\ fetches \subseteq Fetches
SendType == send \in BOOLEAN /\ sends \subseteq Sends
EditorType == rules \in Editors \cup {None}
AskType == asks \subseteq Asks
BrokerType == broker \in [Places -> SUBSET RuleNames]
RequestType == requests \in 0..MaxRequests

Types == PlaceType /\ PropType /\ SendType /\ EditorType /\ AskType /\ BrokerType /\ RequestType

\* The parts make up the type invariant.
LEMMA TypesAreTypeOK == Types <=> TypeOK
  BY DEF Types, PlaceType, PropType, SendType, EditorType, AskType, BrokerType, RequestType, TypeOK

\* The next request has a number within the bound.
LEMMA Asking ==
    ASSUME Types, Ask
    PROVE  RequestType' /\ requests + 1 \in 1..MaxRequests
  BY DialogsAssumption DEF Types, RequestType, Ask

\* The effect of a change leaves well-formed properties.
LEMMA RefetchTypes ==
    ASSUME Types, NEW c \in 0..MaxIds, NEW s \in Names \cup {None}, Refetch(c, s)
    PROVE  PropType'
  <1>1. Stale(fetches) \subseteq Fetches
    BY DEF Stale, Types, PropType, Fetches
  <1>2. CASE c = 0 \/ s = None
    BY <1>1, <1>2 DEF Refetch, PropType
  <1>3. CASE c # 0 /\ s # None
    <2>1. c \in 1..MaxIds /\ s \in Names
      BY <1>3, DialogsAssumption
    <2>2. [conn |-> c, name |-> s, stale |-> FALSE] \in Fetches
      BY <2>1 DEF Fetches
    <2>3. fetches' \subseteq Fetches
      BY <1>1, <1>3, <2>2 DEF Refetch
    <2>4. props' = [status |-> "loading"]
      BY <1>3 DEF Refetch
    <2> QED BY <2>3, <2>4 DEF PropType
  <1> QED BY <1>2, <1>3

\* Answers that no longer reach the editor are still calls.
LEMMA OrphansTyped ==
    ASSUME Types
    PROVE  Orphans \subseteq Asks
  BY DEF Orphans, Types, AskType, Asks

\* Closing the editor leaves it and its calls well formed.
LEMMA ClosedTypes ==
    ASSUME Types, RulesClosed
    PROVE  EditorType' /\ AskType'
  BY OrphansTyped DEF RulesClosed, EditorType, AskType

\* The connection in use is a number within the bound.
LEMMA ConnInRange ==
    ASSUME Types
    PROVE  conn \in 0..MaxIds
  BY DialogsAssumption DEF Types, PlaceType

\* A request of an editor that is on display is a well-formed call.
LEMMA RequestTyped ==
    ASSUME Types, Ask, conn # 0, sel \in Subscriptions,
           NEW cmd \in {"load", "create", "update", "delete"},
           NEW rule \in RuleNames \cup {None, NewRule}, NEW from \in RuleNames \cup {None},
           NEW key \in RuleNames \cup {None, NewRule},
           NEW ends \in {"nothing", "saving", "deleting"}
    PROVE  Request(cmd, rule, from, key, ends) \in Asks
  <1>1. requests + 1 \in 1..MaxRequests
    BY Asking
  <1>2. <<conn, sel>> \in Places
    BY ConnInRange, DialogsAssumption DEF Places
  <1> QED BY <1>1, <1>2 DEF Request, Asks

-----------------------------------------------------------------------------
(* The inductive invariant.                                                *)

\* The one call whose answer counts is about the selection.
FetchInv == \A f \in fetches : ~f.stale => f.conn = conn /\ f.name = sel

\* What is displayed says of sessions what is so.
ShownInv ==
    props.status = "shown" => (props.session <=> <<props.conn, props.name>> \in Requires)

PropInv == FetchInv /\ ShownInv /\ PropertiesOfSelection

\* The editor is open on a subscription of the connection in use, and so are
\* the calls whose answers reach it; a rule is created with a name.
EditorPlace == rules # None => conn # 0 /\ sel \in Subscriptions
AskInv ==
    \A a \in asks :
        /\ a.shown => rules # None /\ a.at = <<conn, sel>>
        /\ a.cmd = "create" => a.rule \in RuleNames

\* The draft was made from the rule that is selected.
DraftInv ==
    rules # None =>
        /\ rules.key \in RuleNames => rules.draft = DraftOf(rules.key)
        /\ rules.key \notin RuleNames => rules.draft.from = None
        /\ rules.key = None => rules.draft = NoDraft

IInv ==
    /\ Types /\ PropInv /\ SessionNamed
    /\ EditorPlace /\ AskInv /\ RulesOfSelection /\ DraftInv /\ DraftOfRule

\* A draft made for a rule, or for none, is one of that rule.
LEMMA DraftForKey ==
    ASSUME NEW key \in RuleNames \cup {None, NewRule}
    PROVE  /\ key \in RuleNames => DraftFor(key) = DraftOf(key)
           /\ key \notin RuleNames => DraftFor(key) = NoDraft
           /\ DraftFor(key) \in Drafts
           /\ NoDraft.from = None
  BY DEF DraftFor, DraftOf, NoDraft, Drafts

\* A load selects a rule it found, the one that was asked for, or none.
LEMMA NextKeyTyped ==
    ASSUME NEW a \in Asks
    PROVE  NextKey(a) \in RuleNames \cup {None, NewRule}
  <1>1. a.found \subseteq RuleNames /\ a.rule \in RuleNames \cup {None, NewRule}
    BY DEF Asks
  <1>2. a.found # {} => (CHOOSE r \in a.found : TRUE) \in RuleNames
    BY <1>1
  <1> QED BY <1>1, <1>2 DEF NextKey

-----------------------------------------------------------------------------
(* The steps of the properties hook.                                       *)

\* After a change, no properties are displayed and the one call that counts
\* is about the new selection.
LEMMA RefetchInv ==
    ASSUME Types, NEW c \in 0..MaxIds, NEW s \in Names \cup {None}, Refetch(c, s),
           conn' = c, sel' = s
    PROVE  PropInv'
  <1>1. \A f \in Stale(fetches) : f.stale
    BY DEF Stale, Types, PropType, Fetches
  <1>2. props'.status # "shown"
    BY DEF Refetch
  <1>3. FetchInv'
    BY <1>1 DEF Refetch, FetchInv
  <1> QED BY <1>2, <1>3 DEF PropInv, ShownInv, PropertiesOfSelection

\* Only the answer to the latest call is displayed.
LEMMA FetchAnsweredInv ==
    ASSUME IInv, NEW f \in fetches, NEW ok \in BOOLEAN, FetchAnswered(f, ok)
    PROVE  PropType' /\ PropInv'
  <1>1. f \in Fetches /\ fetches' \subseteq fetches
    BY DEF FetchAnswered, IInv, Types, PropType
  <1>2. FetchInv'
    BY <1>1 DEF FetchAnswered, IInv, PropInv, FetchInv
  <1>3. CASE f.stale \/ ~ok
    <2>1. props' = props \/ props' = [status |-> "error"]
      BY <1>3 DEF FetchAnswered, IsStale
    <2>2. PropType'
      BY <1>1, <2>1 DEF IInv, Types, PropType
    <2>3. ShownInv' /\ PropertiesOfSelection'
      BY <2>1 DEF FetchAnswered, IInv, PropInv, ShownInv, PropertiesOfSelection
    <2> QED BY <1>2, <2>2, <2>3 DEF PropInv
  <1>4. CASE ~f.stale /\ ok
    <2>1. props' = [status |-> "shown", conn |-> f.conn, name |-> f.name,
                    session |-> <<f.conn, f.name>> \in Requires]
      BY <1>4 DEF FetchAnswered, IsStale
    <2>2. f.conn = conn /\ f.name = sel
      BY <1>4 DEF IInv, PropInv, FetchInv
    <2>3. PropType'
      <3>1. props' \in Shown
        BY <1>1, <2>1 DEF Shown, Fetches
      <3> QED BY <1>1, <3>1 DEF IInv, Types, PropType
    <2>4. PropertiesOfSelection'
      BY <2>1, <2>2 DEF FetchAnswered, PropertiesOfSelection
    <2>5. ShownInv'
      BY <2>1 DEF ShownInv
    <2> QED BY <1>2, <2>3, <2>4, <2>5 DEF PropInv
  <1> QED BY <1>3, <1>4

-----------------------------------------------------------------------------
(* The steps of the send window.                                           *)

\* A message is sent at once only if the properties on display allow it.
LEMMA SubmitInv ==
    ASSUME IInv, NEW name \in Names, NEW session \in BOOLEAN, Submit(name, session)
    PROVE  SendType' /\ RequestType' /\ SessionNamed'
  <1> DEFINE call(phase) == [conn |-> conn, kind |-> TargetKind, name |-> name,
                             session |-> session, phase |-> phase, shown |-> TRUE]
  <1>1. Ask /\ conn # 0 /\ UNCHANGED <<send, props, conn, sel>>
    BY DEF Submit, propVars
  <1>2. RequestType'
    BY <1>1, Asking DEF IInv
  <1>3. TargetKind \in {"queue", "topic"}
    BY DEF TargetKind
  <1>4. conn \in 1..MaxIds
    BY <1>1, ConnInRange, DialogsAssumption DEF IInv
  <1>5. call("sending") \in Sends /\ call("checking") \in Sends
    BY <1>3, <1>4 DEF Sends
  <1>6. PICK s \in {call("sending"), call("checking")} :
            /\ sends' = sends \cup {s}
            /\ s.phase = "sending" /\ s.kind = "queue" =>
                 KnowsQueue(name) /\ (props.session => session)
    <2>1. CASE TargetKind = "topic" /\ sends' = sends \cup {call("sending")}
      <3>1. call("sending").kind = "topic"
        BY <2>1
      <3> QED BY <2>1, <3>1
    <2>2. CASE TargetKind = "queue" /\ KnowsQueue(name) /\ (props.session => session)
               /\ sends' = sends \cup {call("sending")}
      BY <2>2
    <2>3. CASE TargetKind = "queue" /\ ~KnowsQueue(name) /\ sends' = sends \cup {call("checking")}
      <3>1. call("checking").phase = "checking"
        OBVIOUS
      <3> QED BY <2>3, <3>1
    <2> QED BY <2>1, <2>2, <2>3 DEF Submit
  <1>7. SendType'
    BY <1>1, <1>5, <1>6 DEF IInv, Types, SendType
  <1>8. s.conn = conn /\ s.name = name /\ s.session = session
    BY <1>6
  <1>9. s.phase = "sending" /\ s.kind = "queue" /\ <<s.conn, s.name>> \in Requires => s.session
    <2> SUFFICES ASSUME s.phase = "sending", s.kind = "queue", <<s.conn, s.name>> \in Requires
        PROVE  s.session
      OBVIOUS
    <2>1. props.status = "shown" /\ props.name = name /\ (props.session => session)
      BY <1>6 DEF KnowsQueue
    <2>2. props.conn = conn
      BY <2>1 DEF IInv, PropInv, PropertiesOfSelection
    <2>3. props.session
      BY <1>8, <2>1, <2>2 DEF IInv, PropInv, ShownInv
    <2> QED BY <1>8, <2>1, <2>3
  <1>10. SessionNamed'
    BY <1>6, <1>9 DEF IInv, SessionNamed
  <1> QED BY <1>2, <1>7, <1>10

\* A message that was checked is sent only with what its queue requires.
LEMMA CheckedInv ==
    ASSUME IInv, NEW s \in sends, Checked(s)
    PROVE  SendType' /\ SessionNamed'
  <1> DEFINE t == [s EXCEPT !.phase = "sending"]
  <1>1. s \in Sends
    BY DEF IInv, Types, SendType
  <1>2. t \in Sends
    BY <1>1 DEF Sends
  <1>3. t.conn = s.conn /\ t.name = s.name /\ t.session = s.session
    BY <1>1 DEF Sends
  <1>4. CASE <<s.conn, s.name>> \in Requires /\ ~s.session
    BY <1>4 DEF Checked, IInv, Types, SendType, SessionNamed
  <1>5. CASE ~(<<s.conn, s.name>> \in Requires /\ ~s.session)
    <2>1. sends' = (sends \ {s}) \cup {t} /\ send' = send
      BY <1>5 DEF Checked
    <2>2. SendType'
      BY <1>2, <2>1 DEF IInv, Types, SendType
    <2>3. <<t.conn, t.name>> \in Requires => t.session
      BY <1>3, <1>5
    <2>4. SessionNamed'
      BY <2>1, <2>3 DEF IInv, SessionNamed
    <2> QED BY <2>2, <2>4
  <1> QED BY <1>4, <1>5

\* Closing the window changes nothing of what is sent.
LEMMA CloseSendInv ==
    ASSUME IInv, CloseSend
    PROVE  SendType' /\ SessionNamed'
  <1>1. ASSUME NEW s \in sends
        PROVE  /\ [s EXCEPT !.shown = FALSE] \in Sends
               /\ [s EXCEPT !.shown = FALSE].phase = s.phase
               /\ [s EXCEPT !.shown = FALSE].kind = s.kind
               /\ [s EXCEPT !.shown = FALSE].conn = s.conn
               /\ [s EXCEPT !.shown = FALSE].name = s.name
               /\ [s EXCEPT !.shown = FALSE].session = s.session
    BY DEF IInv, Types, SendType, Sends
  <1>2. sends' = {[s EXCEPT !.shown = FALSE] : s \in sends} /\ send' = FALSE
    BY DEF CloseSend
  <1>3. SendType'
    BY <1>1, <1>2 DEF SendType
  <1>4. SessionNamed'
    <2> SUFFICES ASSUME NEW u \in sends', u.phase = "sending", u.kind = "queue",
                        <<u.conn, u.name>> \in Requires
                 PROVE  u.session
      BY DEF SessionNamed
    <2>1. PICK s \in sends : u = [s EXCEPT !.shown = FALSE]
      BY <1>2
    <2> QED BY <1>1, <2>1 DEF IInv, SessionNamed
  <1> QED BY <1>3, <1>4


-----------------------------------------------------------------------------
(* The steps of the rules editor.                                          *)

\* What the rules editor and its calls add to the invariant.
RuleInv == EditorPlace /\ AskInv /\ RulesOfSelection /\ DraftInv /\ DraftOfRule
RuleTypes == EditorType /\ AskType /\ BrokerType

\* Calls whose answers reach nobody still send what they were made with.
LEMMA OrphansInv ==
    ASSUME IInv
    PROVE  /\ \A a \in Orphans : ~a.shown
           /\ \A a \in Orphans : (a.cmd = "update" => a.rule = a.key /\ a.from = a.key)
                                 /\ (a.cmd = "create" => a.from = None /\ a.rule \in RuleNames)
  <1>1. ASSUME NEW a \in asks
        PROVE  /\ ~[a EXCEPT !.shown = FALSE].shown
               /\ [a EXCEPT !.shown = FALSE].cmd = a.cmd
               /\ [a EXCEPT !.shown = FALSE].rule = a.rule
               /\ [a EXCEPT !.shown = FALSE].from = a.from
               /\ [a EXCEPT !.shown = FALSE].key = a.key
    BY DEF IInv, Types, AskType, Asks
  <1> SUFFICES ASSUME NEW o \in Orphans
      PROVE  /\ ~o.shown
             /\ o.cmd = "update" => o.rule = o.key /\ o.from = o.key
             /\ o.cmd = "create" => o.from = None /\ o.rule \in RuleNames
    OBVIOUS
  <1>2. PICK a \in asks : o = [a EXCEPT !.shown = FALSE]
    BY DEF Orphans
  <1>3. ~o.shown /\ o.cmd = a.cmd /\ o.rule = a.rule /\ o.from = a.from /\ o.key = a.key
    BY <1>1, <1>2
  <1> QED BY <1>3 DEF IInv, DraftOfRule, AskInv

\* Closing the editor leaves nothing on display.
LEMMA ClosedInv ==
    ASSUME IInv, RulesClosed
    PROVE  RuleInv'
  BY OrphansInv DEF RulesClosed, RuleInv, EditorPlace, AskInv, RulesOfSelection, DraftInv,
                    DraftOfRule

\* Opening asks for the rules of the selected subscription.
LEMMA OpenRulesInv ==
    ASSUME IInv, OpenRules
    PROVE  RuleTypes' /\ RuleInv'
  <1> DEFINE a == Request("load", None, None, None, "nothing")
  <1>1. a \in Asks
    BY RequestTyped DEF OpenRules, IInv
  <1>2. asks' = asks \cup {a} /\ UNCHANGED <<conn, sel, broker>>
    BY DEF OpenRules
  <1>3. a.cmd = "load" /\ a.at = <<conn, sel>>
    BY DEF Request
  <1>4. /\ rules'.of = None /\ rules'.key = None /\ rules'.draft = NoDraft
        /\ rules' \in Editors
    BY DEF OpenRules, Editors, Drafts, NoDraft
  <1>5. RuleTypes'
    BY <1>1, <1>2, <1>4 DEF RuleTypes, EditorType, AskType, BrokerType, IInv, Types
  <1>6. EditorPlace'
    BY DEF OpenRules, EditorPlace
  <1>7. AskInv' /\ DraftOfRule'
    BY <1>2, <1>3, <1>4, EditorAssumption DEF IInv, AskInv, DraftOfRule
  <1>8. RulesOfSelection' /\ DraftInv'
    BY <1>4, DialogsAssumption DEF RulesOfSelection, DraftInv, NoDraft
  <1> QED BY <1>5, <1>6, <1>7, <1>8 DEF RuleInv

\* Loading again keeps what is displayed until the answer is there.
LEMMA RefreshInv ==
    ASSUME IInv, Refresh
    PROVE  RuleTypes' /\ RuleInv'
  <1> DEFINE a == Request("load", rules.key, None, None, "nothing")
  <1>1. rules \in Editors /\ rules # None /\ conn # 0 /\ sel \in Subscriptions
    BY DEF Refresh, IInv, Types, EditorType, EditorPlace
  <1>2. a \in Asks
    <2>1. rules.key \in RuleNames \cup {None, NewRule}
      BY <1>1 DEF Editors
    <2> QED BY <1>1, <2>1, RequestTyped DEF Refresh, IInv
  <1>3. asks' = asks \cup {a} /\ UNCHANGED <<conn, sel, broker>>
    BY DEF Refresh
  <1>4. a.cmd = "load" /\ a.at = <<conn, sel>>
    BY DEF Request
  <1>5. /\ rules' \in Editors /\ rules'.of = rules.of
        /\ rules'.key = rules.key /\ rules'.draft = rules.draft
    BY <1>1 DEF Refresh, Editors
  <1>6. RuleTypes'
    BY <1>2, <1>3, <1>5 DEF RuleTypes, EditorType, AskType, BrokerType, IInv, Types
  <1>7. EditorPlace' /\ RulesOfSelection'
    BY <1>1, <1>3, <1>5 DEF IInv, EditorPlace, RulesOfSelection
  <1>8. DraftInv'
    BY <1>1, <1>5 DEF IInv, DraftInv
  <1>9. AskInv' /\ DraftOfRule'
    BY <1>3, <1>4, <1>5, EditorAssumption DEF IInv, AskInv, DraftOfRule
  <1> QED BY <1>6, <1>7, <1>8, <1>9 DEF RuleInv

\* Steps that only change what is selected and drafted: the draft follows.
LEMMA DraftStep ==
    ASSUME IInv, UNCHANGED <<conn, sel, asks, broker>>, rules # None,
           NEW key \in RuleNames \cup {None, NewRule}, NEW draft \in Drafts,
           rules' = [rules EXCEPT !.key = key, !.draft = draft],
           key \in RuleNames => draft = DraftOf(key),
           key \notin RuleNames => draft.from = None,
           key = None => draft = NoDraft
    PROVE  RuleTypes' /\ RuleInv'
  <1>1. rules \in Editors
    BY DEF IInv, Types, EditorType
  <1>2. /\ rules' \in Editors /\ rules'.of = rules.of
        /\ rules'.key = key /\ rules'.draft = draft
    BY <1>1 DEF Editors
  <1>3. RuleTypes'
    BY <1>2 DEF RuleTypes, EditorType, AskType, BrokerType, IInv, Types
  <1>4. EditorPlace' /\ RulesOfSelection'
    BY <1>2 DEF IInv, EditorPlace, RulesOfSelection
  <1>5. DraftInv'
    BY <1>2 DEF DraftInv
  <1>6. AskInv' /\ DraftOfRule'
    BY <1>2, EditorAssumption DEF IInv, AskInv, DraftOfRule
  <1> QED BY <1>3, <1>4, <1>5, <1>6 DEF RuleInv

\* A new rule starts empty.
LEMMA OnNewRuleInv ==
    ASSUME IInv, OnNewRule
    PROVE  RuleTypes' /\ RuleInv'
  <1>1. NoDraft \in Drafts /\ NoDraft.from = None
    BY DEF NoDraft, Drafts
  <1> QED BY <1>1, DialogsAssumption, DraftStep DEF OnNewRule

\* A rule that is selected is the one that is drafted.
LEMMA OnSelectRuleInv ==
    ASSUME IInv, NEW r \in RuleNames, OnSelectRule(r)
    PROVE  RuleTypes' /\ RuleInv'
  <1>1. DraftFor(r) = DraftOf(r) /\ DraftFor(r) \in Drafts /\ r # None
    BY DraftForKey, DialogsAssumption
  <1> QED BY <1>1, DraftStep DEF OnSelectRule, EditorShown, Synced

\* A name is typed only for a new rule.
LEMMA TypeRuleNameInv ==
    ASSUME IInv, NEW r \in RuleNames, TypeRuleName(r)
    PROVE  RuleTypes' /\ RuleInv'
  <1> DEFINE draft == [rules.draft EXCEPT !.name = r]
  <1>1. rules \in Editors /\ rules # None /\ rules.key = NewRule
    BY DEF TypeRuleName, EditorShown, IInv, Types, EditorType
  <1>2. rules.draft \in Drafts /\ rules.draft.from = None
    BY <1>1, DialogsAssumption DEF Editors, IInv, DraftInv
  <1>3. draft \in Drafts /\ draft.from = None
    BY <1>2 DEF Drafts
  <1>4. rules' = [rules EXCEPT !.key = NewRule, !.draft = draft]
    BY <1>1 DEF TypeRuleName, Editors
  <1>5. NewRule # None /\ NewRule \notin RuleNames
    BY DialogsAssumption
  <1>6. UNCHANGED <<conn, sel, asks, broker>>
    BY DEF TypeRuleName
  <1> QED BY <1>1, <1>3, <1>4, <1>5, <1>6, DraftStep


\* A saved rule is the selected one, or a new one.
LEMMA SaveRuleInv ==
    ASSUME IInv, SaveRule
    PROVE  RuleTypes' /\ RuleInv'
  <1> DEFINE cmd == IF rules.key = NewRule THEN "create" ELSE "update"
             a == Request(cmd, rules.draft.name, rules.draft.from, rules.key, "saving")
  <1>1. rules \in Editors /\ rules # None /\ conn # 0 /\ sel \in Subscriptions
    BY DEF SaveRule, EditorShown, IInv, Types, EditorType, EditorPlace
  <1>2. /\ rules.key \in RuleNames \cup {None, NewRule} /\ rules.draft \in Drafts
        /\ rules.draft.name # None
    BY <1>1 DEF Editors, SaveRule
  <1>3. a \in Asks
    <2>1. rules.draft.name \in RuleNames /\ rules.draft.from \in RuleNames \cup {None}
      BY <1>2 DEF Drafts
    <2>2. cmd \in {"load", "create", "update", "delete"}
      OBVIOUS
    <2> QED BY <1>1, <1>2, <2>1, <2>2, RequestTyped DEF SaveRule, IInv
  <1>4. asks' = asks \cup {a} /\ UNCHANGED <<conn, sel, broker>>
    BY DEF SaveRule
  <1>5. /\ a.cmd = cmd /\ a.at = <<conn, sel>> /\ a.rule = rules.draft.name
        /\ a.from = rules.draft.from /\ a.key = rules.key
    BY DEF Request
  <1>6. a.cmd = "create" => a.from = None
    <2>1. rules.key = NewRule => rules.draft.from = None
      BY <1>1, DialogsAssumption DEF IInv, DraftInv
    <2> QED BY <1>5, <2>1
  <1>7. a.cmd = "update" => a.rule = a.key /\ a.from = a.key
    <2> SUFFICES ASSUME rules.key # NewRule
                 PROVE  rules.draft.name = rules.key /\ rules.draft.from = rules.key
      BY <1>5
    <2>1. rules.key # None
      BY <1>1, <1>2 DEF IInv, DraftInv, NoDraft
    <2>2. rules.draft = DraftOf(rules.key)
      BY <1>1, <1>2, <2>1 DEF IInv, DraftInv
    <2> QED BY <2>2 DEF DraftOf
  <1>8. /\ rules' \in Editors /\ rules'.of = rules.of
        /\ rules'.key = rules.key /\ rules'.draft = rules.draft
    BY <1>1 DEF SaveRule, Editors
  <1>9. RuleTypes'
    BY <1>3, <1>4, <1>8 DEF RuleTypes, EditorType, AskType, BrokerType, IInv, Types
  <1>10. EditorPlace' /\ RulesOfSelection'
    BY <1>1, <1>4, <1>8 DEF IInv, EditorPlace, RulesOfSelection
  <1>11. DraftInv'
    BY <1>1, <1>8 DEF IInv, DraftInv
  <1>12. AskInv'
    <2>1. a.rule \in RuleNames
      BY <1>2, <1>5 DEF Drafts
    <2> QED BY <1>4, <1>5, <1>8, <2>1, EditorAssumption DEF IInv, AskInv
  <1>13. DraftOfRule'
    BY <1>4, <1>6, <1>7 DEF IInv, DraftOfRule
  <1> QED BY <1>9, <1>10, <1>11, <1>12, <1>13 DEF RuleInv

\* Deleting a rule leaves the draft alone.
LEMMA DeleteRuleInv ==
    ASSUME IInv, DeleteRule
    PROVE  RuleTypes' /\ RuleInv'
  <1> DEFINE a == Request("delete", rules.key, None, rules.key, "deleting")
  <1>1. rules \in Editors /\ rules # None /\ conn # 0 /\ sel \in Subscriptions
    BY DEF DeleteRule, EditorShown, IInv, Types, EditorType, EditorPlace
  <1>2. a \in Asks
    <2>1. rules.key \in RuleNames \cup {None, NewRule}
      BY <1>1 DEF Editors
    <2> QED BY <1>1, <2>1, RequestTyped DEF DeleteRule, IInv
  <1>3. asks' = asks \cup {a} /\ UNCHANGED <<conn, sel, broker>>
    BY DEF DeleteRule
  <1>4. a.cmd = "delete" /\ a.at = <<conn, sel>>
    BY DEF Request
  <1>5. /\ rules' \in Editors /\ rules'.of = rules.of
        /\ rules'.key = rules.key /\ rules'.draft = rules.draft
    BY <1>1 DEF DeleteRule, Editors
  <1>6. RuleTypes'
    BY <1>2, <1>3, <1>5 DEF RuleTypes, EditorType, AskType, BrokerType, IInv, Types
  <1>7. EditorPlace' /\ RulesOfSelection'
    BY <1>1, <1>3, <1>5 DEF IInv, EditorPlace, RulesOfSelection
  <1>8. DraftInv'
    BY <1>1, <1>5 DEF IInv, DraftInv
  <1>9. AskInv' /\ DraftOfRule'
    BY <1>3, <1>4, <1>5, EditorAssumption DEF IInv, AskInv, DraftOfRule
  <1> QED BY <1>6, <1>7, <1>8, <1>9 DEF RuleInv

\* What is left of the calls, with one of them carried on as another that asks
\* for the same.
LEMMA CarriedOn ==
    ASSUME IInv, NEW a \in asks, NEW b \in Asks, asks' \subseteq (asks \ {a}) \cup {b},
           b.at = a.at, b.shown = a.shown,
           b.cmd = "load" \/ (b.cmd = a.cmd /\ b.rule = a.rule /\ b.from = a.from /\ b.key = a.key),
           UNCHANGED <<conn, sel>>, rules # None => rules' # None
    PROVE  AskType' /\ AskInv' /\ DraftOfRule'
  <1>1. AskType'
    BY DEF IInv, Types, AskType
  <1>2. (b.shown => rules # None /\ b.at = <<conn, sel>>) /\ (b.cmd = "create" => b.rule \in RuleNames)
    BY DEF IInv, AskInv
  <1>3. AskInv'
    BY <1>2 DEF IInv, AskInv
  <1>4. /\ b.cmd = "update" => b.rule = b.key /\ b.from = b.key
        /\ b.cmd = "create" => b.from = None
    BY DEF IInv, DraftOfRule
  <1>5. DraftOfRule'
    BY <1>4 DEF IInv, DraftOfRule
  <1> QED BY <1>1, <1>3, <1>5

\* The broker's effect does not touch the editor.
LEMMA RuleAtBrokerInv ==
    ASSUME IInv, NEW a \in asks, RuleAtBroker(a)
    PROVE  RuleTypes' /\ RuleInv'
  <1> DEFINE b == [a EXCEPT !.done = TRUE, !.ok = TRUE, !.found = Held(a)]
  <1>1. a \in Asks /\ broker \in [Places -> SUBSET RuleNames]
    BY DEF IInv, Types, AskType, BrokerType
  <1>2. a.at \in Places /\ broker[a.at] \subseteq RuleNames
    BY <1>1 DEF Asks
  <1>3. Held(a) \subseteq RuleNames
    <2>1. a.cmd = "create" => a.rule \in RuleNames
      BY DEF IInv, AskInv
    <2> QED BY <1>2, <2>1 DEF Held
  <1>4. b \in Asks
    BY <1>1, <1>3 DEF Asks
  <1>5. b.at = a.at /\ b.shown = a.shown /\ b.cmd = a.cmd /\ b.rule = a.rule /\ b.from = a.from
        /\ b.key = a.key
    BY <1>1 DEF Asks
  <1>6. asks' \subseteq (asks \ {a}) \cup {b} /\ UNCHANGED <<conn, sel, rules>>
    BY DEF RuleAtBroker
  <1>7. AskType' /\ AskInv' /\ DraftOfRule'
    BY <1>4, <1>5, <1>6, CarriedOn
  <1>8. EditorType' /\ BrokerType'
    BY <1>1, <1>3, <1>6 DEF RuleAtBroker, EditorType, BrokerType, IInv, Types
  <1>9. EditorPlace' /\ RulesOfSelection' /\ DraftInv'
    BY <1>6 DEF IInv, EditorPlace, RulesOfSelection, DraftInv
  <1> QED BY <1>7, <1>8, <1>9 DEF RuleTypes, RuleInv

\* Neither does a refusal.
LEMMA RuleRefusedInv ==
    ASSUME IInv, NEW a \in asks, RuleRefused(a)
    PROVE  RuleTypes' /\ RuleInv'
  <1> DEFINE b == [a EXCEPT !.done = TRUE]
  <1>1. a \in Asks
    BY DEF IInv, Types, AskType
  <1>2. b \in Asks
    BY <1>1 DEF Asks
  <1>3. b.at = a.at /\ b.shown = a.shown /\ b.cmd = a.cmd /\ b.rule = a.rule /\ b.from = a.from
        /\ b.key = a.key
    BY <1>1 DEF Asks
  <1>4. asks' \subseteq (asks \ {a}) \cup {b} /\ UNCHANGED <<conn, sel, rules, broker>>
    BY DEF RuleRefused
  <1>5. AskType' /\ AskInv' /\ DraftOfRule'
    BY <1>2, <1>3, <1>4, CarriedOn
  <1>6. EditorType' /\ BrokerType'
    BY <1>4 DEF EditorType, BrokerType, IInv, Types
  <1>7. EditorPlace' /\ RulesOfSelection' /\ DraftInv'
    BY <1>4 DEF IInv, EditorPlace, RulesOfSelection, DraftInv
  <1> QED BY <1>5, <1>6, <1>7 DEF RuleTypes, RuleInv

\* Clearing a flag leaves the rest of the editor as it is.
LEMMA ClearedEditor ==
    ASSUME NEW editor \in Editors, NEW a \in Asks
    PROVE  /\ Cleared(editor, a) \in Editors
           /\ Cleared(editor, a).of = editor.of /\ Cleared(editor, a).key = editor.key
           /\ Cleared(editor, a).draft = editor.draft
  BY DEF Cleared, Editors

\* What an answered load leaves of the editor.
LEMMA LoadedEditor ==
    ASSUME IInv, NEW a \in asks, a.shown, LoadAnswered(a)
    PROVE  /\ rules' \in Editors
           /\ rules'.of \in {a.at, None}
           /\ rules'.key \in RuleNames => rules'.draft = DraftOf(rules'.key)
           /\ rules'.key \notin RuleNames => rules'.draft = NoDraft
  <1>1. a \in Asks /\ rules \in Editors
    BY DEF IInv, Types, AskType, EditorType, AskInv
  <1>2. CASE a.ok
    <2> DEFINE key == NextKey(a)
               editor == [rules EXCEPT !.of = a.at, !.list = a.found, !.key = key,
                                       !.draft = DraftFor(key), !.loading = FALSE]
    <2>1. key \in RuleNames \cup {None, NewRule}
      BY <1>1, NextKeyTyped
    <2>2. /\ DraftFor(key) \in Drafts
          /\ key \in RuleNames => DraftFor(key) = DraftOf(key)
          /\ key \notin RuleNames => DraftFor(key) = NoDraft
      BY <2>1, DraftForKey
    <2>3. a.at \in Places /\ a.found \subseteq RuleNames
      BY <1>1 DEF Asks
    <2> HIDE DEF key
    <2>4. editor \in Editors /\ editor.of = a.at /\ editor.key = key /\ editor.draft = DraftFor(key)
      BY <1>1, <2>1, <2>2, <2>3 DEF Editors
    <2>5. rules' = Cleared(editor, a)
      BY <1>2 DEF LoadAnswered, key
    <2> HIDE DEF editor
    <2>6. /\ rules' \in Editors /\ rules'.of = a.at
          /\ rules'.key = key /\ rules'.draft = DraftFor(key)
      BY <1>1, <2>4, <2>5, ClearedEditor
    <2> QED BY <2>2, <2>6
  <1>3. CASE ~a.ok
    <2> DEFINE editor == [rules EXCEPT !.of = None, !.list = {}, !.key = None,
                                       !.draft = NoDraft, !.loading = FALSE, !.failed = TRUE]
    <2>1. NoDraft \in Drafts /\ None \notin RuleNames
      BY DialogsAssumption DEF NoDraft, Drafts
    <2>2. editor \in Editors /\ editor.of = None /\ editor.key = None /\ editor.draft = NoDraft
      BY <1>1, <2>1 DEF Editors
    <2>3. rules' = Cleared(editor, a)
      BY <1>3 DEF LoadAnswered
    <2> HIDE DEF editor
    <2>4. /\ rules' \in Editors /\ rules'.of = None
          /\ rules'.key = None /\ rules'.draft = NoDraft
      BY <1>1, <2>2, <2>3, ClearedEditor
    <2> QED BY <2>1, <2>4
  <1> QED BY <1>2, <1>3

\* The rules that were loaded are those of the place the editor is open on, and
\* the draft is made from the one selected.
LEMMA LoadAnsweredInv ==
    ASSUME IInv, NEW a \in asks, LoadAnswered(a)
    PROVE  RuleTypes' /\ RuleInv'
  <1>1. a \in Asks /\ UNCHANGED <<conn, sel, broker>> /\ asks' \subseteq (asks \ {a}) \cup {a}
    BY DEF IInv, Types, AskType, LoadAnswered
  <1>2. BrokerType'
    BY <1>1 DEF BrokerType, IInv, Types
  <1>3. CASE ~a.shown
    <2>1. rules' = rules
      BY <1>3 DEF LoadAnswered
    <2>2. AskType' /\ AskInv' /\ DraftOfRule'
      BY <1>1, <2>1, CarriedOn
    <2>3. EditorType' /\ EditorPlace' /\ RulesOfSelection' /\ DraftInv'
      BY <1>1, <2>1 DEF IInv, Types, EditorType, EditorPlace, RulesOfSelection, DraftInv
    <2> QED BY <1>2, <2>2, <2>3 DEF RuleTypes, RuleInv
  <1>4. CASE a.shown
    <2>1. rules # None /\ a.at = <<conn, sel>>
      BY <1>4 DEF IInv, AskInv
    <2>2. /\ rules' \in Editors /\ rules'.of \in {a.at, None}
          /\ rules'.key \in RuleNames => rules'.draft = DraftOf(rules'.key)
          /\ rules'.key \notin RuleNames => rules'.draft = NoDraft
      BY <1>4, LoadedEditor
    <2>3. AskType' /\ AskInv' /\ DraftOfRule'
      BY <1>1, <2>2, EditorAssumption, CarriedOn
    <2>4. EditorType' /\ EditorPlace' /\ RulesOfSelection'
      BY <1>1, <2>1, <2>2 DEF IInv, EditorType, EditorPlace, RulesOfSelection
    <2>5. DraftInv'
      BY <2>2, DialogsAssumption DEF DraftInv, NoDraft
    <2> QED BY <1>2, <2>3, <2>4, <2>5 DEF RuleTypes, RuleInv
  <1> QED BY <1>3, <1>4

\* A change that was answered goes on as a load, or ends.
LEMMA ChangeAnsweredInv ==
    ASSUME IInv, NEW a \in asks, ChangeAnswered(a)
    PROVE  RuleTypes' /\ RuleInv'
  <1>1. a \in Asks /\ UNCHANGED <<conn, sel, broker>>
    BY DEF IInv, Types, AskType, ChangeAnswered
  <1>2. BrokerType'
    BY <1>1 DEF BrokerType, IInv, Types
  <1>3. AskType' /\ (\A b \in asks' : b \in asks \/ (b.cmd = "load" /\ b.at = a.at /\ b.shown = a.shown))
    <2> DEFINE b == [a EXCEPT !.cmd = "load", !.rule = IF a.cmd = "delete" THEN None ELSE @,
                              !.from = None, !.key = None, !.done = FALSE, !.ok = FALSE,
                              !.found = {}]
    <2>1. b \in Asks /\ b.cmd = "load" /\ b.at = a.at /\ b.shown = a.shown
      BY <1>1 DEF Asks
    <2>2. asks' \subseteq (asks \ {a}) \cup {b}
      BY DEF ChangeAnswered
    <2> HIDE DEF b
    <2>3. AskType'
      BY <2>1, <2>2 DEF IInv, Types, AskType
    <2>4. ASSUME NEW d \in asks'
          PROVE  d \in asks \/ (d.cmd = "load" /\ d.at = a.at /\ d.shown = a.shown)
      <3>1. d \in asks \/ d = b
        BY <2>2
      <3> QED BY <2>1, <3>1
    <2> QED BY <2>3, <2>4
  <1>4. \/ rules' = rules
        \/ /\ rules # None /\ rules' \in Editors /\ rules'.of = rules.of
           /\ rules'.key = rules.key /\ rules'.draft = rules.draft
    <2>1. CASE ~a.shown
      BY <2>1 DEF ChangeAnswered
    <2>2. CASE a.shown
      <3>1. rules # None /\ rules \in Editors
        BY <2>2 DEF IInv, Types, EditorType, AskInv
      <3>2. CASE a.ok
        <4>1. rules' = [rules EXCEPT !.loading = TRUE, !.failed = FALSE]
          BY <2>2, <3>2 DEF ChangeAnswered
        <4> QED BY <3>1, <4>1 DEF Editors
      <3>3. CASE ~a.ok
        <4>1. rules' = Cleared(rules, a)
          BY <2>2, <3>3 DEF ChangeAnswered
        <4> QED BY <1>1, <3>1, <4>1, ClearedEditor
      <3> QED BY <3>2, <3>3
    <2> QED BY <2>1, <2>2
  <1>5. rules # None => rules' # None
    BY <1>4, EditorAssumption
  <1>6. AskInv' /\ DraftOfRule'
    BY <1>1, <1>3, <1>5 DEF IInv, AskInv, DraftOfRule
  <1>7. EditorType'
    BY <1>4 DEF IInv, Types, EditorType
  <1>8. EditorPlace' /\ RulesOfSelection'
    BY <1>1, <1>4 DEF IInv, EditorPlace, RulesOfSelection
  <1>9. DraftInv'
    BY <1>4 DEF IInv, DraftInv
  <1> QED BY <1>2, <1>3, <1>6, <1>7, <1>8, <1>9 DEF RuleTypes, RuleInv

-----------------------------------------------------------------------------
(* The invariant of the whole.                                             *)

\* It holds at the start.
LEMMA InitInv == Init => IInv
  <1> SUFFICES ASSUME Init PROVE IInv
    OBVIOUS
  <1>1. PlaceType /\ RequestType
    BY DialogsAssumption DEF Init, ViewInit, PlaceType, RequestType
  <1>2. PropType
    BY DEF Init, PropType
  <1>3. SendType /\ EditorType /\ AskType
    BY DEF Init, SendType, EditorType, AskType
  <1>4. BrokerType
    BY DialogsAssumption DEF Init, BrokerType
  <1>5. PropInv
    BY DEF Init, PropInv, FetchInv, ShownInv, PropertiesOfSelection
  <1>6. SessionNamed
    BY DEF Init, SessionNamed
  <1>7. EditorPlace /\ AskInv /\ RulesOfSelection /\ DraftInv /\ DraftOfRule
    BY DEF Init, EditorPlace, AskInv, RulesOfSelection, DraftInv, DraftOfRule
  <1> QED BY <1>1, <1>2, <1>3, <1>4, <1>5, <1>6, <1>7 DEF IInv, Types

\* The three parts of the window are about different variables.
LEMMA PropsKept ==
    ASSUME IInv, UNCHANGED <<conn, sel, propVars>>
    PROVE  PropType' /\ PropInv'
  BY DEF propVars, IInv, Types, PropType, PropInv, FetchInv, ShownInv, PropertiesOfSelection

LEMMA SendsKept ==
    ASSUME IInv, UNCHANGED sendVars
    PROVE  SendType' /\ SessionNamed'
  BY DEF sendVars, IInv, Types, SendType, SessionNamed

LEMMA RulesKept ==
    ASSUME IInv, UNCHANGED <<conn, sel, ruleVars>>
    PROVE  RuleTypes' /\ RuleInv'
  BY DEF ruleVars, IInv, Types, RuleTypes, EditorType, AskType, BrokerType, RuleInv, EditorPlace,
         AskInv, RulesOfSelection, DraftInv, DraftOfRule

LEMMA PlaceKept ==
    ASSUME IInv, UNCHANGED <<listed, conn, sel>>
    PROVE  PlaceType'
  BY DEF IInv, Types, PlaceType

LEMMA RequestsKept ==
    ASSUME IInv, UNCHANGED requests
    PROVE  RequestType'
  BY DEF IInv, Types, RequestType


\* It is kept by every step of the properties, the selection and the connection.
LEMMA PlaceStepInv ==
    ASSUME IInv,
           \/ Retry \/ EntityGone
           \/ \E f \in fetches, ok \in BOOLEAN : FetchAnswered(f, ok)
           \/ \E name \in Names : Select(name)
           \/ \E ids \in SUBSET (1..MaxIds) :
               SetConnections(ids) \/ \E id \in 0..MaxIds : SetActive(ids, id)
    PROVE  IInv'
  <1>t. Types /\ conn \in 0..MaxIds /\ sel \in Names \cup {None}
    BY ConnInRange DEF IInv, Types, PlaceType
  <1>1. ASSUME Retry PROVE IInv'
    <2>1. PropType' /\ PropInv'
      BY <1>1, <1>t, RefetchTypes, RefetchInv DEF Retry
    <2>2. PlaceType' /\ SendType' /\ SessionNamed' /\ RuleTypes' /\ RuleInv'
      BY <1>1, PlaceKept, SendsKept, RulesKept DEF Retry
    <2>3. RequestType'
      BY <1>1, <1>t, Asking DEF Retry
    <2> QED BY <2>1, <2>2, <2>3 DEF IInv, Types, RuleTypes, RuleInv
  <1>2. ASSUME EntityGone PROVE IInv'
    <2>1. PropType' /\ PropInv'
      BY <1>2, <1>t, RefetchTypes, RefetchInv DEF EntityGone
    <2>2. SendType' /\ SessionNamed' /\ RequestType'
      BY <1>2, SendsKept, RequestsKept DEF EntityGone
    <2>3. EditorType' /\ AskType' /\ RuleInv'
      BY <1>2, <1>t, ClosedTypes, ClosedInv DEF EntityGone
    <2>4. PlaceType' /\ BrokerType'
      BY <1>2 DEF EntityGone, IInv, Types, PlaceType, BrokerType
    <2> QED BY <2>1, <2>2, <2>3, <2>4 DEF IInv, Types, RuleInv
  <1>3. ASSUME NEW f \in fetches, NEW ok \in BOOLEAN, FetchAnswered(f, ok) PROVE IInv'
    <2>1. PropType' /\ PropInv'
      BY <1>3, FetchAnsweredInv
    <2>2. PlaceType' /\ SendType' /\ SessionNamed' /\ RuleTypes' /\ RuleInv' /\ RequestType'
      BY <1>3, PlaceKept, SendsKept, RulesKept, RequestsKept DEF FetchAnswered
    <2> QED BY <2>1, <2>2 DEF IInv, Types, RuleTypes, RuleInv
  <1>4. ASSUME NEW name \in Names, Select(name) PROVE IInv'
    <2>1. PropType' /\ PropInv'
      BY <1>4, <1>t, RefetchTypes, RefetchInv DEF Select
    <2>2. SendType' /\ SessionNamed'
      BY <1>4, SendsKept DEF Select
    <2>3. RequestType'
      BY <1>4, <1>t, Asking DEF Select
    <2>4. EditorType' /\ AskType' /\ RuleInv'
      BY <1>4, <1>t, ClosedTypes, ClosedInv DEF Select
    <2>5. PlaceType' /\ BrokerType'
      BY <1>4 DEF Select, IInv, Types, PlaceType, BrokerType
    <2> QED BY <2>1, <2>2, <2>3, <2>4, <2>5 DEF IInv, Types, RuleInv
  <1>5. ASSUME NEW ids \in SUBSET (1..MaxIds), SetConnections(ids) PROVE IInv'
    <2>1. PropType' /\ PropInv' /\ SendType' /\ SessionNamed' /\ RuleTypes' /\ RuleInv'
          /\ RequestType'
      BY <1>5, PropsKept, SendsKept, RulesKept, RequestsKept DEF SetConnections, Relist
    <2>2. PlaceType'
      BY <1>5 DEF SetConnections, Relist, IInv, Types, PlaceType
    <2> QED BY <2>1, <2>2 DEF IInv, Types, RuleTypes, RuleInv
  <1>6. ASSUME NEW ids \in SUBSET (1..MaxIds), NEW id \in 0..MaxIds, SetActive(ids, id) PROVE IInv'
    <2>1. PropType' /\ PropInv'
      BY <1>6, <1>t, RefetchTypes, RefetchInv DEF SetActive, Switch
    <2>2. SendType' /\ SessionNamed' /\ RequestType'
      BY <1>6, SendsKept, RequestsKept DEF SetActive
    <2>3. EditorType' /\ AskType' /\ RuleInv'
      BY <1>6, <1>t, ClosedTypes, ClosedInv DEF SetActive
    <2>4. PlaceType' /\ BrokerType'
      BY <1>6 DEF SetActive, Switch, IInv, Types, PlaceType, BrokerType
    <2> QED BY <2>1, <2>2, <2>3, <2>4 DEF IInv, Types, RuleInv
  <1> QED BY <1>1, <1>2, <1>3, <1>4, <1>5, <1>6

\* It is kept by every step of the send window.
LEMMA SendStepInv ==
    ASSUME IInv, SendNext
    PROVE  IInv'
  <1>1. UNCHANGED <<listed, conn, sel, propVars, ruleVars>>
    BY DEF SendNext, OpenSend, CloseSend, Submit, Checked, SendEnds
  <1>2. PlaceType' /\ PropType' /\ PropInv' /\ RuleTypes' /\ RuleInv'
    BY <1>1, PlaceKept, PropsKept, RulesKept
  <1>3. SendType' /\ SessionNamed' /\ RequestType'
    <2>1. ASSUME OpenSend PROVE SendType' /\ SessionNamed' /\ RequestType'
      BY <2>1, RequestsKept DEF OpenSend, IInv, Types, SendType, SessionNamed
    <2>2. ASSUME CloseSend PROVE SendType' /\ SessionNamed' /\ RequestType'
      BY <2>2, CloseSendInv, RequestsKept DEF CloseSend
    <2>3. ASSUME NEW f \in Fields, Submit(f[1], f[2])
          PROVE  SendType' /\ SessionNamed' /\ RequestType'
      <3>1. f[1] \in Names /\ f[2] \in BOOLEAN
        BY DEF Fields
      <3> QED BY <2>3, <3>1, SubmitInv
    <2>4. ASSUME NEW s \in sends, Checked(s) PROVE SendType' /\ SessionNamed' /\ RequestType'
      BY <2>4, CheckedInv, RequestsKept DEF Checked
    <2>5. ASSUME NEW s \in sends, SendEnds(s) PROVE SendType' /\ SessionNamed' /\ RequestType'
      BY <2>5, RequestsKept DEF SendEnds, IInv, Types, SendType, SessionNamed
    <2> QED BY <2>1, <2>2, <2>3, <2>4, <2>5 DEF SendNext
  <1> QED BY <1>2, <1>3 DEF IInv, Types, RuleTypes, RuleInv

\* It is kept by every step of the rules editor.
LEMMA RulesStepInv ==
    ASSUME IInv, RulesNext
    PROVE  IInv'
  <1>1. UNCHANGED <<listed, conn, sel, propVars, sendVars>>
    BY DEF RulesNext, OpenRules, CloseRules, Refresh, OnNewRule, OnSelectRule, TypeRuleName,
           SaveRule, DeleteRule, RuleAtBroker, RuleRefused, LoadAnswered, ChangeAnswered
  <1>2. PlaceType' /\ PropType' /\ PropInv' /\ SendType' /\ SessionNamed'
    BY <1>1, PlaceKept, PropsKept, SendsKept
  <1>3. RequestType'
    <2>1. Ask \/ UNCHANGED requests
      BY DEF RulesNext, OpenRules, CloseRules, Refresh, OnNewRule, OnSelectRule, TypeRuleName,
             SaveRule, DeleteRule, RuleAtBroker, RuleRefused, LoadAnswered, ChangeAnswered
    <2> QED BY <2>1, Asking, RequestsKept DEF IInv
  <1>4. RuleTypes' /\ RuleInv'
    <2>1. ASSUME CloseRules PROVE RuleTypes' /\ RuleInv'
      <3>1. RulesClosed /\ UNCHANGED broker
        BY <2>1 DEF CloseRules, RulesClosed
      <3> QED BY <3>1, ClosedTypes, ClosedInv DEF RuleTypes, BrokerType, IInv, Types
    <2>2. ASSUME NEW r \in RuleNames, OnSelectRule(r) \/ TypeRuleName(r)
          PROVE  RuleTypes' /\ RuleInv'
      BY <2>2, OnSelectRuleInv, TypeRuleNameInv
    <2>3. ASSUME NEW a \in asks,
                 RuleAtBroker(a) \/ RuleRefused(a) \/ LoadAnswered(a) \/ ChangeAnswered(a)
          PROVE  RuleTypes' /\ RuleInv'
      BY <2>3, RuleAtBrokerInv, RuleRefusedInv, LoadAnsweredInv, ChangeAnsweredInv
    <2> QED BY <2>1, <2>2, <2>3, OpenRulesInv, RefreshInv, OnNewRuleInv, SaveRuleInv,
               DeleteRuleInv DEF RulesNext
  <1> QED BY <1>2, <1>3, <1>4 DEF IInv, Types, RuleTypes, RuleInv

\* Every reachable state satisfies it.
LEMMA Invariant == Spec => []IInv
  <1>1. IInv /\ [Next]_vars => IInv'
    <2> SUFFICES ASSUME IInv, [Next]_vars PROVE IInv'
      OBVIOUS
    <2>1. CASE UNCHANGED vars
      <3>1. UNCHANGED <<listed, conn, sel, propVars, sendVars, ruleVars, requests>>
        BY <2>1 DEF vars
      <3> QED BY <3>1, PlaceKept, PropsKept, SendsKept, RulesKept, RequestsKept
              DEF IInv, Types, RuleTypes, RuleInv
    <2>2. CASE Next
      BY <2>2, PlaceStepInv, SendStepInv, RulesStepInv DEF Next
    <2> QED BY <2>1, <2>2
  <1> QED BY <1>1, InitInv, PTL DEF Spec

-----------------------------------------------------------------------------
(* The theorems.                                                           *)

\* Every reachable state is well typed.
THEOREM TypeCorrect == Spec => []TypeOK
  <1>1. IInv => TypeOK
    BY TypesAreTypeOK DEF IInv
  <1> QED BY <1>1, Invariant, PTL

\* A message goes to a queue that requires sessions only with a session, for
\* any entities, connections and requests (SendMessageModal.tsx:184-214).
THEOREM SessionsAreNamed == Spec => []SessionNamed
  <1>1. IInv => SessionNamed
    BY DEF IInv
  <1> QED BY <1>1, Invariant, PTL

\* The properties on display are those of the selected entity of the
\* connection in use, in whatever order answers arrive.
THEOREM PropertiesFollowSelection == Spec => []PropertiesOfSelection
  <1>1. IInv => PropertiesOfSelection
    BY DEF IInv, PropInv
  <1> QED BY <1>1, Invariant, PTL

\* The rules on display are those of the selected subscription, for any number
\* of answers under way: the editor is closed with every change.
THEOREM RulesFollowSelection == Spec => []RulesOfSelection
  <1>1. IInv => RulesOfSelection
    BY DEF IInv
  <1> QED BY <1>1, Invariant, PTL

\* A rule is overwritten only with a draft made from it.
THEOREM DraftsAreOwn == Spec => []DraftOfRule
  <1>1. IInv => DraftOfRule
    BY DEF IInv
  <1> QED BY <1>1, Invariant, PTL

=============================================================================
