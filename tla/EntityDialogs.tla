--------------------------- MODULE EntityDialogs ---------------------------
(***************************************************************************)
(* The views of the selected entity, and the connections beneath them: its *)
(* properties (src/hooks/useEntityProperties.ts), the window that sends a  *)
(* message (src/components/Explorer/SendMessageModal.tsx) and the editor   *)
(* of a subscription's rules (SubscriptionRulesModal.tsx).  Send and Rules *)
(* cover the window without keeping the focus, so the selection and the    *)
(* connection may change beneath them.                                     *)
(*                                                                         *)
(* Connections appear as ActiveConnection promises them.  A queue, or a    *)
(* subscription with its topic, has the same name in every namespace.      *)
(***************************************************************************)
EXTENDS ActiveConnection

CONSTANTS
    Queues, Subscriptions,
    Requires,   \* the queues that require sessions: pairs of connection and queue
    RuleNames,
    Default,    \* the rule named $Default
    FirstRules, \* the rules of each subscription at the start
    MaxRequests, \* bound of the model: requests made
    None

NewRule == "new" \* NEW_RULE_KEY

Names == Queues \cup Subscriptions
Places == (1..MaxIds) \X Subscriptions

ASSUME DialogsAssumption ==
    /\ MaxIds \in Nat
    /\ Queues \cap Subscriptions = {}
    /\ Requires \subseteq (1..MaxIds) \X Queues
    /\ FirstRules \subseteq RuleNames
    /\ MaxRequests \in Nat
    /\ None \notin Names \cup RuleNames \cup {NewRule}
    /\ NewRule \notin RuleNames

VARIABLES
    sel,        \* explorerSelection
    props,      \* entityProperties with its loading and error states
    fetches,    \* the calls of the properties hook not yet answered
    send,       \* isSendModalOpen
    sends,      \* its calls in flight
    rules,      \* the state of the rules editor
    asks,       \* its calls in flight
    broker,     \* the rules of each subscription
    requests    \* how many requests were made

propVars == <<props, fetches>>
sendVars == <<send, sends>>
ruleVars == <<rules, asks, broker>>
vars == <<listed, conn, sel, propVars, sendVars, ruleVars, requests>>

\* Properties displayed: whose they are, and what they say about sessions.
Shown == [status : {"shown"}, conn : 1..MaxIds, name : Names, session : BOOLEAN]
Fetches == [conn : 1..MaxIds, name : Names, stale : BOOLEAN]

\* A message on its way: still being validated, or sent.
Sends == [conn : 1..MaxIds, kind : {"queue", "topic"}, name : Names, session : BOOLEAN,
          phase : {"checking", "sending"}, shown : BOOLEAN]

\* A draft and the rule it was built from.
Drafts == [name : RuleNames \cup {None}, from : RuleNames \cup {None}]
Editors == [of : Places \cup {None}, list : SUBSET RuleNames, key : RuleNames \cup {None, NewRule},
            draft : Drafts, loading : BOOLEAN, failed : BOOLEAN,
            saving : BOOLEAN, deleting : BOOLEAN]

ASSUME EditorAssumption == None \notin Editors

\* A call of the editor: the rule it is about, the draft it sends, what was
\* selected; for a load, the rule to select and what it ends.
Asks == [n : 1..MaxRequests, cmd : {"load", "create", "update", "delete"}, at : Places,
         rule : RuleNames \cup {None, NewRule}, from : RuleNames \cup {None},
         key : RuleNames \cup {None, NewRule}, ends : {"nothing", "saving", "deleting"},
         shown : BOOLEAN, done : BOOLEAN, ok : BOOLEAN, found : SUBSET RuleNames]

TypeOK ==
    /\ listed \subseteq 1..MaxIds /\ conn \in listed \cup {0}
    /\ sel \in Names \cup {None}
    /\ props \in Shown \cup [status : {"none", "loading", "error"}]
    /\ fetches \subseteq Fetches
    /\ send \in BOOLEAN
    /\ sends \subseteq Sends
    /\ rules \in Editors \cup {None}
    /\ asks \subseteq Asks
    /\ broker \in [Places -> SUBSET RuleNames]
    /\ requests \in 0..MaxRequests

Init ==
    /\ ViewInit
    /\ sel = None
    /\ props = [status |-> "none"] /\ fetches = {}
    /\ send = FALSE /\ sends = {}
    /\ rules = None /\ asks = {}
    /\ broker = [p \in Places |-> FirstRules]
    /\ requests = 0

\* One more request is made.
Ask == requests < MaxRequests /\ requests' = requests + 1

-----------------------------------------------------------------------------
(* Properties of the selected entity.                                      *)

Stale(fs) == {[f EXCEPT !.stale = TRUE] : f \in fs}

\* The effect that follows every change of connection or selection.
Refetch(c, s) ==
    IF c = 0 \/ s = None
    THEN props' = [status |-> "none"] /\ fetches' = Stale(fetches)
    ELSE /\ props' = [status |-> "loading"]
         /\ fetches' = Stale(fetches) \cup {[conn |-> c, name |-> s, stale |-> FALSE]}

Retry ==
    /\ props.status = "error" /\ Ask
    /\ Refetch(conn, sel)
    /\ UNCHANGED <<listed, conn, sel, sendVars, ruleVars>>

\* Mutant: every answer counts as the latest.
NeverStale(f) == FALSE

IsStale(f) == f.stale

FetchAnswered(f, ok) ==
    /\ f \in fetches
    /\ fetches' = fetches \ {f}
    /\ props' = IF IsStale(f) THEN props
                ELSE IF ok THEN [status |-> "shown", conn |-> f.conn, name |-> f.name,
                                 session |-> <<f.conn, f.name>> \in Requires]
                ELSE [status |-> "error"]
    /\ UNCHANGED <<listed, conn, sel, sendVars, ruleVars, requests>>

-----------------------------------------------------------------------------
(* Sending a message.                                                      *)

\* What the window holds when Send is pressed: a name that was typed, came with
\* a template or is that of the selection when the window was opened, and
\* whether there is a session, also from the message that is sent again.
Fields == Names \X BOOLEAN

OpenSend ==
    /\ ~send /\ sel # None /\ send' = TRUE
    /\ UNCHANGED <<listed, conn, sel, propVars, sends, ruleVars, requests>>

CloseSend ==
    /\ send /\ send' = FALSE
    /\ sends' = {[s EXCEPT !.shown = FALSE] : s \in sends}
    /\ UNCHANGED <<listed, conn, sel, propVars, ruleVars, requests>>

\* The kind is that of the selection, whatever name was entered.
TargetKind == IF sel \in Subscriptions THEN "topic" ELSE "queue"

\* Mutant: the properties on display are taken for those of the entered name.
KnowsSelected(name) == props.status = "shown" /\ props.name \in Queues

\* The properties on display are those of the queue with this name.
KnowsQueue(name) == props.status = "shown" /\ props.name \in Queues /\ props.name = name

Submit(name, session) ==
    /\ send /\ conn # 0 /\ \A s \in sends : ~s.shown
    /\ Ask
    /\ LET call(phase) == [conn |-> conn, kind |-> TargetKind, name |-> name,
                           session |-> session, phase |-> phase, shown |-> TRUE]
       IN \/ /\ TargetKind = "topic"
             /\ sends' = sends \cup {call("sending")}
          \/ /\ TargetKind = "queue" /\ KnowsQueue(name)
             /\ props.session => session
             /\ sends' = sends \cup {call("sending")}
          \/ /\ TargetKind = "queue" /\ ~KnowsQueue(name)
             /\ sends' = sends \cup {call("checking")}
    /\ UNCHANGED <<listed, conn, sel, propVars, send, ruleVars>>

\* The properties of the queue are there: the message is sent, or refused
\* because it names no session.
Checked(s) ==
    /\ s \in sends /\ s.phase = "checking" /\ s.name \in Queues
    /\ sends' = IF <<s.conn, s.name>> \in Requires /\ ~s.session THEN sends \ {s}
                ELSE (sends \ {s}) \cup {[s EXCEPT !.phase = "sending"]}
    /\ UNCHANGED <<listed, conn, sel, propVars, send, ruleVars, requests>>

\* The properties cannot be read, or the message was sent, or it failed.
SendEnds(s) ==
    /\ s \in sends /\ sends' = sends \ {s}
    /\ UNCHANGED <<listed, conn, sel, propVars, send, ruleVars, requests>>

-----------------------------------------------------------------------------
(* The rules of a subscription.                                            *)

NoDraft == [name |-> None, from |-> None]
DraftOf(r) == [name |-> r, from |-> r]
DraftFor(key) == IF key \in RuleNames THEN DraftOf(key) ELSE NoDraft

\* A call of the editor that is on display.
Request(cmd, rule, from, key, ends) ==
    [n |-> requests + 1, cmd |-> cmd, at |-> <<conn, sel>>, rule |-> rule,
     from |-> from, key |-> key, ends |-> ends, shown |-> TRUE,
     done |-> FALSE, ok |-> FALSE, found |-> {}]

EditorShown == rules # None /\ ~rules.loading /\ ~rules.failed

OpenRules ==
    /\ rules = None /\ conn # 0 /\ sel \in Subscriptions /\ Ask
    /\ rules' = [of |-> None, list |-> {}, key |-> None, draft |-> NoDraft, loading |-> TRUE,
                 failed |-> FALSE, saving |-> FALSE, deleting |-> FALSE]
    /\ asks' = asks \cup {Request("load", None, None, None, "nothing")}
    /\ UNCHANGED <<listed, conn, sel, propVars, sendVars, broker>>

\* The editor is unmounted: answers no longer reach it.
Orphans == {[a EXCEPT !.shown = FALSE] : a \in asks}

CloseRules ==
    /\ rules # None /\ rules' = None
    /\ asks' = Orphans
    /\ UNCHANGED <<listed, conn, sel, propVars, sendVars, broker, requests>>

\* Always offered, whatever is in flight.
Refresh ==
    /\ rules # None /\ Ask
    /\ rules' = [rules EXCEPT !.loading = TRUE, !.failed = FALSE]
    /\ asks' = asks \cup {Request("load", rules.key, None, None, "nothing")}
    /\ UNCHANGED <<listed, conn, sel, propVars, sendVars, broker>>

OnNewRule ==
    /\ rules # None
    /\ rules' = [rules EXCEPT !.key = NewRule, !.draft = NoDraft]
    /\ UNCHANGED <<listed, conn, sel, propVars, sendVars, asks, broker, requests>>

\* Mutant: the draft stays that of the rule selected before.
DraftKept(r) == rules.draft

Synced(r) == DraftFor(r)

OnSelectRule(r) ==
    /\ EditorShown /\ r \in rules.list
    /\ rules' = [rules EXCEPT !.key = r, !.draft = Synced(r)]
    /\ UNCHANGED <<listed, conn, sel, propVars, sendVars, asks, broker, requests>>

\* Only a new rule can be named.
TypeRuleName(r) ==
    /\ EditorShown /\ rules.key = NewRule
    /\ rules' = [rules EXCEPT !.draft.name = r]
    /\ UNCHANGED <<listed, conn, sel, propVars, sendVars, asks, broker, requests>>

\* A rule needs a name.
SaveRule ==
    /\ EditorShown /\ ~rules.saving /\ rules.draft.name # None /\ Ask
    /\ rules' = [rules EXCEPT !.saving = TRUE]
    /\ asks' = asks \cup {Request(IF rules.key = NewRule THEN "create" ELSE "update",
                                  rules.draft.name, rules.draft.from, rules.key, "saving")}
    /\ UNCHANGED <<listed, conn, sel, propVars, sendVars, broker>>

DeleteRule ==
    /\ EditorShown /\ rules.key \in rules.list \ {Default} /\ ~rules.deleting /\ Ask
    /\ rules' = [rules EXCEPT !.deleting = TRUE]
    /\ asks' = asks \cup {Request("delete", rules.key, None, rules.key, "deleting")}
    /\ UNCHANGED <<listed, conn, sel, propVars, sendVars, broker>>

\* What the broker holds after the call.
Held(a) ==
    CASE a.cmd = "create" -> broker[a.at] \cup {a.rule}
      [] a.cmd = "delete" -> broker[a.at] \ {a.rule}
      [] OTHER -> broker[a.at]

Accepts(a) ==
    CASE a.cmd = "create" -> a.rule \notin broker[a.at]
      [] a.cmd \in {"update", "delete"} -> a.rule \in broker[a.at]
      [] OTHER -> TRUE

RuleAtBroker(a) ==
    /\ a \in asks /\ ~a.done /\ Accepts(a)
    /\ broker' = [broker EXCEPT ![a.at] = Held(a)]
    /\ asks' = (asks \ {a}) \cup {[a EXCEPT !.done = TRUE, !.ok = TRUE, !.found = Held(a)]}
    /\ UNCHANGED <<listed, conn, sel, propVars, sendVars, rules, requests>>

RuleRefused(a) ==
    /\ a \in asks /\ ~a.done
    /\ asks' = (asks \ {a}) \cup {[a EXCEPT !.done = TRUE]}
    /\ UNCHANGED <<listed, conn, sel, propVars, sendVars, rules, broker, requests>>

\* The rule selected after a load: the one asked for, else the first.
NextKey(a) ==
    IF a.rule = NewRule \/ a.rule \in a.found THEN a.rule
    ELSE IF a.found = {} THEN None ELSE CHOOSE r \in a.found : TRUE

\* A flag is cleared by the call that ends what it stands for.
Cleared(editor, a) ==
    [editor EXCEPT !.saving = @ /\ a.ends # "saving", !.deleting = @ /\ a.ends # "deleting"]

LoadAnswered(a) ==
    /\ a \in asks /\ a.done /\ a.cmd = "load"
    /\ asks' = asks \ {a}
    /\ rules' = IF ~a.shown THEN rules
                ELSE IF a.ok
                THEN Cleared([rules EXCEPT !.of = a.at, !.list = a.found, !.key = NextKey(a),
                                           !.draft = DraftFor(NextKey(a)), !.loading = FALSE], a)
                ELSE Cleared([rules EXCEPT !.of = None, !.list = {}, !.key = None,
                                           !.draft = NoDraft, !.loading = FALSE, !.failed = TRUE], a)
    /\ UNCHANGED <<listed, conn, sel, propVars, sendVars, broker, requests>>

\* A change that succeeded is followed by a load; the rule saved is selected.
ChangeAnswered(a) ==
    /\ a \in asks /\ a.done /\ a.cmd # "load"
    /\ IF a.shown /\ a.ok
       THEN /\ asks' = (asks \ {a}) \cup
                 {[a EXCEPT !.cmd = "load", !.rule = IF a.cmd = "delete" THEN None ELSE @,
                            !.from = None, !.key = None, !.done = FALSE, !.ok = FALSE, !.found = {}]}
            /\ rules' = [rules EXCEPT !.loading = TRUE, !.failed = FALSE]
       ELSE /\ asks' = asks \ {a}
            /\ rules' = IF a.shown THEN Cleared(rules, a) ELSE rules
    /\ UNCHANGED <<listed, conn, sel, propVars, sendVars, broker, requests>>

-----------------------------------------------------------------------------
(* The selection and the connection.                                       *)

\* Mutant: the editor stays open.
RulesStay == UNCHANGED <<rules, asks>>

\* isSubscriptionRulesModalOpen = false.
RulesClosed == rules' = None /\ asks' = Orphans

\* An entity of the tree is chosen; choosing the same one changes nothing.
Select(name) ==
    /\ conn # 0 /\ sel # name /\ Ask
    /\ sel' = name
    /\ RulesClosed /\ Refetch(conn, name)
    /\ UNCHANGED <<listed, conn, sendVars, broker>>

\* The selected entity was deleted.
EntityGone ==
    /\ sel # None /\ sel' = None
    /\ RulesClosed /\ Refetch(conn, None)
    /\ UNCHANGED <<listed, conn, sendVars, broker, requests>>

\* The store sets the connection, which resets the selection.
SetActive(ids, id) ==
    /\ Switch(ids, id)
    /\ sel' = None
    /\ RulesClosed /\ Refetch(id, None)
    /\ UNCHANGED <<sendVars, broker, requests>>

SetConnections(ids) ==
    /\ Relist(ids) /\ listed # ids
    /\ UNCHANGED <<sel, propVars, sendVars, ruleVars, requests>>

-----------------------------------------------------------------------------

SendNext ==
    \/ OpenSend \/ CloseSend
    \/ \E f \in Fields : Submit(f[1], f[2])
    \/ \E s \in sends : Checked(s) \/ SendEnds(s)

RulesNext ==
    \/ OpenRules \/ CloseRules \/ Refresh \/ OnNewRule \/ SaveRule \/ DeleteRule
    \/ \E r \in RuleNames : OnSelectRule(r) \/ TypeRuleName(r)
    \/ \E a \in asks : RuleAtBroker(a) \/ RuleRefused(a) \/ LoadAnswered(a) \/ ChangeAnswered(a)

Next ==
    \/ Retry \/ EntityGone
    \/ \E f \in fetches, ok \in BOOLEAN : FetchAnswered(f, ok)
    \/ \E name \in Names : Select(name)
    \/ \E ids \in SUBSET (1..MaxIds) :
        SetConnections(ids) \/ \E id \in 0..MaxIds : SetActive(ids, id)
    \/ SendNext
    \/ RulesNext

Spec == Init /\ [][Next]_vars

-----------------------------------------------------------------------------
(* Properties.                                                             *)

\* A message goes to a queue that requires sessions only with a session: the
\* requirement is taken from the properties on display if they are this
\* queue's and asked for otherwise, while name, selection and connection may
\* change at any time (SendMessageModal.tsx:184-214).
SessionNamed ==
    \A s \in sends :
        s.phase = "sending" /\ s.kind = "queue" /\ <<s.conn, s.name>> \in Requires => s.session

\* The properties on display are those of the selected entity of the
\* connection in use, in whatever order answers arrive.
PropertiesOfSelection ==
    props.status = "shown" => props.conn = conn /\ props.name = sel

\* The rules on display are those of the selected subscription of the
\* connection in use.  loadRules has nothing to tell a late answer from a
\* current one: this rests on the editor being closed with every change.
RulesOfSelection ==
    rules # None /\ rules.of # None => rules.of = <<conn, sel>>

\* A rule is overwritten only with a draft made from it, while it was the one
\* selected; a new rule never starts from another one's draft.  Loads that
\* are answered late select another rule under the draft.
DraftOfRule ==
    \A a \in asks :
        /\ a.cmd = "update" => a.rule = a.key /\ a.from = a.key
        /\ a.cmd = "create" => a.from = None

=============================================================================
