---------------------------- MODULE Connections ----------------------------
(***************************************************************************)
(* The connections as the interface handles them: the panel that lists,    *)
(* adds, edits and deletes them (src/components/Explorer/                  *)
(* ConnectionsPanel.tsx), the selector of the toolbar, the export and      *)
(* import dialogs, useConnections, and the commands they call              *)
(* (src-tauri/src/commands/connections.rs).  The commands are synchronous: *)
(* they run one at a time, in the order of the calls, and are answered in  *)
(* this order.  What a command stores is what ConfigStore promises of it;  *)
(* a command that fails leaves the configuration alone.                    *)
(***************************************************************************)
EXTENDS Naturals, Sequences, FiniteSets

CONSTANTS
    Labels,     \* a name with its environment and colour
    Credentials, \* the secret parts of connection strings
    Kept,       \* the connections stored at the start
    MaxIds,     \* bounds of the model: connections ever made,
    MaxAsked,   \* commands ever asked for,
    MaxCalls,   \* and commands not yet answered
    Nothing

\* A connection string without its credential has the key Nothing.
Connection == [id : 1..MaxIds, label : Labels, key : Credentials \cup {Nothing}]

ASSUME ConnectionsAssumption ==
    /\ MaxIds \in Nat /\ MaxAsked \in Nat /\ MaxCalls \in Nat \ {0}
    /\ Kept \in Seq(Connection) /\ Len(Kept) <= MaxIds
    /\ \A i \in DOMAIN Kept : Kept[i].id = i /\ Kept[i].key \in Credentials
    /\ Nothing \notin Labels \cup Credentials

VARIABLES
    stored,     \* config.connections
    inUse,      \* config.active_connection_id, 0 without one
    made,       \* the last identifier given
    exported,   \* the content of the exported file
    list,       \* connections, as the store of the interface has them
    conn,       \* activeConnectionId, 0 for null
    panel,      \* ConnectionsPanel is mounted
    form,       \* formMode, with the fields of the form it shows
    fetching,   \* loadingEdit, 0 for null
    deleting,   \* deleting, 0 for null
    dialogs,    \* ExportConnectionsModal and ImportConnectionsModal
    calls,      \* the commands not yet answered, oldest first
    asked       \* how many commands were asked for

storeVars == <<stored, inUse, made, exported>>
listVars == <<list, conn>>
panelVars == <<panel, form, fetching, deleting, dialogs>>
callVars == <<calls, asked>>
connectionVars == <<storeVars, listVars, panelVars, callVars>>

\* An entry of the list: the credential is left out.
Public(c) == [id |-> c.id, label |-> c.label]
PublicList(cs) == {Public(cs[i]) : i \in DOMAIN cs}
IdsOf(entries) == {c.id : c \in entries}

Entry == [id : 1..MaxIds, label : Labels]
Answers == [ok : BOOLEAN, list : SUBSET Entry, inUse : 0..MaxIds]

\* A call, the parts of the panel it will report to, and its answer.
Call(cmd, id, label, key, views) ==
    [cmd |-> cmd, id |-> id, label |-> label, key |-> key, views |-> views, answer |-> Nothing]

Commands == {"load", "get", "save", "delete", "use", "export", "merge", "replace"}
Views == {"panel", "form", "import", "export"}
CallType == [cmd : Commands, id : 0..MaxIds, label : Labels \cup {Nothing},
             key : Credentials \cup {Nothing}, views : SUBSET Views,
             answer : Answers \cup {Nothing}]

\* The form: of a new connection (id 0) or of a listed one.
Forms == [id : 0..MaxIds, label : Labels \cup {Nothing}, key : Credentials \cup {Nothing},
          saving : BOOLEAN]

ASSUME NothingAssumption == Nothing \notin Answers \cup Forms

ConnectionTypeOK ==
    /\ stored \in Seq(Connection) /\ inUse \in 0..MaxIds /\ made \in 0..MaxIds
    /\ exported \in Seq(Connection)
    /\ list \subseteq Entry /\ conn \in 0..MaxIds
    /\ panel \in BOOLEAN /\ form \in Forms \cup {Nothing}
    /\ fetching \in 0..MaxIds /\ deleting \in 0..MaxIds
    /\ dialogs \in [{"import", "export"} -> {"closed", "open", "busy"}]
    /\ calls \in Seq(CallType) /\ asked \in Nat

\* The application starts and asks for the connections.
ConnectionInit ==
    /\ stored = Kept /\ inUse \in 0..Len(Kept) /\ made = Len(Kept)
    /\ exported = <<>>
    /\ list = {} /\ conn = 0
    /\ panel = FALSE /\ form = Nothing /\ fetching = 0 /\ deleting = 0
    /\ dialogs = [d \in {"import", "export"} |-> "closed"]
    /\ calls = <<Call("load", 0, Nothing, Nothing, {})>> /\ asked = 1

-----------------------------------------------------------------------------
(* The panel.                                                              *)

Ask(call) ==
    /\ Len(calls) < MaxCalls /\ asked < MaxAsked
    /\ calls' = Append(calls, call) /\ asked' = asked + 1

\* Parts of the panel are unmounted: answers no longer reach them.
Unmount(views) ==
    /\ calls' = [i \in DOMAIN calls |-> [calls[i] EXCEPT !.views = @ \ views]]
    /\ UNCHANGED asked

OpenPanel ==
    /\ ~panel /\ panel' = TRUE
    /\ UNCHANGED <<form, fetching, deleting, dialogs, storeVars, listVars, callVars>>

\* The settings are closed, or show another of their tabs.
ClosePanel ==
    /\ panel /\ panel' = FALSE
    /\ form' = Nothing /\ fetching' = 0 /\ deleting' = 0
    /\ dialogs' = [d \in {"import", "export"} |-> "closed"]
    /\ Unmount({"panel", "form", "import", "export"})
    /\ UNCHANGED <<storeVars, listVars>>

FormShown == form # Nothing /\ form.id \in IdsOf(list) \cup {0}

\* An entry whose form is open shows the form in place of its buttons.
RowShown(id) == panel /\ id \in IdsOf(list) /\ ~(form # Nothing /\ form.id = id)

NewForm ==
    /\ panel /\ ~(form # Nothing /\ form.id = 0)
    /\ form' = [id |-> 0, label |-> Nothing, key |-> Nothing, saving |-> FALSE]
    /\ Unmount({"form"})
    /\ UNCHANGED <<panel, fetching, deleting, dialogs, storeVars, listVars>>

CancelForm ==
    /\ FormShown /\ form' = Nothing
    /\ Unmount({"form"})
    /\ UNCHANGED <<panel, fetching, deleting, dialogs, storeVars, listVars>>

TypeInForm(label, key) ==
    /\ FormShown
    /\ <<label, key>> # <<form.label, form.key>>
    /\ key = Nothing => form.key = Nothing
    /\ form' = [form EXCEPT !.label = label, !.key = key]
    /\ UNCHANGED <<panel, fetching, deleting, dialogs, storeVars, listVars, callVars>>

\* The name and the connection string are required; that of a listed
\* connection is prefilled with its endpoint.
SubmitForm ==
    /\ FormShown /\ ~form.saving
    /\ form.label # Nothing /\ (form.id # 0 \/ form.key # Nothing)
    /\ form.id # 0 \/ made < MaxIds
    /\ form' = [form EXCEPT !.saving = TRUE]
    /\ Ask(Call("save", form.id, form.label, form.key, {"panel", "form"}))
    /\ UNCHANGED <<panel, fetching, deleting, dialogs, storeVars, listVars>>

Edit(id) ==
    /\ RowShown(id) /\ fetching # id
    /\ fetching' = id
    /\ Ask(Call("get", id, Nothing, Nothing, {"panel"}))
    /\ UNCHANGED <<panel, form, deleting, dialogs, storeVars, listVars>>

Delete(id) ==
    /\ RowShown(id) /\ deleting # id
    /\ deleting' = id
    /\ Ask(Call("delete", id, Nothing, Nothing, {"panel"}))
    /\ UNCHANGED <<panel, form, fetching, dialogs, storeVars, listVars>>

Use(id) ==
    /\ RowShown(id) /\ conn # id
    /\ Ask(Call("use", id, Nothing, Nothing, {}))
    /\ UNCHANGED <<storeVars, listVars, panelVars>>

\* In the toolbar, where the connection in use can be chosen again; the
\* settings keep the focus while they are open.
SelectConnection(id) ==
    /\ ~panel /\ id \in IdsOf(list)
    /\ Ask(Call("use", id, Nothing, Nothing, {}))
    /\ UNCHANGED <<storeVars, listVars, panelVars>>

OpenDialog(d) ==
    /\ panel /\ dialogs[d] = "closed"
    /\ d = "export" => list # {}
    /\ dialogs' = [dialogs EXCEPT ![d] = "open"]
    /\ UNCHANGED <<panel, form, fetching, deleting, storeVars, listVars, callVars>>

CloseDialog(d) ==
    /\ dialogs[d] # "closed"
    /\ dialogs' = [dialogs EXCEPT ![d] = "closed"]
    /\ Unmount({d})
    /\ UNCHANGED <<panel, form, fetching, deleting, storeVars, listVars>>

\* Both ask for a file; a dialog that ends, also without a file, shows its
\* success until it is closed.
Export ==
    /\ dialogs["export"] = "open"
    /\ dialogs' = [dialogs EXCEPT !["export"] = "busy"]
    /\ Ask(Call("export", 0, Nothing, Nothing, {"export"}))
    /\ UNCHANGED <<panel, form, fetching, deleting, storeVars, listVars>>

Import(cmd) ==
    /\ dialogs["import"] = "open"
    /\ dialogs' = [dialogs EXCEPT !["import"] = "busy"]
    /\ Ask(Call(cmd, 0, Nothing, Nothing, {"import"}))
    /\ UNCHANGED <<panel, form, fetching, deleting, storeVars, listVars>>

-----------------------------------------------------------------------------
(* The commands.                                                           *)

Known(id) == \E i \in DOMAIN stored : stored[i].id = id

\* The configuration a command leaves: connections, the one in use, the last
\* identifier.
After(cs, use, last) == [stored |-> cs, inUse |-> use, made |-> last]

Saved(call) ==
    IF call.id = 0
    THEN After(Append(stored, [id |-> made + 1, label |-> call.label, key |-> call.key]),
               inUse, made + 1)
    ELSE After([i \in DOMAIN stored |->
                   IF stored[i].id = call.id
                   THEN [id |-> call.id, label |-> call.label, key |-> call.key]
                   ELSE stored[i]], inUse, made)

\* The stored connections but the one with this identifier; there is only one.
Without(id) ==
    LET place == CHOOSE i \in DOMAIN stored : stored[i].id = id
    IN  IF Known(id)
        THEN [i \in 1..(Len(stored) - 1) |-> stored[IF i < place THEN i ELSE i + 1]]
        ELSE stored

\* Mutant: deleting the connection in use leaves it in use.
DeletedInUse(call) == After(Without(call.id), inUse, made)

Deleted(call) == After(Without(call.id), IF inUse = call.id THEN 0 ELSE inUse, made)

\* Imported connections get identifiers of their own.
Renewed == [i \in DOMAIN exported |-> [exported[i] EXCEPT !.id = made + i]]
Merged == After(stored \o Renewed, inUse, made + Len(exported))
Replaced == After(Renewed, 0, made + Len(exported))

Result(call) ==
    CASE call.cmd = "save" -> Saved(call)
      [] call.cmd = "delete" -> Deleted(call)
      [] call.cmd = "use" -> After(stored, call.id, made)
      [] call.cmd = "merge" -> Merged
      [] call.cmd = "replace" -> Replaced
      [] OTHER -> After(stored, inUse, made)

\* The command finds what it is about.
Possible(call) ==
    /\ call.cmd \in {"get", "use"} => Known(call.id)
    /\ call.cmd = "save" => call.id = 0 \/ Known(call.id)

\* Within the bound on connections.
WithinBound(call) == Result(call).made <= MaxIds

\* The answer shows the list without credentials; the interface refuses one
\* whose connection in use is not listed.
AnswerOf(result) ==
    LET entries == PublicList(result.stored)
    IN [ok |-> result.inUse \in IdsOf(entries) \cup {0}, list |-> entries, inUse |-> result.inUse]

Failure == [ok |-> FALSE, list |-> {}, inUse |-> 0]

\* The first call that has not run.
IsNext(i) == calls[i].answer = Nothing /\ \A j \in 1..(i - 1) : calls[j].answer # Nothing

Run(i) ==
    /\ IsNext(i) /\ Possible(calls[i]) /\ WithinBound(calls[i])
    /\ LET result == Result(calls[i])
       IN /\ stored' = result.stored /\ inUse' = result.inUse /\ made' = result.made
          /\ exported' = IF calls[i].cmd = "export" THEN stored ELSE exported
          /\ calls' = [calls EXCEPT ![i].answer = AnswerOf(result)]
    /\ UNCHANGED <<listVars, panelVars, asked>>

\* The configuration cannot be read or written, the password is wrong, or the
\* connection is no longer there.
RunFails(i) ==
    /\ IsNext(i)
    /\ calls' = [calls EXCEPT ![i].answer = Failure]
    /\ UNCHANGED <<storeVars, listVars, panelVars, asked>>

\* Answers after which the interface takes over the list, and those after
\* which it sets the connection in use, and so resets what it displays.
Lists(call) == call.answer.ok /\ call.cmd \notin {"get", "export"}
\* Mutant: a deletion, like a save, takes over the list only.
SwitchesUnlessDeleted(call) == Lists(call) /\ call.cmd \notin {"save", "delete"}

Switches(call) == Lists(call) /\ call.cmd # "save"

FormAfter(call) ==
    CASE call.cmd = "get" /\ call.answer.ok /\ "panel" \in call.views ->
            IF form # Nothing /\ form.id = call.id THEN form
            ELSE [id |-> call.id, key |-> Nothing, saving |-> FALSE,
                  label |-> IF \E c \in list : c.id = call.id
                            THEN (CHOOSE c \in list : c.id = call.id).label ELSE Nothing]
      [] call.cmd = "save" /\ call.answer.ok /\ "panel" \in call.views -> Nothing
      [] call.cmd = "save" /\ ~call.answer.ok /\ "form" \in call.views ->
            [form EXCEPT !.saving = FALSE]
      [] OTHER -> form

DialogsAfter(call) ==
    [d \in {"import", "export"} |->
        IF d \in call.views THEN (IF call.answer.ok THEN "closed" ELSE "open") ELSE dialogs[d]]

\* The answer arrives.
Answered ==
    /\ calls # <<>> /\ Head(calls).answer # Nothing
    /\ LET call == Head(calls)
           rest == Tail(calls)
       IN /\ list' = IF Lists(call) THEN call.answer.list ELSE list
          /\ conn' = IF ~Switches(call) THEN conn
                     ELSE IF call.cmd = "load" THEN 0 ELSE call.answer.inUse
          /\ form' = FormAfter(call)
          /\ fetching' = IF call.cmd = "get" /\ "panel" \in call.views THEN 0 ELSE fetching
          /\ deleting' = IF call.cmd = "delete" /\ "panel" \in call.views THEN 0 ELSE deleting
          /\ dialogs' = DialogsAfter(call)
          \* a form that is replaced, or whose entry is gone, is unmounted
          /\ calls' = IF form = Nothing \/ (form' # Nothing /\ form'.id = form.id
                                         /\ form.id \in IdsOf(list') \cup {0})
                      THEN rest
                      ELSE [i \in DOMAIN rest |-> [rest[i] EXCEPT !.views = @ \ {"form"}]]
    /\ UNCHANGED <<storeVars, panel, asked>>

-----------------------------------------------------------------------------

PanelNext ==
    \/ OpenPanel \/ ClosePanel \/ NewForm \/ CancelForm \/ SubmitForm
    \/ \E l \in Labels, k \in Credentials \cup {Nothing} : TypeInForm(l, k)
    \/ \E id \in 1..MaxIds : Edit(id) \/ Delete(id) \/ Use(id) \/ SelectConnection(id)
    \/ \E d \in {"import", "export"} : OpenDialog(d) \/ CloseDialog(d)
    \/ Export
    \/ \E cmd \in {"merge", "replace"} : Import(cmd)

CommandNext == \E i \in DOMAIN calls : Run(i) \/ RunFails(i)

ConnectionNext == PanelNext \/ CommandNext \/ Answered

ConnectionSpec == ConnectionInit /\ [][ConnectionNext]_connectionVars

-----------------------------------------------------------------------------
(* Properties.                                                             *)

\* Once every command is answered, the list is the stored one, or empty as
\* before the first answer that brings one (the property does not tell that
\* apart from a list emptied later), and the connection in use is listed and is
\* the one that is stored as active.  Answers to saves take over the list only,
\* so this relates the answers of different commands (useConnections.ts).
ListFollowsStore ==
    calls = <<>> =>
        /\ list \in {PublicList(stored), {}}
        /\ conn # 0 => conn = inUse /\ conn \in IdsOf(list)

\* The connections keep what the other views rely on: at every moment, also
\* between two answers, the connection in use is one that is listed.
View == INSTANCE ActiveConnection WITH listed <- IdsOf(list)
ImplementsView == View!ViewSpec

=============================================================================
