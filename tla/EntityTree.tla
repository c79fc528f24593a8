----------------------------- MODULE EntityTree -----------------------------
(***************************************************************************)
(* The entity tree of the interface: the active connection, the listing    *)
(* of its queues, topics and subscriptions, the message counts beside      *)
(* them, automatic refresh, and creation and deletion of entities          *)
(* (src/hooks/useEntityList.ts, src/hooks/useAutoRefresh.ts, the sidebar,  *)
(* the two entity dialogs and their part of src/store/appStore.ts).        *)
(*                                                                         *)
(* Handlers run to their next await without interruption.  What they ask   *)
(* of the bridge is in flight in "lists", "counting" and "admin" until an  *)
(* answer arrives, in any order; meanwhile the user goes on, and another   *)
(* connection may become active: its number, connectionGeneration, is      *)
(* what a late answer is compared with.                                    *)
(*                                                                         *)
(* A count is represented by the number of the request it answers.         *)
(***************************************************************************)
EXTENDS Naturals, FiniteSets

CONSTANTS
    Conns,      \* connections
    Queues, Topics, Subs, \* names, the same in every namespace
    TopicOf,    \* the topic of each subscription
    Content,    \* the entities of each namespace at the start
    MaxSwitches, \* bounds of the model: choices of a connection and
    MaxActions,  \* what else the user and the timer do
    None

Entities == Queues \cup Topics \cup Subs
Countable == Queues \cup Subs

ASSUME TreeAssumption ==
    /\ Queues \cap Topics = {} /\ Queues \cap Subs = {} /\ Topics \cap Subs = {}
    /\ TopicOf \in [Subs -> Topics]
    /\ Content \in [Conns -> SUBSET Entities]
    /\ \A k \in Conns : \A s \in Content[k] \cap Subs : TopicOf[s] \in Content[k]
    /\ MaxSwitches \in Nat /\ MaxActions \in Nat
    /\ None \notin Conns \cup Entities \cup Nat

VARIABLES
    conn, gen,    \* activeConnectionId and connectionGeneration
    tree,         \* entities, with the connection they were listed for
    treeLoading,  \* entitiesLoading
    treeError,    \* entitiesError # null
    fetching,     \* fetchingConnRef of each mounted user of useEntityList
    lists,        \* list_entities calls in flight
    last,         \* countRequestSequence
    latest,       \* countRefresh[key].requestId, 0 without one
    marked,       \* countRefresh[key].error is set
    shown,        \* queueCounts and subscriptionCounts: the request displayed
    counting,     \* count calls in flight, of all entities or of one
    loading,      \* entityCountsLoading
    polling,      \* autoRefreshEnabled
    waiting,      \* refreshInFlightRef of useAutoRefresh
    dialog,       \* the mounted CreateEntityModal, 0 without one
    target,       \* deleteEntityTarget
    deleting,     \* the call of the mounted DeleteEntityDialog, 0 without one
    admin,        \* create and delete calls in flight
    world,        \* the entities of each namespace, at the broker
    actions,      \* actions so far
    failed        \* history: the latest request known to have failed, by key

listVars == <<tree, treeLoading, treeError, fetching, lists>>
countVars == <<last, latest, marked, shown, counting, loading, failed>>
autoVars == <<polling, waiting>>
dialogVars == <<dialog, target, deleting, admin, world>>
vars == <<conn, gen, listVars, countVars, autoVars, dialogVars, actions>>

\* Users of useEntityList: the sidebar and each opening of the create dialog.
Users == 0..MaxActions
Sidebar == 0

ListCall == [by : Users, gen : Nat, conn : Conns, read : BOOLEAN, found : SUBSET Entities]
CountCall == [id : Nat \ {0}, gen : Nat, keys : SUBSET Countable, all : BOOLEAN]
AdminCall == [kind : {"create", "delete"}, conn : Conns, entity : Entities, by : Users,
              done : BOOLEAN]

TypeOK ==
    /\ conn \in Conns \cup {None} /\ gen \in Nat
    /\ tree \in [of : Conns, names : SUBSET Entities] \cup {None}
    /\ treeLoading \in BOOLEAN /\ treeError \in BOOLEAN
    /\ fetching \in [Users -> Nat \cup {None}]
    /\ lists \in SUBSET ListCall
    /\ last \in Nat
    /\ latest \in [Countable -> Nat] /\ shown \in [Countable -> Nat]
    /\ marked \in [Countable -> BOOLEAN] /\ failed \in [Countable -> Nat]
    /\ counting \in SUBSET CountCall
    /\ loading \in Nat
    /\ polling \in BOOLEAN /\ waiting \in BOOLEAN
    /\ dialog \in Users
    /\ target \in Entities \cup {None} /\ deleting \in Users
    /\ admin \in SUBSET AdminCall
    /\ world \in [Conns -> SUBSET Entities]
    /\ actions \in 0..MaxActions

\* The store as it is created; the connections are loaded, none is active.
Init ==
    /\ conn = None /\ gen = 0
    /\ tree = None /\ treeLoading = FALSE /\ treeError = FALSE
    /\ fetching = [u \in Users |-> None] /\ lists = {}
    /\ last = 0
    /\ latest = [e \in Countable |-> 0] /\ shown = [e \in Countable |-> 0]
    /\ marked = [e \in Countable |-> FALSE] /\ failed = [e \in Countable |-> 0]
    /\ counting = {} /\ loading = 0
    /\ polling = TRUE /\ waiting = FALSE
    /\ dialog = 0 /\ target = None /\ deleting = 0 /\ admin = {}
    /\ world = Content
    /\ actions = 0

Acts == actions < MaxActions /\ actions' = actions + 1

-----------------------------------------------------------------------------
(* What the views offer.                                                   *)

\* No dialog covers the window.
InWindow == dialog = 0 /\ target = None

\* The entities listed in the sidebar, each with a button to delete it.
Rows == IF tree = None THEN {} ELSE tree.names

\* What the row of a queue or subscription shows; it also has a button to
\* refresh its count.
TreeItem(e) == [count |-> shown[e], stale |-> marked[e]]

\* What the form of the create dialog can name: a subscription of a listed topic.
Nameable == {e \in Entities : e \in Subs => TopicOf[e] \in Rows}

\* The button that confirms a deletion is disabled while its call is in flight.
CanConfirm == target # None /\ deleting = 0

-----------------------------------------------------------------------------
(* What the hooks are built from.                                          *)

\* fetchEntities for the users C, in generation g of connection k: a user has
\* at most one call per generation in flight.
Fetch(C, g, k) ==
    LET starting == IF k = None THEN {} ELSE {u \in C : fetching[u] # g}
    IN  /\ lists' = lists \cup {[by |-> u, gen |-> g, conn |-> k, read |-> FALSE, found |-> {}] : u \in starting}
        /\ fetching' = [u \in Users |-> IF u \in starting THEN g ELSE fetching[u]]
        /\ treeLoading' = (IF starting # {} THEN TRUE ELSE IF g # gen THEN FALSE ELSE treeLoading)
        /\ treeError' = (IF starting # {} \/ g # gen THEN FALSE ELSE treeError)

\* fetchCounts starts a request for everything listed, unless one is running.
CountsStart(names) == names \cap (Queues \cup Topics) # {} /\ loading = 0

\* Mutant: a new request clears the mark of the failed one.
FetchCountsClears(names) ==
    LET keys == names \cap Countable
    IN  IF CountsStart(names)
        THEN /\ last' = last + 1
             /\ latest' = [e \in Countable |-> IF e \in keys THEN last + 1 ELSE latest[e]]
             /\ marked' = [e \in Countable |-> marked[e] /\ e \notin keys]
             /\ counting' = counting \cup
                    {[id |-> last + 1, gen |-> gen, keys |-> keys, all |-> TRUE]}
             /\ loading' = loading + 1
             /\ UNCHANGED <<shown, failed>>
        ELSE UNCHANGED countVars

\* The failure mark of a key stays until an answer arrives.
FetchCounts(names) ==
    LET keys == names \cap Countable
    IN  IF CountsStart(names)
        THEN /\ last' = last + 1
             /\ latest' = [e \in Countable |-> IF e \in keys THEN last + 1 ELSE latest[e]]
             /\ counting' = counting \cup
                    {[id |-> last + 1, gen |-> gen, keys |-> keys, all |-> TRUE]}
             /\ loading' = loading + 1
             /\ UNCHANGED <<marked, shown, failed>>
        ELSE UNCHANGED countVars

\* The effect of useAutoRefresh on a change of entityCountsLoading.
RefreshDetected(now) == waiting /\ ~(now # loading /\ now = 0)

\* Mutant: an answer is filled in for whatever was asked.
AllAsked(c) == c.keys

\* The keys for which a count call is still the latest request.
Mine(c) == {e \in c.keys : latest[e] = c.id}

-----------------------------------------------------------------------------
(* The active connection.                                                  *)

\* Mutant: the count of running refreshes survives.
SetActiveKeepsLoading(k) ==
    /\ gen < MaxSwitches
    /\ gen' = gen + 1 /\ conn' = k
    /\ tree' = None
    /\ Fetch({Sidebar, dialog}, gen + 1, k)
    /\ latest' = [e \in Countable |-> 0] /\ shown' = [e \in Countable |-> 0]
    /\ marked' = [e \in Countable |-> FALSE] /\ failed' = [e \in Countable |-> 0]
    /\ UNCHANGED <<last, counting, loading, autoVars, dialogVars, actions>>

\* setActiveConnectionId, when the answer to a choice of a connection arrives;
\* the users of useEntityList that are mounted list the new one.  It does not
\* close the dialogs about entities.
SetActive(k) ==
    /\ gen < MaxSwitches
    /\ gen' = gen + 1 /\ conn' = k
    /\ tree' = None
    /\ Fetch({Sidebar, dialog}, gen + 1, k)
    /\ latest' = [e \in Countable |-> 0] /\ shown' = [e \in Countable |-> 0]
    /\ marked' = [e \in Countable |-> FALSE] /\ failed' = [e \in Countable |-> 0]
    /\ loading' = 0
    /\ waiting' = RefreshDetected(0)
    /\ UNCHANGED <<last, counting, polling, dialogVars, actions>>

-----------------------------------------------------------------------------
(* The listing.                                                            *)

\* The refresh button at the foot of the sidebar, and the retry button it shows
\* when the listing failed.
Refresh ==
    /\ Acts /\ InWindow
    /\ ~treeLoading
    /\ Fetch({Sidebar}, gen, conn)
    /\ UNCHANGED <<conn, gen, tree, countVars, autoVars, dialogVars>>

\* The broker lists, at some moment before the answer.
ListAtBroker(l) ==
    /\ l \in lists /\ ~l.read
    /\ lists' = (lists \ {l}) \cup {[l EXCEPT !.read = TRUE, !.found = world[l.conn]]}
    /\ UNCHANGED <<conn, gen, tree, treeLoading, treeError, fetching, countVars, autoVars,
                   dialogVars, actions>>

\* fetchEntities' "finally".
Release(l) ==
    /\ fetching' = [u \in Users |->
            IF u = l.by /\ fetching[u] = l.gen THEN None ELSE fetching[u]]
    /\ treeLoading' = (treeLoading /\ ~(fetching[l.by] = l.gen /\ gen = l.gen))

\* Mutant: the answer is filled in without looking at the generation.
ListedAnyway(l) ==
    /\ l \in lists /\ l.read
    /\ lists' = lists \ {l}
    /\ Release(l)
    /\ tree' = [of |-> l.conn, names |-> l.found] /\ FetchCounts(l.found)
    /\ UNCHANGED <<conn, gen, treeError, autoVars, dialogVars, actions>>

Listed(l) ==
    /\ l \in lists /\ l.read
    /\ lists' = lists \ {l}
    /\ Release(l)
    /\ IF l.gen = gen
       THEN tree' = [of |-> l.conn, names |-> l.found] /\ FetchCounts(l.found)
       ELSE UNCHANGED <<tree, countVars>>
    /\ UNCHANGED <<conn, gen, treeError, autoVars, dialogVars, actions>>

\* Mutant: the flag is only cleared after a success.
NotListedStillLoading(l) ==
    /\ l \in lists
    /\ lists' = lists \ {l}
    /\ fetching' = [u \in Users |->
            IF u = l.by /\ fetching[u] = l.gen THEN None ELSE fetching[u]]
    /\ treeError' = (treeError \/ l.gen = gen)
    /\ UNCHANGED <<conn, gen, tree, treeLoading, countVars, autoVars, dialogVars, actions>>

NotListed(l) ==
    /\ l \in lists
    /\ lists' = lists \ {l}
    /\ Release(l)
    /\ treeError' = (treeError \/ l.gen = gen)
    /\ UNCHANGED <<conn, gen, tree, countVars, autoVars, dialogVars, actions>>

-----------------------------------------------------------------------------
(* Counts.                                                                 *)

\* refreshEntityCount: the button beside an entity of the tree.
RefreshOne(e) ==
    /\ Acts /\ InWindow
    /\ conn # None /\ e \in Rows \cap Countable
    /\ last' = last + 1
    /\ latest' = [latest EXCEPT ![e] = last + 1]
    /\ counting' = counting \cup
            {[id |-> last + 1, gen |-> gen, keys |-> {e}, all |-> FALSE]}
    /\ UNCHANGED <<conn, gen, listVars, marked, shown, loading, failed, autoVars, dialogVars>>

\* A tick of the timer: useAutoRefresh asks for all counts.
Tick ==
    /\ Acts
    /\ polling /\ conn # None /\ tree # None
    /\ ~waiting
    /\ FetchCounts(tree.names)
    /\ waiting' = CountsStart(tree.names)
    /\ UNCHANGED <<conn, gen, listVars, polling, dialogVars>>

TogglePolling ==
    /\ Acts /\ InWindow
    /\ polling' = ~polling
    /\ UNCHANGED <<conn, gen, listVars, countVars, waiting, dialogVars>>

\* A count call is over: the running refreshes and the timer learn of it.
CountCallEnds(c) ==
    LET now == IF c.all /\ c.gen = gen /\ loading > 0 THEN loading - 1 ELSE loading
    IN  loading' = now /\ waiting' = RefreshDetected(now)

\* The answer gives the counts of some of the entities and errors for others:
\* a topic fails with all its subscriptions, and a subscription that is gone
\* is missing.  Only keys whose latest request this is are touched.
Counted(c, given, errors) ==
    /\ c \in counting
    /\ given \subseteq c.keys /\ errors \subseteq c.keys \ given
    /\ \A s \in errors \cap Subs, t \in c.keys \cap Subs : TopicOf[s] = TopicOf[t] => t \in errors
    /\ c.keys \ (given \cup errors) \subseteq Subs
    /\ ~c.all => given = c.keys
    /\ counting' = counting \ {c}
    /\ LET mine == IF c.gen = gen THEN Mine(c) ELSE {} IN
        /\ shown' = [e \in Countable |-> IF e \in given \cap mine THEN c.id ELSE shown[e]]
        /\ marked' = [e \in Countable |-> IF e \in given \cap mine THEN FALSE
                                         ELSE IF e \in errors \cap mine THEN TRUE ELSE marked[e]]
        /\ failed' = [e \in Countable |-> IF e \in errors \cap mine THEN c.id ELSE failed[e]]
    /\ CountCallEnds(c)
    /\ UNCHANGED <<conn, gen, listVars, last, latest, polling, dialogVars, actions>>

\* The whole call fails: its keys keep their last value, marked.
CountFails(c) ==
    /\ c \in counting
    /\ counting' = counting \ {c}
    /\ LET mine == IF c.gen = gen THEN Mine(c) ELSE {} IN
        /\ marked' = [e \in Countable |-> marked[e] \/ e \in mine]
        /\ failed' = [e \in Countable |-> IF e \in mine THEN c.id ELSE failed[e]]
    /\ CountCallEnds(c)
    /\ UNCHANGED <<conn, gen, listVars, last, latest, shown, polling, dialogVars, actions>>

-----------------------------------------------------------------------------
(* Creation and deletion.                                                  *)

\* The create button of the sidebar; the dialog uses useEntityList and lists
\* the entities when it is mounted.
OpenCreate ==
    /\ Acts /\ InWindow
    /\ tree # None
    /\ dialog' = actions + 1
    /\ Fetch({actions + 1}, gen, conn)
    /\ UNCHANGED <<conn, gen, tree, countVars, autoVars, target, deleting, admin, world>>

CloseCreate ==
    /\ dialog # 0
    /\ dialog' = 0
    /\ UNCHANGED <<conn, gen, listVars, countVars, autoVars, target, deleting, admin, world, actions>>

\* handleCreate: a subscription needs a topic of the tree.  The connection is
\* the active one of that moment.
Create(e) ==
    /\ Acts
    /\ dialog # 0 /\ conn # None
    /\ \A a \in admin : a.by # dialog
    /\ e \in Nameable
    /\ admin' = admin \cup
            {[kind |-> "create", conn |-> conn, entity |-> e, by |-> dialog, done |-> FALSE]}
    /\ UNCHANGED <<conn, gen, listVars, countVars, autoVars, dialog, target, deleting, world>>

\* After the answer the dialog closes and the tree is listed again, the tree of
\* the connection that is active by then.
Created(a) ==
    /\ a \in admin /\ a.kind = "create" /\ a.done
    /\ admin' = admin \ {a}
    /\ dialog' = 0
    /\ Fetch({a.by}, gen, conn)
    /\ UNCHANGED <<conn, gen, tree, countVars, autoVars, target, deleting, world, actions>>

ChooseDelete(e) ==
    /\ InWindow
    /\ e \in Rows
    /\ target' = e /\ deleting' = 0
    /\ UNCHANGED <<conn, gen, listVars, countVars, autoVars, dialog, admin, world, actions>>

CloseDelete ==
    /\ target # None
    /\ target' = None /\ deleting' = 0
    /\ UNCHANGED <<conn, gen, listVars, countVars, autoVars, dialog, admin, world, actions>>

\* handleDelete, on the connection that is active at that moment.
Delete ==
    /\ Acts
    /\ CanConfirm /\ conn # None
    /\ deleting' = actions + 1
    /\ admin' = admin \cup
            {[kind |-> "delete", conn |-> conn, entity |-> target, by |-> actions + 1, done |-> FALSE]}
    /\ UNCHANGED <<conn, gen, listVars, countVars, autoVars, dialog, target, world>>

\* An entity and, with a topic, its subscriptions.
With(e) == {e} \cup {s \in Subs : TopicOf[s] = e}

\* removeEntity, from the tree that is displayed by then; whichever dialog is
\* open about an entity to delete is closed.
Deleted(a) ==
    /\ a \in admin /\ a.kind = "delete" /\ a.done
    /\ admin' = admin \ {a}
    /\ target' = None /\ deleting' = 0
    /\ tree' = (IF tree = None THEN None ELSE [tree EXCEPT !.names = @ \ With(a.entity)])
    /\ shown' = [e \in Countable |-> IF tree # None /\ e \in With(a.entity) THEN 0 ELSE shown[e]]
    /\ UNCHANGED <<conn, gen, treeLoading, treeError, fetching, lists, last, latest, marked,
                   counting, loading, failed, autoVars, dialog, world, actions>>

\* The broker carries the call out.
AdminAtBroker(a) ==
    /\ a \in admin /\ ~a.done
    /\ IF a.kind = "create"
       THEN /\ a.entity \notin world[a.conn]
            /\ a.entity \in Subs => TopicOf[a.entity] \in world[a.conn]
            /\ world' = [world EXCEPT ![a.conn] = @ \cup {a.entity}]
       ELSE /\ a.entity \in world[a.conn]
            /\ world' = [world EXCEPT ![a.conn] = @ \ With(a.entity)]
    /\ admin' = (admin \ {a}) \cup {[a EXCEPT !.done = TRUE]}
    /\ UNCHANGED <<conn, gen, listVars, countVars, autoVars, dialog, target, deleting, actions>>

\* The call fails, carried out or not; the dialog shows the error.
AdminFails(a) ==
    /\ a \in admin
    /\ admin' = admin \ {a}
    /\ deleting' = (IF a.kind = "delete" /\ a.by = deleting THEN 0 ELSE deleting)
    /\ UNCHANGED <<conn, gen, listVars, countVars, autoVars, dialog, target, world, actions>>

-----------------------------------------------------------------------------
User ==
    \/ \E k \in Conns \cup {None} : SetActive(k)
    \/ \E e \in Countable : RefreshOne(e)
    \/ \E e \in Entities : ChooseDelete(e) \/ Create(e)
    \/ Refresh \/ TogglePolling \/ OpenCreate \/ CloseCreate \/ CloseDelete \/ Delete

ListAnswer == \E l \in lists : Listed(l) \/ NotListed(l)
CountAnswer ==
    \E c \in counting :
        \/ \E given \in SUBSET c.keys : \E errors \in SUBSET (c.keys \ given) : Counted(c, given, errors)
        \/ CountFails(c)
AdminAnswer == \E a \in admin : Created(a) \/ Deleted(a) \/ AdminFails(a)
Broker ==
    \/ \E l \in lists : ListAtBroker(l)
    \/ \E a \in admin : AdminAtBroker(a)

Next == User \/ Tick \/ ListAnswer \/ CountAnswer \/ AdminAnswer \/ Broker

Spec == Init /\ [][Next]_vars

\* Every call of the bridge returns.
FairSpec == Spec /\ WF_vars(ListAnswer) /\ WF_vars(CountAnswer)

-----------------------------------------------------------------------------
(* Properties.                                                             *)

\* The tree on display was listed for the connection that is active, however
\* late an answer arrives after the user has switched (connectionGeneration).
TreeOfConnection == tree # None => tree.of = conn

\* Automatic refresh does not stop: while the timer waits, a request for all
\* counts of this connection is in flight, and its end is what it waits for
\* (entityCountsLoading is 1 exactly while there is one).
PollingGoesOn ==
    LET running == {c \in counting : c.all /\ c.gen = gen}
    IN  /\ loading = Cardinality(running)
        /\ waiting => Cardinality(running) = 1

\* "Last known values stay visible while marked stale" (docs/troubleshooting.md:6):
\* a value older than the latest failure to refresh it carries the mark, until
\* it is refreshed, whatever was asked meanwhile.
StaleIsMarked ==
    \A e \in Countable : LET row == TreeItem(e) IN
        row.count # 0 /\ failed[e] > row.count => row.stale

\* A count is the answer to the latest request for it, never to an earlier one
\* that comes in late (countRequestSequence and countRefresh).
Answers == INSTANCE LatestAnswers WITH Keys <- Countable
LatestWins == Answers!Spec

\* The tree does not go on loading for ever, whatever the user did meanwhile
\* and although two users of the hook share the flag.
LoadingEnds == treeLoading ~> ~treeLoading

=============================================================================
