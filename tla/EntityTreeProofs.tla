-------------------------- MODULE EntityTreeProofs --------------------------
(***************************************************************************)
(* Theorems about EntityTree: its type correctness, that the tree is the   *)
(* active connection's, that stale counts are marked, that automatic       *)
(* refresh goes on, and that a count is always the latest answer           *)
(* (LatestAnswers).                                                        *)
(***************************************************************************)
EXTENDS EntityTree, FiniteSetTheorems, TLAPS

-----------------------------------------------------------------------------
(* Type correctness, in the parts the handlers disturb.                    *)

ListType ==
    /\ tree \in [of : Conns, names : SUBSET Entities] \cup {None}
    /\ treeLoading \in BOOLEAN /\ treeError \in BOOLEAN
    /\ fetching \in [Users -> Nat \cup {None}]
    /\ lists \in SUBSET ListCall
CountType ==
    /\ last \in Nat
    /\ latest \in [Countable -> Nat] /\ shown \in [Countable -> Nat]
    /\ marked \in [Countable -> BOOLEAN] /\ failed \in [Countable -> Nat]
    /\ counting \in SUBSET CountCall
    /\ loading \in Nat
AutoType == polling \in BOOLEAN /\ waiting \in BOOLEAN
DialogType ==
    /\ dialog \in Users
    /\ target \in Entities \cup {None} /\ deleting \in Users
    /\ admin \in SUBSET AdminCall
    /\ world \in [Conns -> SUBSET Entities]
ConnType == conn \in Conns \cup {None} /\ gen \in Nat
ActionType == actions \in 0..MaxActions

Types == ConnType /\ ListType /\ CountType /\ AutoType /\ DialogType /\ ActionType

\* The parts make up the type invariant.
LEMMA TypesAreTypeOK == Types <=> TypeOK
  BY DEF Types, ConnType, ListType, CountType, AutoType, DialogType, ActionType, TypeOK

\* A call to list is well formed whoever makes it.
LEMMA FetchTypes ==
    ASSUME Types, NEW C, C \subseteq Users, NEW g \in Nat, NEW k \in Conns \cup {None},
           Fetch(C, g, k)
    PROVE  /\ lists' \in SUBSET ListCall
           /\ fetching' \in [Users -> Nat \cup {None}]
           /\ treeLoading' \in BOOLEAN /\ treeError' \in BOOLEAN
  <1>1. lists' \in SUBSET ListCall
    <2>1. CASE k = None
      BY <2>1 DEF Fetch, Types, ListType
    <2>2. CASE k # None
      <3>1. \A u \in C : [by |-> u, gen |-> g, conn |-> k, read |-> FALSE, found |-> {}] \in ListCall
        BY <2>2 DEF ListCall
      <3> QED BY <2>2, <3>1 DEF Fetch, Types, ListType
    <2> QED BY <2>1, <2>2
  <1>2. fetching' \in [Users -> Nat \cup {None}]
    BY DEF Fetch, Types, ListType
  <1>3. treeLoading' \in BOOLEAN /\ treeError' \in BOOLEAN
    BY DEF Fetch, Types, ListType
  <1> QED BY <1>1, <1>2, <1>3

\* A request for all counts is well formed.
LEMMA FetchCountsTypes ==
    ASSUME Types, NEW names \in SUBSET Entities, FetchCounts(names)
    PROVE  CountType'
  <1>1. CASE CountsStart(names)
    <2>1. last' \in Nat /\ loading' \in Nat
      BY <1>1 DEF FetchCounts, Types, CountType
    <2>2. latest' \in [Countable -> Nat]
      BY <1>1 DEF FetchCounts, Types, CountType
    <2>3. counting' \in SUBSET CountCall
      <3>1. [id |-> last + 1, gen |-> gen, keys |-> names \cap Countable, all |-> TRUE] \in CountCall
        BY DEF Types, CountType, ConnType, CountCall
      <3> QED BY <1>1, <3>1 DEF FetchCounts, Types, CountType
    <2> QED BY <1>1, <2>1, <2>2, <2>3 DEF FetchCounts, Types, CountType
  <1>2. CASE ~CountsStart(names)
    BY <1>2 DEF FetchCounts, Types, CountType, countVars
  <1> QED BY <1>1, <1>2

\* An action leaves the counter within its bound.
LEMMA UsersActing ==
    ASSUME Types, TreeAssumption, Acts
    PROVE  ActionType' /\ actions + 1 \in Users
  BY DEF Types, ActionType, Acts, Users, TreeAssumption

\* Every handler preserves the types.
LEMMA TypesPreserved ==
    ASSUME Types, TreeAssumption, Next
    PROVE  Types'
  <1>u. Sidebar \in Users
    BY TreeAssumption DEF Sidebar, Users
  <1>1. ASSUME NEW k \in Conns \cup {None}, SetActive(k) PROVE Types'
    <2>1. {Sidebar, dialog} \subseteq Users /\ gen + 1 \in Nat
      BY <1>u DEF Types, DialogType, ConnType
    <2>2. Fetch({Sidebar, dialog}, gen + 1, k)
      BY <1>1 DEF SetActive
    <2>3. ListType'
      BY <1>1, <2>1, <2>2, FetchTypes DEF SetActive, ListType
    <2>4. CountType'
      BY <1>1 DEF SetActive, Types, CountType
    <2>5. AutoType'
      <3>1. RefreshDetected(0) \in BOOLEAN
        BY DEF RefreshDetected, Types, AutoType
      <3> QED BY <1>1, <3>1 DEF SetActive, Types, AutoType
    <2>6. DialogType'
      BY <1>1 DEF SetActive, Types, DialogType, dialogVars
    <2>7. ConnType' /\ ActionType'
      BY <1>1 DEF SetActive, Types, ConnType, ActionType
    <2> QED BY <2>3, <2>4, <2>5, <2>6, <2>7 DEF Types
  <1>2. ASSUME NEW e \in Countable, RefreshOne(e) PROVE Types'
    <2>1. ConnType' /\ ListType' /\ AutoType' /\ DialogType'
      BY <1>2 DEF RefreshOne, Types, ConnType, ListType, AutoType, DialogType, listVars,
                  autoVars, dialogVars
    <2>2. ActionType'
      BY <1>2, UsersActing DEF RefreshOne
    <2>3. last' \in Nat /\ latest' \in [Countable -> Nat]
      BY <1>2 DEF RefreshOne, Types, CountType
    <2>4. counting' \in SUBSET CountCall
      <3>1. [id |-> last + 1, gen |-> gen, keys |-> {e}, all |-> FALSE] \in CountCall
        BY DEF Types, CountType, ConnType, CountCall
      <3> QED BY <1>2, <3>1 DEF RefreshOne, Types, CountType
    <2>5. CountType'
      BY <1>2, <2>3, <2>4 DEF RefreshOne, Types, CountType
    <2> QED BY <2>1, <2>2, <2>5 DEF Types
  <1>3. ASSUME NEW e \in Entities, ChooseDelete(e) PROVE Types'
    <2>1. ConnType' /\ ListType' /\ CountType' /\ AutoType' /\ ActionType'
      BY <1>3 DEF ChooseDelete, Types, ConnType, ListType, CountType, AutoType, ActionType,
                  listVars, countVars, autoVars
    <2>2. DialogType'
      BY <1>3, <1>u DEF ChooseDelete, Types, DialogType, Sidebar
    <2> QED BY <2>1, <2>2 DEF Types
  <1>4. ASSUME NEW e \in Entities, Create(e) PROVE Types'
    <2>1. ConnType' /\ ListType' /\ CountType' /\ AutoType'
      BY <1>4 DEF Create, Types, ConnType, ListType, CountType, AutoType,
                  listVars, countVars, autoVars
    <2>2. DialogType'
      <3>1. conn \in Conns /\ dialog \in Users
        BY <1>4 DEF Create, Types, ConnType, DialogType
      <3>2. [kind |-> "create", conn |-> conn, entity |-> e, by |-> dialog, done |-> FALSE] \in AdminCall
        BY <3>1 DEF AdminCall
      <3> QED BY <1>4, <3>2 DEF Create, Types, DialogType
    <2>3. ActionType'
      BY <1>4, UsersActing DEF Create
    <2> QED BY <2>1, <2>2, <2>3 DEF Types
  <1>5. ASSUME Refresh PROVE Types'
    <2>1. ConnType' /\ CountType' /\ AutoType' /\ DialogType'
      BY <1>5 DEF Refresh, Types, ConnType, CountType, AutoType, DialogType, countVars,
                  autoVars, dialogVars
    <2>2. {Sidebar} \subseteq Users /\ gen \in Nat /\ conn \in Conns \cup {None}
      BY <1>u DEF Types, ConnType
    <2>3. Fetch({Sidebar}, gen, conn)
      BY <1>5 DEF Refresh
    <2>4. ListType'
      BY <1>5, <2>2, <2>3, FetchTypes DEF Refresh, ListType, Types
    <2>5. ActionType'
      BY <1>5, UsersActing DEF Refresh
    <2> QED BY <2>1, <2>4, <2>5 DEF Types
  <1>6. ASSUME TogglePolling PROVE Types'
    <2>1. ConnType' /\ ListType' /\ CountType' /\ DialogType'
      BY <1>6 DEF TogglePolling, Types, ConnType, ListType, CountType, DialogType,
                  listVars, countVars, dialogVars
    <2>2. AutoType'
      BY <1>6 DEF TogglePolling, Types, AutoType
    <2>3. ActionType'
      BY <1>6, UsersActing DEF TogglePolling
    <2> QED BY <2>1, <2>2, <2>3 DEF Types
  <1>7. ASSUME OpenCreate PROVE Types'
    <2>1. ConnType' /\ CountType' /\ AutoType'
      BY <1>7 DEF OpenCreate, Types, ConnType, CountType, AutoType, countVars, autoVars
    <2>2. ActionType' /\ actions + 1 \in Users
      BY <1>7, UsersActing DEF OpenCreate
    <2>3. DialogType'
      BY <1>7, <2>2 DEF OpenCreate, Types, DialogType
    <2>4. {actions + 1} \subseteq Users /\ gen \in Nat /\ conn \in Conns \cup {None}
      BY <2>2 DEF Types, ConnType
    <2>5. Fetch({actions + 1}, gen, conn)
      BY <1>7 DEF OpenCreate
    <2>6. ListType'
      BY <1>7, <2>4, <2>5, FetchTypes DEF OpenCreate, ListType, Types
    <2> QED BY <2>1, <2>2, <2>3, <2>6 DEF Types
  <1>8. ASSUME CloseCreate \/ CloseDelete PROVE Types'
    <2>1. ConnType' /\ ListType' /\ CountType' /\ AutoType' /\ ActionType'
      BY <1>8 DEF CloseCreate, CloseDelete, Types, ConnType, ListType, CountType, AutoType,
                  ActionType, listVars, countVars, autoVars
    <2>2. DialogType'
      BY <1>8, <1>u DEF CloseCreate, CloseDelete, Types, DialogType, Sidebar
    <2> QED BY <2>1, <2>2 DEF Types
  <1>9. ASSUME Delete PROVE Types'
    <2>1. ConnType' /\ ListType' /\ CountType' /\ AutoType'
      BY <1>9 DEF Delete, Types, ConnType, ListType, CountType, AutoType,
                  listVars, countVars, autoVars
    <2>2. DialogType'
      <3>1. conn \in Conns /\ target \in Entities
        BY <1>9 DEF Delete, CanConfirm, Types, ConnType, DialogType
      <3>2. actions + 1 \in Users
        BY <1>9, UsersActing DEF Delete
      <3>3. [kind |-> "delete", conn |-> conn, entity |-> target, by |-> actions + 1, done |-> FALSE] \in AdminCall
        BY <3>1, <3>2 DEF AdminCall
      <3> QED BY <1>9, <3>2, <3>3 DEF Delete, Types, DialogType
    <2>3. ActionType'
      BY <1>9, UsersActing DEF Delete
    <2> QED BY <2>1, <2>2, <2>3 DEF Types
  <1>10. ASSUME Tick PROVE Types'
    <2>1. ConnType' /\ ListType' /\ DialogType'
      BY <1>10 DEF Tick, Types, ConnType, ListType, DialogType, listVars, dialogVars
    <2>2. tree.names \in SUBSET Entities /\ FetchCounts(tree.names)
      BY <1>10 DEF Tick, Types, ListType
    <2>3. CountType'
      BY <2>2, FetchCountsTypes
    <2>4. AutoType'
      <3>1. CountsStart(tree.names) \in BOOLEAN
        BY DEF CountsStart
      <3> QED BY <1>10, <3>1 DEF Tick, Types, AutoType
    <2>5. ActionType'
      BY <1>10, UsersActing DEF Tick
    <2> QED BY <2>1, <2>3, <2>4, <2>5 DEF Types
  <1>11. ASSUME NEW l \in lists, Listed(l) PROVE Types'
    <2>0. l \in ListCall
      BY DEF Types, ListType
    <2>1. ConnType' /\ AutoType' /\ DialogType' /\ ActionType'
      BY <1>11 DEF Listed, Types, ConnType, AutoType, DialogType, ActionType, autoVars, dialogVars
    <2>2. fetching' \in [Users -> Nat \cup {None}] /\ treeLoading' \in BOOLEAN
      BY <1>11 DEF Listed, Release, Types, ListType
    <2>3. tree' \in [of : Conns, names : SUBSET Entities] \cup {None}
      BY <1>11, <2>0 DEF Listed, Types, ListType, ListCall
    <2>4. ListType'
      BY <1>11, <2>2, <2>3 DEF Listed, Types, ListType
    <2>5. CountType'
      <3>1. CASE l.gen = gen
        <4>1. l.found \in SUBSET Entities
          BY <2>0 DEF ListCall
        <4>2. FetchCounts(l.found)
          BY <1>11, <3>1 DEF Listed
        <4> QED BY <4>1, <4>2, FetchCountsTypes
      <3>2. CASE l.gen # gen
        BY <1>11, <3>2 DEF Listed, Types, CountType, countVars
      <3> QED BY <3>1, <3>2
    <2> QED BY <2>1, <2>4, <2>5 DEF Types
  <1>12. ASSUME NEW l \in lists, NotListed(l) PROVE Types'
    <2>1. ConnType' /\ CountType' /\ AutoType' /\ DialogType' /\ ActionType'
      BY <1>12 DEF NotListed, Types, ConnType, CountType, AutoType, DialogType, ActionType,
                   countVars, autoVars, dialogVars
    <2>2. fetching' \in [Users -> Nat \cup {None}] /\ treeLoading' \in BOOLEAN
          /\ treeError' \in BOOLEAN
      BY <1>12 DEF NotListed, Release, Types, ListType
    <2>3. ListType'
      BY <1>12, <2>2 DEF NotListed, Types, ListType
    <2> QED BY <2>1, <2>3 DEF Types
  <1>13. ASSUME NEW c \in counting, NEW given \in SUBSET c.keys, NEW errors \in SUBSET (c.keys \ given),
                Counted(c, given, errors)
         PROVE Types'
    <2>0. c \in CountCall
      BY DEF Types, CountType
    <2>1. ConnType' /\ ListType' /\ DialogType' /\ ActionType'
      BY <1>13 DEF Counted, Types, ConnType, ListType, DialogType, ActionType, listVars, dialogVars
    <2>2. shown' \in [Countable -> Nat] /\ failed' \in [Countable -> Nat]
      BY <1>13, <2>0 DEF Counted, Types, CountType, CountCall
    <2>3. marked' \in [Countable -> BOOLEAN]
      BY <1>13 DEF Counted, Types, CountType
    <2>4. loading' \in Nat
      BY <1>13 DEF Counted, CountCallEnds, Types, CountType
    <2>5. CountType'
      BY <1>13, <2>2, <2>3, <2>4 DEF Counted, Types, CountType
    <2>6. AutoType'
      BY <1>13 DEF Counted, CountCallEnds, RefreshDetected, Types, AutoType
    <2> QED BY <2>1, <2>5, <2>6 DEF Types
  <1>14. ASSUME NEW c \in counting, CountFails(c) PROVE Types'
    <2>0. c \in CountCall
      BY DEF Types, CountType
    <2>1. ConnType' /\ ListType' /\ DialogType' /\ ActionType'
      BY <1>14 DEF CountFails, Types, ConnType, ListType, DialogType, ActionType, listVars, dialogVars
    <2>2. failed' \in [Countable -> Nat]
      BY <1>14, <2>0 DEF CountFails, Types, CountType, CountCall
    <2>3. marked' \in [Countable -> BOOLEAN]
      BY <1>14 DEF CountFails, Types, CountType
    <2>4. loading' \in Nat
      BY <1>14 DEF CountFails, CountCallEnds, Types, CountType
    <2>5. CountType'
      BY <1>14, <2>2, <2>3, <2>4 DEF CountFails, Types, CountType
    <2>6. AutoType'
      BY <1>14 DEF CountFails, CountCallEnds, RefreshDetected, Types, AutoType
    <2> QED BY <2>1, <2>5, <2>6 DEF Types
  <1>15. ASSUME NEW a \in admin, Created(a) PROVE Types'
    <2>0. a \in AdminCall
      BY DEF Types, DialogType
    <2>1. ConnType' /\ CountType' /\ AutoType' /\ ActionType'
      BY <1>15 DEF Created, Types, ConnType, CountType, AutoType, ActionType, countVars, autoVars
    <2>2. DialogType'
      BY <1>15, <1>u DEF Created, Types, DialogType, Sidebar
    <2>3. {a.by} \subseteq Users /\ gen \in Nat /\ conn \in Conns \cup {None}
      BY <2>0 DEF AdminCall, Types, ConnType
    <2>4. Fetch({a.by}, gen, conn)
      BY <1>15 DEF Created
    <2>5. ListType'
      BY <1>15, <2>3, <2>4, FetchTypes DEF Created, ListType, Types
    <2> QED BY <2>1, <2>2, <2>5 DEF Types
  <1>16. ASSUME NEW a \in admin, Deleted(a) PROVE Types'
    <2>1. ConnType' /\ AutoType' /\ ActionType'
      BY <1>16 DEF Deleted, Types, ConnType, AutoType, ActionType, autoVars
    <2>2. DialogType'
      BY <1>16, <1>u DEF Deleted, Types, DialogType, Sidebar
    <2>3. tree' \in [of : Conns, names : SUBSET Entities] \cup {None}
      <3>1. CASE tree = None
        BY <1>16, <3>1 DEF Deleted
      <3>2. CASE tree # None
        <4>1. tree \in [of : Conns, names : SUBSET Entities]
          BY <3>2 DEF Types, ListType
        <4>2. tree' = [tree EXCEPT !.names = tree.names \ With(a.entity)]
          BY <1>16, <3>2 DEF Deleted
        <4> QED BY <4>1, <4>2
      <3> QED BY <3>1, <3>2
    <2>4. ListType'
      BY <1>16, <2>3 DEF Deleted, Types, ListType
    <2>5. shown' \in [Countable -> Nat]
      BY <1>16 DEF Deleted, Types, CountType
    <2>6. CountType'
      BY <1>16, <2>5 DEF Deleted, Types, CountType
    <2> QED BY <2>1, <2>2, <2>4, <2>6 DEF Types
  <1>17. ASSUME NEW a \in admin, AdminFails(a) PROVE Types'
    <2>1. ConnType' /\ ListType' /\ CountType' /\ AutoType' /\ ActionType'
      BY <1>17 DEF AdminFails, Types, ConnType, ListType, CountType, AutoType, ActionType,
                   listVars, countVars, autoVars
    <2>2. DialogType'
      <3>1. deleting' \in Users
        BY <1>17, <1>u DEF AdminFails, Types, DialogType, Sidebar
      <3> QED BY <1>17, <3>1 DEF AdminFails, Types, DialogType
    <2> QED BY <2>1, <2>2 DEF Types
  <1>18. ASSUME NEW l \in lists, ListAtBroker(l) PROVE Types'
    <2>0. l \in ListCall /\ world[l.conn] \in SUBSET Entities
      BY DEF Types, ListType, ListCall, DialogType
    <2>1. [l EXCEPT !.read = TRUE, !.found = world[l.conn]] \in ListCall
      BY <2>0 DEF ListCall
    <2>2. ListType'
      BY <1>18, <2>1 DEF ListAtBroker, Types, ListType
    <2>3. ConnType' /\ CountType' /\ AutoType' /\ DialogType' /\ ActionType'
      BY <1>18 DEF ListAtBroker, Types, ConnType, CountType, AutoType, DialogType, ActionType,
                   countVars, autoVars, dialogVars
    <2> QED BY <2>2, <2>3 DEF Types
  <1>19. ASSUME NEW a \in admin, AdminAtBroker(a) PROVE Types'
    <2>0. a \in AdminCall
      BY DEF Types, DialogType
    <2>1. [a EXCEPT !.done = TRUE] \in AdminCall
      BY <2>0 DEF AdminCall
    <2>2. world' \in [Conns -> SUBSET Entities]
      BY <1>19, <2>0 DEF AdminAtBroker, Types, DialogType, AdminCall
    <2>3. DialogType'
      BY <1>19, <2>1, <2>2 DEF AdminAtBroker, Types, DialogType
    <2>4. ConnType' /\ ListType' /\ CountType' /\ AutoType' /\ ActionType'
      BY <1>19 DEF AdminAtBroker, Types, ConnType, ListType, CountType, AutoType, ActionType,
                   listVars, countVars, autoVars
    <2> QED BY <2>3, <2>4 DEF Types
  <1> QED
    BY <1>1, <1>2, <1>3, <1>4, <1>5, <1>6, <1>7, <1>8, <1>9, <1>10, <1>11, <1>12, <1>13,
       <1>14, <1>15, <1>16, <1>17, <1>18, <1>19
    DEF Next, User, ListAnswer, CountAnswer, AdminAnswer, Broker

\* The store starts with values of their types.
LEMMA InitTypes == Init => Types
  <1>1. 0 \in Users
    BY TreeAssumption DEF Users
  <1>2. Init => ConnType
    BY DEF Init, ConnType
  <1>7. Init => AutoType
    <2> SUFFICES ASSUME Init PROVE AutoType
      OBVIOUS
    <2>1. polling = TRUE /\ waiting = FALSE
      BY Zenon DEF Init
    <2>2. polling \in BOOLEAN
      BY <2>1, Zenon
    <2>3. waiting \in BOOLEAN
      BY <2>1, Zenon
    <2> QED BY <2>2, <2>3, Zenon DEF AutoType
  <1>6. Init => ListType
    <2> SUFFICES ASSUME Init PROVE ListType
      OBVIOUS
    <2>1. tree = None /\ lists = {} /\ fetching = [u \in Users |-> None]
      BY DEF Init
    <2>2. treeLoading \in BOOLEAN /\ treeError \in BOOLEAN
      BY DEF Init
    <2> QED BY <2>1, <2>2 DEF ListType
  <1>3. Init => CountType
    BY DEF Init, CountType
  <1>4. Init => DialogType
    BY <1>1, TreeAssumption DEF Init, DialogType
  <1>5. Init => ActionType
    BY TreeAssumption DEF Init, ActionType
  <1> QED BY <1>2, <1>3, <1>4, <1>5, <1>6, <1>7 DEF Types

\* Every variable keeps its type (the interface's state of src/store/appStore.ts).
THEOREM TypeCorrect == Spec => []TypeOK
  <1>1. Init => Types
    BY InitTypes
  <1>2. Types /\ [Next]_vars => Types'
    <2> SUFFICES ASSUME Types, [Next]_vars PROVE Types'
      OBVIOUS
    <2>1. CASE Next
      BY <2>1, TypesPreserved, TreeAssumption
    <2>2. CASE UNCHANGED vars
      BY <2>2 DEF Types, ConnType, ListType, CountType, AutoType, DialogType, ActionType, vars,
                  listVars, countVars, autoVars, dialogVars
    <2> QED BY <2>1, <2>2
  <1> QED BY <1>1, <1>2, TypesAreTypeOK, PTL DEF Spec

-----------------------------------------------------------------------------
(* The invariant.  A call of a past generation is told from one of this by *)
(* its number; requests are numbered upwards.                              *)

Generations ==
    /\ \A l \in lists : l.gen <= gen /\ (l.gen = gen => l.conn = conn)
    /\ \A c \in counting : c.gen <= gen
Numbered ==
    /\ \A e \in Countable : latest[e] <= last /\ failed[e] <= latest[e]
    /\ \A c \in counting : c.id <= last

\* The one running request for all counts, if any, is what "loading" counts and
\* what the timer waits for.
Running == {c \in counting : c.all /\ c.gen = gen}
OneRunning ==
    \/ loading = 0 /\ Running = {} /\ ~waiting
    \/ loading = 1 /\ \E c \in counting : Running = {c}

\* StaleIsMarked, in the variables.
MarkKept == \A e \in Countable : shown[e] # 0 /\ failed[e] > shown[e] => marked[e]

Inv == Types /\ Generations /\ Numbered /\ TreeOfConnection /\ MarkKept /\ OneRunning

\* A request for all counts that is started is the one that runs.
LEMMA FetchCountsRuns ==
    ASSUME Types, OneRunning, NEW names \in SUBSET Entities, FetchCounts(names),
           gen' = gen, CountsStart(names)
    PROVE  loading' = 1 /\ \E c \in counting' : Running' = {c}
  <1> DEFINE new == [id |-> last + 1, gen |-> gen, keys |-> names \cap Countable, all |-> TRUE]
  <1>1. loading = 0 /\ Running = {}
    BY DEF CountsStart, OneRunning
  <1>2. counting' = counting \cup {new} /\ loading' = 1
    BY <1>1 DEF FetchCounts
  <1>3. new.all /\ new.gen = gen
    OBVIOUS
  <1> HIDE DEF new
  <1>4. Running' = {new}
    BY <1>1, <1>2, <1>3 DEF Running
  <1> QED BY <1>2, <1>4

\* A request for all counts that is not started leaves what runs.
LEMMA FetchCountsIdle ==
    ASSUME NEW names \in SUBSET Entities, FetchCounts(names), gen' = gen, ~CountsStart(names)
    PROVE  loading' = loading /\ Running' = Running /\ counting' = counting
  BY DEF FetchCounts, Running, countVars

\* The end of a count call, with the flag the timer waits for.
LEMMA CallEnds ==
    ASSUME Types, OneRunning, NEW c \in counting, CountCallEnds(c),
           counting' = counting \ {c}, gen' = gen
    PROVE  OneRunning'
  <1>1. CASE c.all /\ c.gen = gen
    <2>1. loading = 1 /\ Running = {c}
      BY <1>1 DEF OneRunning, Running
    <2>2. loading' = 0 /\ ~waiting'
      <3>1. loading' = 0 /\ waiting' = RefreshDetected(0)
        BY <1>1, <2>1 DEF CountCallEnds
      <3>2. 0 # loading
        BY <2>1
      <3>3. ~RefreshDetected(0)
        BY <3>2, Zenon DEF RefreshDetected
      <3> QED BY <3>1, <3>3, Zenon
    <2>3. Running' = {}
      BY <2>1 DEF Running
    <2> QED BY <2>2, <2>3 DEF OneRunning
  <1>2. CASE ~(c.all /\ c.gen = gen)
    <2>1. loading' = loading /\ waiting' = waiting
      BY <1>2 DEF CountCallEnds, RefreshDetected, Types, AutoType
    <2>2. Running' = Running
      BY <1>2 DEF Running
    <2>3. \A d \in counting : Running = {d} => d \in counting'
      BY <1>2 DEF Running
    <2> QED BY <2>1, <2>2, <2>3 DEF OneRunning
  <1> QED BY <1>1, <1>2

\* Every handler preserves what is running.
LEMMA OneRunningPreserved ==
    ASSUME Inv, Next
    PROVE  OneRunning'
  <1> USE DEF Inv
  <1>0. ASSUME UNCHANGED <<gen, counting, loading, waiting>> PROVE OneRunning'
    BY <1>0 DEF OneRunning, Running
  <1>1. ASSUME NEW k \in Conns \cup {None}, SetActive(k) PROVE OneRunning'
    <2>1. gen' = gen + 1 /\ counting' = counting /\ loading' = 0
      BY <1>1 DEF SetActive
    <2>2. Running' = {}
      <3>1. \A c \in counting : c.gen <= gen /\ c.gen \in Nat
        BY DEF Generations, Types, CountType, CountCall
      <3>2. gen \in Nat
        BY DEF Types, ConnType
      <3>3. \A c \in counting' : c.gen # gen'
        BY <2>1, <3>1, <3>2
      <3> QED BY <3>3 DEF Running
    <2>3. ~waiting'
      <3>1. waiting' = (waiting /\ ~(0 # loading /\ 0 = 0))
        BY <1>1, Zenon DEF SetActive, RefreshDetected
      <3>2. CASE ~waiting
        BY <3>1, <3>2, Zenon
      <3>3. CASE 0 # loading
        BY <3>1, <3>3, Zenon
      <3> QED BY <3>2, <3>3 DEF OneRunning
    <2> QED BY <2>1, <2>2, <2>3 DEF OneRunning
  <1>2. ASSUME NEW e \in Countable, RefreshOne(e) PROVE OneRunning'
    <2> DEFINE new == [id |-> last + 1, gen |-> gen, keys |-> {e}, all |-> FALSE]
    <2>1. counting' = counting \cup {new} /\ gen' = gen /\ loading' = loading /\ waiting' = waiting
      BY <1>2 DEF RefreshOne, autoVars
    <2>2. ~new.all
      OBVIOUS
    <2> HIDE DEF new
    <2>3. Running' = Running
      BY <2>1, <2>2 DEF Running
    <2> QED BY <2>1, <2>3 DEF OneRunning
  <1>3. ASSUME Tick PROVE OneRunning'
    <2>1. FetchCounts(tree.names) /\ tree.names \in SUBSET Entities /\ gen' = gen /\ ~waiting
          /\ waiting' = CountsStart(tree.names)
      BY <1>3 DEF Tick, Types, ListType
    <2>2. CASE CountsStart(tree.names)
      <3>1. loading' = 1 /\ \E c \in counting' : Running' = {c}
        BY <2>1, <2>2, FetchCountsRuns
      <3> QED BY <3>1 DEF OneRunning
    <2>3. CASE ~CountsStart(tree.names)
      <3>1. loading' = loading /\ Running' = Running /\ counting' = counting /\ ~waiting'
        BY <2>1, <2>3, FetchCountsIdle
      <3> QED BY <2>1, <3>1 DEF OneRunning
    <2> QED BY <2>2, <2>3
  <1>4. ASSUME NEW l \in lists, Listed(l) PROVE OneRunning'
    <2>0. l.found \in SUBSET Entities
      BY DEF Types, ListType, ListCall
    <2>1. gen' = gen /\ waiting' = waiting
      BY <1>4 DEF Listed, autoVars
    <2>2. CASE l.gen = gen /\ CountsStart(l.found)
      <3>1. FetchCounts(l.found)
        BY <1>4, <2>2 DEF Listed
      <3>2. loading' = 1 /\ \E c \in counting' : Running' = {c}
        BY <2>0, <2>1, <2>2, <3>1, FetchCountsRuns
      <3> QED BY <3>2 DEF OneRunning
    <2>3. CASE l.gen = gen /\ ~CountsStart(l.found)
      <3>1. FetchCounts(l.found)
        BY <1>4, <2>3 DEF Listed
      <3>2. loading' = loading /\ Running' = Running /\ counting' = counting
        BY <2>0, <2>1, <2>3, <3>1, FetchCountsIdle
      <3> QED BY <2>1, <3>2 DEF OneRunning
    <2>4. CASE l.gen # gen
      BY <1>4, <2>4, <1>0 DEF Listed, countVars, autoVars
    <2> QED BY <2>2, <2>3, <2>4
  <1>5. ASSUME NEW c \in counting, NEW given \in SUBSET c.keys, NEW errors \in SUBSET (c.keys \ given),
               Counted(c, given, errors)
        PROVE OneRunning'
    BY <1>5, CallEnds DEF Counted
  <1>6. ASSUME NEW c \in counting, CountFails(c) PROVE OneRunning'
    BY <1>6, CallEnds DEF CountFails
  <1>7. ASSUME \/ Refresh \/ TogglePolling \/ OpenCreate \/ CloseCreate \/ CloseDelete \/ Delete
               \/ \E e \in Entities : ChooseDelete(e) \/ Create(e)
               \/ \E l \in lists : NotListed(l) \/ ListAtBroker(l)
               \/ \E a \in admin : Created(a) \/ Deleted(a) \/ AdminFails(a) \/ AdminAtBroker(a)
        PROVE OneRunning'
    BY <1>7, <1>0 DEF Refresh, TogglePolling, OpenCreate, CloseCreate, CloseDelete, Delete,
       ChooseDelete, Create, NotListed, ListAtBroker, Created, Deleted, AdminFails, AdminAtBroker,
       countVars, autoVars
  <1> QED BY <1>1, <1>2, <1>3, <1>4, <1>5, <1>6, <1>7
          DEF Next, User, ListAnswer, CountAnswer, AdminAnswer, Broker

\* Every handler preserves the order of generations and the tree's connection.
LEMMA GenerationsPreserved ==
    ASSUME Inv, Next
    PROVE  Generations' /\ TreeOfConnection'
  <1> USE DEF Inv
  <1>0. ASSUME UNCHANGED <<gen, conn, lists, counting, tree>> PROVE Generations' /\ TreeOfConnection'
    BY <1>0 DEF Generations, TreeOfConnection
  <1>a. ASSUME NEW C, NEW k, NEW g, Fetch(C, g, k)
        PROVE  \A l \in lists' : l \in lists \/ (l.gen = g /\ l.conn = k)
    BY <1>a DEF Fetch
  <1>b. ASSUME gen' = gen, conn' = conn, NEW C, Fetch(C, gen, conn),
               counting' = counting, tree' = tree
        PROVE  Generations' /\ TreeOfConnection'
    BY <1>a, <1>b DEF Generations, TreeOfConnection, Types, ConnType
  <1>c. ASSUME gen' = gen, conn' = conn, lists' \subseteq lists, tree' = tree,
               \A c \in counting' : c \in counting \/ c.gen = gen
        PROVE  Generations' /\ TreeOfConnection'
    BY <1>c DEF Generations, TreeOfConnection, Types, ConnType
  <1>1. ASSUME NEW k \in Conns \cup {None}, SetActive(k) PROVE Generations' /\ TreeOfConnection'
    <2>1. gen' = gen + 1 /\ conn' = k /\ tree' = None /\ counting' = counting
      BY <1>1 DEF SetActive
    <2>2. Fetch({Sidebar, dialog}, gen + 1, k)
      BY <1>1 DEF SetActive
    <2>3. \A l \in lists' : l \in lists \/ (l.gen = gen + 1 /\ l.conn = k)
      BY <2>2, <1>a
    <2>4. \A l \in lists' : l.gen <= gen' /\ (l.gen = gen' => l.conn = conn')
      BY <2>1, <2>3 DEF Generations, Types, ConnType, ListType, ListCall
    <2>5. \A c \in counting' : c.gen <= gen'
      BY <2>1 DEF Generations, Types, ConnType, CountType, CountCall
    <2> QED BY <2>1, <2>4, <2>5 DEF Generations, TreeOfConnection
  <1>2. ASSUME NEW e \in Countable, RefreshOne(e) PROVE Generations' /\ TreeOfConnection'
    BY <1>2, <1>c DEF RefreshOne, listVars
  <1>3. ASSUME Tick PROVE Generations' /\ TreeOfConnection'
    BY <1>3, <1>c DEF Tick, listVars, FetchCounts, countVars
  <1>4. ASSUME NEW l \in lists, Listed(l) PROVE Generations' /\ TreeOfConnection'
    <2>1. CASE l.gen = gen
      <3>1. \A c \in counting' : c \in counting \/ c.gen = gen
        BY <1>4, <2>1 DEF Listed, FetchCounts, countVars
      <3>2. tree' = [of |-> l.conn, names |-> l.found] /\ l.conn = conn /\ conn' = conn /\ gen' = gen
        BY <1>4, <2>1 DEF Listed, Generations
      <3>3. lists' \subseteq lists
        BY <1>4 DEF Listed
      <3> QED BY <3>1, <3>2, <3>3 DEF Generations, TreeOfConnection, Types, ConnType
    <2>2. CASE l.gen # gen
      BY <1>4, <2>2, <1>c DEF Listed, countVars
    <2> QED BY <2>1, <2>2
  <1>5. ASSUME NEW c \in counting, NEW given \in SUBSET c.keys, NEW errors \in SUBSET (c.keys \ given),
               Counted(c, given, errors)
        PROVE Generations' /\ TreeOfConnection'
    BY <1>5, <1>c DEF Counted, listVars
  <1>6. ASSUME NEW c \in counting, CountFails(c) PROVE Generations' /\ TreeOfConnection'
    BY <1>6, <1>c DEF CountFails, listVars
  <1>7. ASSUME NEW l \in lists, ListAtBroker(l) PROVE Generations' /\ TreeOfConnection'
    <2>1. \A m \in lists' : m \in lists \/ (m.gen = l.gen /\ m.conn = l.conn)
      BY <1>7 DEF ListAtBroker, Types, ListType, ListCall
    <2> QED BY <1>7, <2>1 DEF ListAtBroker, Generations, TreeOfConnection, countVars
  <1>8. ASSUME NEW a \in admin, Deleted(a) PROVE Generations' /\ TreeOfConnection'
    <2>1. tree # None => tree'.of = tree.of
      BY <1>8 DEF Deleted, Types, ListType
    <2> QED BY <1>8, <2>1 DEF Deleted, Generations, TreeOfConnection
  <1>9. ASSUME Refresh \/ OpenCreate \/ \E a \in admin : Created(a)
        PROVE Generations' /\ TreeOfConnection'
    BY <1>9, <1>b DEF Refresh, OpenCreate, Created, countVars
  <1>10. ASSUME \/ TogglePolling \/ CloseCreate \/ CloseDelete \/ Delete
                \/ \E e \in Entities : ChooseDelete(e) \/ Create(e)
                \/ \E l \in lists : NotListed(l)
                \/ \E a \in admin : AdminFails(a) \/ AdminAtBroker(a)
        PROVE Generations' /\ TreeOfConnection'
    BY <1>10, <1>c DEF TogglePolling, CloseCreate, CloseDelete, Delete, ChooseDelete, Create,
       NotListed, AdminFails, AdminAtBroker, listVars, countVars
  <1> QED BY <1>1, <1>2, <1>3, <1>4, <1>5, <1>6, <1>7, <1>8, <1>9, <1>10
          DEF Next, User, ListAnswer, CountAnswer, AdminAnswer, Broker

\* Every handler preserves the numbers of requests and the marks.
LEMMA NumbersPreserved ==
    ASSUME Inv, Next
    PROVE  Numbered' /\ MarkKept'
  <1> USE DEF Inv
  <1>n. last \in Nat /\ latest \in [Countable -> Nat] /\ shown \in [Countable -> Nat]
        /\ failed \in [Countable -> Nat]
    BY DEF Types, CountType
  <1>i. \A c \in counting : c.id \in Nat
    BY DEF Types, CountType, CountCall
  <1>0. ASSUME UNCHANGED <<last, latest, shown, marked, failed, counting>>
        PROVE  Numbered' /\ MarkKept'
    BY <1>0 DEF Numbered, MarkKept
  <1>f. ASSUME NEW K, last' = last + 1,
               latest' = [e \in Countable |-> IF e \in K THEN last + 1 ELSE latest[e]],
               \A c \in counting' : c \in counting \/ c.id = last + 1,
               UNCHANGED <<marked, shown, failed>>
        PROVE  Numbered' /\ MarkKept'
    <2>1. \A e \in Countable : latest'[e] <= last' /\ failed'[e] <= latest'[e]
      BY <1>f, <1>n DEF Numbered
    <2>2. \A c \in counting' : c.id <= last'
      BY <1>f, <1>n, <1>i DEF Numbered
    <2>3. MarkKept'
      BY <1>f DEF MarkKept
    <2> QED BY <2>1, <2>2, <2>3 DEF Numbered
  <1>g. ASSUME NEW names, FetchCounts(names) PROVE Numbered' /\ MarkKept'
    <2>1. CASE CountsStart(names)
      BY <1>g, <2>1, <1>f DEF FetchCounts
    <2>2. CASE ~CountsStart(names)
      BY <1>g, <2>2, <1>0 DEF FetchCounts, countVars
    <2> QED BY <2>1, <2>2
  <1>1. ASSUME NEW k \in Conns \cup {None}, SetActive(k) PROVE Numbered' /\ MarkKept'
    <2>1. \A e \in Countable : latest'[e] = 0 /\ failed'[e] = 0 /\ shown'[e] = 0
      BY <1>1 DEF SetActive
    <2>2. last' = last /\ counting' = counting
      BY <1>1 DEF SetActive
    <2> QED BY <2>1, <2>2, <1>n DEF Numbered, MarkKept
  <1>2. ASSUME NEW e \in Countable, RefreshOne(e) PROVE Numbered' /\ MarkKept'
    <2>1. latest' = [d \in Countable |-> IF d \in {e} THEN last + 1 ELSE latest[d]]
      BY <1>2, <1>n DEF RefreshOne
    <2>2. \A c \in counting' : c \in counting \/ c.id = last + 1
      BY <1>2 DEF RefreshOne
    <2>3. last' = last + 1 /\ UNCHANGED <<marked, shown, failed>>
      BY <1>2 DEF RefreshOne
    <2> QED BY <2>1, <2>2, <2>3, <1>f
  <1>3. ASSUME Tick PROVE Numbered' /\ MarkKept'
    BY <1>3, <1>g DEF Tick
  <1>4. ASSUME NEW l \in lists, Listed(l) PROVE Numbered' /\ MarkKept'
    <2>1. CASE l.gen = gen
      BY <1>4, <2>1, <1>g DEF Listed
    <2>2. CASE l.gen # gen
      BY <1>4, <2>2, <1>0 DEF Listed, countVars
    <2> QED BY <2>1, <2>2
  <1>5. ASSUME NEW c \in counting, NEW given \in SUBSET c.keys, NEW errors \in SUBSET (c.keys \ given),
               Counted(c, given, errors)
        PROVE  Numbered' /\ MarkKept'
    <2> DEFINE mine == IF c.gen = gen THEN Mine(c) ELSE {}
    <2>1. /\ shown' = [e \in Countable |-> IF e \in given \cap mine THEN c.id ELSE shown[e]]
          /\ marked' = [e \in Countable |-> IF e \in given \cap mine THEN FALSE
                                           ELSE IF e \in errors \cap mine THEN TRUE ELSE marked[e]]
          /\ failed' = [e \in Countable |-> IF e \in errors \cap mine THEN c.id ELSE failed[e]]
      BY <1>5 DEF Counted
    <2>2. \A e \in mine : latest[e] = c.id
      BY DEF Mine
    <2>3. UNCHANGED <<last, latest>> /\ counting' = counting \ {c}
      BY <1>5 DEF Counted
    <2> HIDE DEF mine
    <2>4. \A e \in Countable : failed'[e] <= latest'[e]
      BY <2>1, <2>2, <2>3, <1>n, <1>i DEF Numbered
    <2>5. MarkKept'
      <3> SUFFICES ASSUME NEW e \in Countable, shown'[e] # 0, failed'[e] > shown'[e] PROVE marked'[e]
        BY DEF MarkKept
      <3>1. CASE e \in given \cap mine
        <4>1. shown'[e] = c.id /\ failed'[e] = failed[e] /\ latest[e] = c.id
          BY <2>1, <2>2, <3>1
        <4>2. failed[e] <= latest[e] /\ failed[e] \in Nat /\ latest[e] \in Nat
          BY <1>n DEF Numbered
        <4> QED BY <4>1, <4>2
      <3>2. CASE e \notin given /\ e \in errors \cap mine
        BY <2>1, <3>2
      <3>3. CASE e \notin given \cap mine /\ e \notin errors \cap mine
        BY <2>1, <3>3 DEF MarkKept
      <3> QED BY <3>1, <3>2, <3>3
    <2> QED BY <2>3, <2>4, <2>5 DEF Numbered
  <1>6. ASSUME NEW c \in counting, CountFails(c) PROVE Numbered' /\ MarkKept'
    <2> DEFINE mine == IF c.gen = gen THEN Mine(c) ELSE {}
    <2>1. /\ marked' = [e \in Countable |-> marked[e] \/ e \in mine]
          /\ failed' = [e \in Countable |-> IF e \in mine THEN c.id ELSE failed[e]]
      BY <1>6 DEF CountFails
    <2>2. \A e \in mine : latest[e] = c.id
      BY DEF Mine
    <2>3. UNCHANGED <<last, latest, shown>> /\ counting' = counting \ {c}
      BY <1>6 DEF CountFails
    <2> HIDE DEF mine
    <2>4. \A e \in Countable : failed'[e] <= latest'[e]
      BY <2>1, <2>2, <2>3, <1>n, <1>i DEF Numbered
    <2>5. MarkKept'
      <3> SUFFICES ASSUME NEW e \in Countable, shown'[e] # 0, failed'[e] > shown'[e] PROVE marked'[e]
        BY DEF MarkKept
      <3>1. CASE e \in mine
        BY <2>1, <3>1
      <3>2. CASE e \notin mine
        BY <2>1, <2>3, <3>2 DEF MarkKept
      <3> QED BY <3>1, <3>2
    <2> QED BY <2>3, <2>4, <2>5 DEF Numbered
  <1>7. ASSUME NEW a \in admin, Deleted(a) PROVE Numbered' /\ MarkKept'
    BY <1>7 DEF Deleted, Numbered, MarkKept
  <1>8. ASSUME \/ Refresh \/ TogglePolling \/ OpenCreate \/ CloseCreate \/ CloseDelete \/ Delete
               \/ \E e \in Entities : ChooseDelete(e) \/ Create(e)
               \/ \E l \in lists : NotListed(l) \/ ListAtBroker(l)
               \/ \E a \in admin : Created(a) \/ AdminFails(a) \/ AdminAtBroker(a)
        PROVE  Numbered' /\ MarkKept'
    BY <1>8, <1>0 DEF Refresh, TogglePolling, OpenCreate, CloseCreate, CloseDelete, Delete,
       ChooseDelete, Create, NotListed, ListAtBroker, Created, AdminFails, AdminAtBroker, countVars
  <1> QED BY <1>1, <1>2, <1>3, <1>4, <1>5, <1>6, <1>7, <1>8
          DEF Next, User, ListAnswer, CountAnswer, AdminAnswer, Broker

\* The invariant is inductive.
LEMMA Invariant == Spec => []Inv
  <1>1. Init => Inv
    <2> SUFFICES ASSUME Init PROVE Inv
      OBVIOUS
    <2>1. Types
      BY InitTypes
    <2>2. Generations /\ Numbered /\ TreeOfConnection /\ MarkKept /\ OneRunning
      BY DEF Init, Generations, Numbered, TreeOfConnection, MarkKept, OneRunning, Running
    <2> QED BY <2>1, <2>2 DEF Inv
  <1>2. Inv /\ [Next]_vars => Inv'
    <2> SUFFICES ASSUME Inv, [Next]_vars PROVE Inv'
      OBVIOUS
    <2>1. CASE Next
      BY <2>1, TypesPreserved, GenerationsPreserved, NumbersPreserved, OneRunningPreserved,
         TreeAssumption DEF Inv
    <2>2. CASE UNCHANGED vars
      <3>1. Types'
        BY <2>2 DEF Inv, Types, ConnType, ListType, CountType, AutoType, DialogType, ActionType, vars,
                    listVars, countVars, autoVars, dialogVars
      <3>2. Generations' /\ Numbered' /\ TreeOfConnection' /\ MarkKept' /\ OneRunning'
        BY <2>2 DEF Inv, Generations, Numbered, TreeOfConnection, MarkKept, OneRunning, Running,
                    vars, listVars, countVars, autoVars
      <3> QED BY <3>1, <3>2 DEF Inv
    <2> QED BY <2>1, <2>2
  <1> QED BY <1>1, <1>2, PTL DEF Spec

\* The tree on display is the active connection's: an answer for another one is
\* dropped by connectionGeneration (src/hooks/useEntityList.ts:110).
THEOREM TreeMatchesConnection == Spec => []TreeOfConnection
  <1>1. Inv => TreeOfConnection
    BY DEF Inv
  <1> QED BY <1>1, Invariant, PTL

\* A value older than the last failure to refresh it is marked as stale
\* (src/hooks/useEntityList.ts:69-88).
THEOREM StaleCountsMarked == Spec => []StaleIsMarked
  <1>1. Inv => StaleIsMarked
    BY DEF Inv, MarkKept, StaleIsMarked, TreeItem
  <1> QED BY <1>1, Invariant, PTL

\* The timer of automatic refresh waits only for a request that is in flight
\* (src/hooks/useAutoRefresh.ts:32-94).
THEOREM RefreshNeverStuck == Spec => []PollingGoesOn
  <1>1. Inv => PollingGoesOn
    <2> SUFFICES ASSUME Inv PROVE PollingGoesOn
      OBVIOUS
    <2>1. loading = Cardinality(Running) /\ (waiting => Cardinality(Running) = 1)
      <3>1. CASE loading = 0 /\ Running = {} /\ ~waiting
        BY <3>1, FS_EmptySet
      <3>2. CASE loading = 1 /\ \E c \in counting : Running = {c}
        <4>1. Cardinality(Running) = 1
          BY <3>2, FS_Singleton
        <4> QED BY <3>2, <4>1
      <3> QED BY <3>1, <3>2 DEF Inv, OneRunning
    <2> QED BY <2>1 DEF PollingGoesOn, Running
  <1> QED BY <1>1, Invariant, PTL

-----------------------------------------------------------------------------
(* The counts implement LatestAnswers.                                     *)

\* Every handler maps to a step of the abstract specification or to none.
LEMMA HandlersAnswer ==
    ASSUME Inv, Next
    PROVE  Answers!Next \/ UNCHANGED <<last, latest, shown>>
  <1> USE DEF Inv
  <1>n. last \in Nat /\ latest \in [Countable -> Nat] /\ shown \in [Countable -> Nat]
    BY DEF Types, CountType
  <1>f. ASSUME NEW K \in SUBSET Countable, last' = last + 1, shown' = shown,
               latest' = [e \in Countable |-> IF e \in K THEN last + 1 ELSE latest[e]]
        PROVE  Answers!Next
    BY <1>f DEF Answers!Next, Answers!Ask
  <1>g. ASSUME NEW names, FetchCounts(names) PROVE Answers!Next \/ UNCHANGED <<last, latest, shown>>
    <2>1. CASE CountsStart(names)
      <3>1. names \cap Countable \in SUBSET Countable
        OBVIOUS
      <3> QED BY <1>g, <2>1, <3>1, <1>f DEF FetchCounts
    <2>2. CASE ~CountsStart(names)
      BY <1>g, <2>2 DEF FetchCounts, countVars
    <2> QED BY <2>1, <2>2
  <1>1. ASSUME NEW k \in Conns \cup {None}, SetActive(k) PROVE Answers!Next
    BY <1>1 DEF SetActive, Answers!Next, Answers!Reset, Answers!Nothing
  <1>2. ASSUME NEW e \in Countable, RefreshOne(e) PROVE Answers!Next
    <2>1. latest' = [d \in Countable |-> IF d \in {e} THEN last + 1 ELSE latest[d]]
      BY <1>2, <1>n DEF RefreshOne
    <2>2. last' = last + 1 /\ shown' = shown /\ {e} \in SUBSET Countable
      BY <1>2 DEF RefreshOne
    <2> QED BY <2>1, <2>2, <1>f
  <1>3. ASSUME Tick PROVE Answers!Next \/ UNCHANGED <<last, latest, shown>>
    BY <1>3, <1>g DEF Tick
  <1>4. ASSUME NEW l \in lists, Listed(l) PROVE Answers!Next \/ UNCHANGED <<last, latest, shown>>
    <2>1. CASE l.gen = gen
      BY <1>4, <2>1, <1>g DEF Listed
    <2>2. CASE l.gen # gen
      BY <1>4, <2>2 DEF Listed, countVars
    <2> QED BY <2>1, <2>2
  <1>5. ASSUME NEW c \in counting, NEW given \in SUBSET c.keys, NEW errors \in SUBSET (c.keys \ given),
               Counted(c, given, errors)
        PROVE  Answers!Next
    <2> DEFINE mine == IF c.gen = gen THEN Mine(c) ELSE {}
    <2>1. shown' = [e \in Countable |-> IF e \in given \cap mine THEN c.id ELSE shown[e]]
          /\ UNCHANGED <<last, latest>>
      BY <1>5 DEF Counted
    <2>2. \A e \in mine : latest[e] = c.id
      BY DEF Mine
    <2>3. c.id # 0 /\ c.keys \subseteq Countable
      BY DEF Types, CountType, CountCall
    <2> HIDE DEF mine
    <2>4. given \cap mine \in SUBSET Countable
      BY <2>3
    <2>5. shown' = [e \in Countable |-> IF e \in given \cap mine THEN latest[e] ELSE shown[e]]
      BY <2>1, <2>2
    <2>6. \A e \in given \cap mine : latest[e] # 0
      BY <2>2, <2>3
    <2>7. Answers!Answer(given \cap mine)
      BY <2>1, <2>5, <2>6 DEF Answers!Answer
    <2> QED BY <2>4, <2>7 DEF Answers!Next
  <1>6. ASSUME NEW a \in admin, Deleted(a) PROVE Answers!Next
    <2> DEFINE K == IF tree = None THEN {} ELSE With(a.entity) \cap Countable
    <2>1. shown' = [e \in Countable |-> IF e \in K THEN 0 ELSE shown[e]]
      BY <1>6 DEF Deleted
    <2>2. UNCHANGED <<last, latest>> /\ K \in SUBSET Countable
      BY <1>6 DEF Deleted
    <2> HIDE DEF K
    <2>3. Answers!Forget(K)
      BY <2>1, <2>2 DEF Answers!Forget
    <2> QED BY <2>2, <2>3 DEF Answers!Next
  <1>7. ASSUME \/ Refresh \/ TogglePolling \/ OpenCreate \/ CloseCreate \/ CloseDelete \/ Delete
               \/ \E e \in Entities : ChooseDelete(e) \/ Create(e)
               \/ \E l \in lists : NotListed(l) \/ ListAtBroker(l)
               \/ \E a \in admin : Created(a) \/ AdminFails(a) \/ AdminAtBroker(a)
               \/ \E c \in counting : CountFails(c)
        PROVE  UNCHANGED <<last, latest, shown>>
    BY <1>7 DEF Refresh, TogglePolling, OpenCreate, CloseCreate, CloseDelete, Delete,
       ChooseDelete, Create, NotListed, ListAtBroker, Created, AdminFails, AdminAtBroker,
       CountFails, countVars
  <1> QED BY <1>1, <1>2, <1>3, <1>4, <1>5, <1>6, <1>7
          DEF Next, User, ListAnswer, CountAnswer, AdminAnswer, Broker

\* The counts beside the entities implement LatestAnswers: what is displayed is
\* the answer to the latest request, whatever the order in which answers arrive
\* and whatever the user does meanwhile (countRequestSequence and countRefresh,
\* src/hooks/useEntityList.ts:45-90).
THEOREM CountsAreLatestAnswers == Spec => LatestWins
  <1>1. Init => Answers!Init
    BY DEF Init, Answers!Init, Answers!Nothing
  <1>2. Inv /\ [Next]_vars => [Answers!Next]_<<last, latest, shown>>
    <2> SUFFICES ASSUME Inv, [Next]_vars PROVE [Answers!Next]_<<last, latest, shown>>
      OBVIOUS
    <2>1. CASE Next
      BY <2>1, HandlersAnswer
    <2>2. CASE UNCHANGED vars
      BY <2>2 DEF vars, countVars
    <2> QED BY <2>1, <2>2
  <1> QED BY <1>1, <1>2, Invariant, PTL DEF Spec, LatestWins, Answers!Spec

=============================================================================
