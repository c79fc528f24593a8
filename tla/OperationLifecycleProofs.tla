----------------------- MODULE OperationLifecycleProofs -----------------------
(***************************************************************************)
(* Theorems about OperationLifecycle, for any set of operations, any       *)
(* capacity of the log and any number of failed saves.  A run's lock, the  *)
(* stage of runOperation and the command in the bridge are three records   *)
(* of one thing; Locks says how they agree through late messages, Stop,    *)
(* the watchdog and restarts.  EntryInv says what they imply for an entry  *)
(* of the log or of the journal, however old the journal is, and which     *)
(* runs the log must still have.                                           *)
(***************************************************************************)
EXTENDS OperationLifecycle, SequenceTheorems, TLAPS

\* runOperation is under way.
Live(r) == stage[r] \in {"registering", "waiting"}

\* The lock is held exactly while runOperation is under way.
LockStage == \A r \in Runs : IsActive(r) <=> Live(r)

\* isRunning and runId name the bulk operation that holds its lock.
BulkHeld ==
    /\ bulk \in Runs => Scope[bulk] = "bulk"
    /\ \A r \in Runs : Scope[r] = "bulk" => (IsActive(r) <=> bulk = r)

\* The command in the bridge: not called before Invoke, unanswered while called.
Command ==
    \A r \in Runs :
        /\ backend[r] = "none" => outcome[r] = None
        /\ backend[r] = "called" => outcome[r] = None /\ stage[r] \in {"waiting", "lost"}
        /\ backend[r] = "done" => outcome[r] # None
        /\ backend[r] # "done" => reply[r] # "sent" /\ event[r] # "sent"
        /\ stage[r] \in {"idle", "registering"} => backend[r] = "none"
        /\ stage[r] = "waiting" => backend[r] # "none"

\* What is to be reviewed is over, for the interface.
ReviewIsLater == \A r \in unreviewed : stage[r] \in {"ended", "lost"}

Locks == LockStage /\ BulkHeld /\ Exclusive /\ Command /\ ReviewIsLater

\* A definite status is the one the bridge reported, or an error of a run that
\* the bridge was not called for.
HonestEntry(e) ==
    /\ e.status \in {"success", "stopped"} => outcome[e.id] = e.status
    /\ e.status = "error" => outcome[e.id] \in {"error", "rejected", None}
                             /\ backend[e.id] # "called"

\* What an entry of a run may say, whenever it was written.
EntryOK(e) ==
    /\ stage[e.id] # "idle"
    /\ Live(e.id) => e.status = "running" /\ ~e.reviewed
    /\ e.id \in unreviewed => e.status \in {"running", "unknown"} /\ ~e.reviewed
    /\ e.conn \in {None, Conn[e.id]}
    /\ HonestEntry(e)

SavedEntries == \A e \in ToSet(saved) : e.id \in Runs => EntryOK(e)
LogEntries == \A e \in ToSet(log) : e.id \in Runs => EntryOK(e)

\* The log itself is up to date: what it calls running is under way.
LogIsCurrent == \A e \in ToSet(log) : e.id \in Runs /\ e.status = "running" => Live(e.id)

\* A run that is under way, or to be reviewed, is in the log or forgotten.
Remembered == \A r \in Runs \ forgotten : Live(r) \/ r \in unreviewed => Logged(log, r)

EntryInv == SavedEntries /\ LogEntries /\ LogIsCurrent /\ Remembered

IInv == TypeOK /\ Locks /\ EntryInv

-----------------------------------------------------------------------------
(* Sequences of entries.                                                   *)

\* A log that fits.
Fits(s) == s \in Seq(Entries) /\ Len(s) <= MaxLog

LogType == Fits(log) /\ Fits(saved) /\ failures \in 0..MaxFailures /\ forgotten \subseteq Runs

RunType ==
    /\ active \in [Runs -> Phases \cup {None}]
    /\ bulk \in Runs \cup {None}
    /\ stage \in [Runs -> {"idle", "registering", "waiting", "ended", "lost"}]
    /\ stops \in [Runs -> 0..MaxStops]
    /\ backend \in [Runs -> {"none", "called", "done"}]
    /\ outcome \in [Runs -> Results \cup {"rejected", None}]
    /\ reply \in [Runs -> {"none", "sent", "taken", "lost"}]
    /\ event \in [Runs -> {"none", "sent", "taken", "lost"}]
    /\ other \in [Others -> {"idle", "busy", "ended"}]
    /\ restarts \in 0..MaxRestarts
    /\ unreviewed \subseteq Runs

LEMMA TypeParts == TypeOK <=> RunType /\ LogType
  BY DEF TypeOK, RunType, LogType, Fits

\* The entries of a sequence are entries, found at its positions.
LEMMA Members ==
    ASSUME NEW s \in Seq(Entries)
    PROVE  /\ Len(s) \in Nat /\ DOMAIN s = 1..Len(s)
           /\ \A i \in DOMAIN s : s[i] \in Entries /\ s[i] \in ToSet(s)
           /\ \A e \in ToSet(s) : e \in Entries /\ \E i \in DOMAIN s : e = s[i]
<1>1. Len(s) \in Nat /\ DOMAIN s = 1..Len(s) /\ \A i \in DOMAIN s : s[i] \in Entries
  BY ElementOfSeq, LenProperties
<1> QED
  BY <1>1 DEF ToSet

\* Push keeps the capacity; its entries are the new one, which is there, and
\* old ones.
LEMMA PushFacts ==
    ASSUME NEW s, Fits(s), NEW id \in Runs \cup Others
    PROVE  /\ Fits(Push(s, id))
           /\ \A e \in ToSet(Push(s, id)) :
                \/ e \in ToSet(s)
                \/ /\ e.id = id /\ e.status = "running" /\ e.conn = None /\ ~e.reviewed
                   /\ e \in Entries
           /\ Logged(Push(s, id), id)
<1> DEFINE new == [id |-> id, status |-> "running", conn |-> None, reviewed |-> FALSE]
           all == <<new>> \o s
           n == IF Len(all) > MaxLog THEN MaxLog ELSE Len(all)
<1>1. s \in Seq(Entries) /\ new \in Entries
  BY DEF Fits, Entries, Statuses
<1>2. <<new>> \in Seq(Entries) /\ Len(<<new>>) = 1 /\ <<new>>[1] = new
  BY <1>1
<1>3. new.id = id /\ new.status = "running" /\ new.conn = None /\ ~new.reviewed
  OBVIOUS
<1> HIDE DEF new
<1>4. /\ all \in Seq(Entries) /\ Len(all) = 1 + Len(s)
      /\ \A i \in 1..Len(all) : all[i] = IF i <= 1 THEN new ELSE s[i - 1]
  BY <1>1, <1>2, ConcatProperties
<1> HIDE DEF all
<1>5. n \in Nat /\ n <= Len(all) /\ n <= MaxLog /\ n >= 1
  BY <1>1, <1>4, LifecycleAssumption, LenProperties
<1>6. Push(s, id) = SubSeq(all, 1, n)
  BY DEF Push, all, n, new
<1> HIDE DEF n
<1>7. \A i \in 1..n : all[i] \in Entries
  BY <1>4, <1>5, ElementOfSeq
<1>8. /\ Push(s, id) \in Seq(Entries) /\ Len(Push(s, id)) = n
      /\ \A i \in 1..n : Push(s, id)[i] = all[i]
  <2>1. /\ SubSeq(all, 1, n) \in Seq(Entries)
        /\ Len(SubSeq(all, 1, n)) = IF 1 <= n THEN n - 1 + 1 ELSE 0
        /\ \A i \in 1 .. n - 1 + 1 : SubSeq(all, 1, n)[i] = all[1 + i - 1]
    BY <1>5, <1>7, SubSeqProperties
  <2> QED
    BY <2>1, <1>5, <1>6
<1>9. ASSUME NEW i \in 1..n PROVE all[i] = new \/ all[i] \in ToSet(s)
  <2>1. CASE i = 1
    BY <2>1, <1>4, <1>5
  <2>2. CASE i > 1
    <3>1. i - 1 \in DOMAIN s /\ all[i] = s[i - 1]
      BY <2>2, <1>1, <1>4, <1>5, LenProperties
    <3> QED
      BY <1>1, <3>1, Members
  <2> QED
    BY <2>1, <2>2, <1>5
<1>10. \A e \in ToSet(Push(s, id)) : e \in ToSet(s) \/ e = new
  BY <1>8, <1>9, Members
<1>11. Logged(Push(s, id), id)
  <2>1. 1 \in DOMAIN Push(s, id) /\ Push(s, id)[1] = new
    BY <1>4, <1>5, <1>8, Members
  <2>2. new \in ToSet(Push(s, id))
    BY <1>8, <2>1, Members
  <2> QED
    BY <1>3, <2>2 DEF Logged
<1> QED
  BY <1>1, <1>3, <1>5, <1>8, <1>10, <1>11 DEF Fits

\* A sequence made from another, place by place, has the entries made from its.
LEMMA Mapped ==
    ASSUME NEW s \in Seq(Entries), NEW t, DOMAIN t = DOMAIN s, t \in [DOMAIN s -> Entries],
           \A i \in DOMAIN s : t[i].id = s[i].id
    PROVE  /\ t \in Seq(Entries) /\ Len(t) = Len(s)
           /\ \A e \in ToSet(t) : \E i \in DOMAIN s : e = t[i]
           /\ \A r : Logged(t, r) <=> Logged(s, r)
<1>1. Len(s) \in Nat /\ DOMAIN s = 1..Len(s)
  BY Members
<1>2. t \in Seq(Entries) /\ Len(t) = Len(s)
  BY <1>1
<1>3. \A e \in ToSet(t) : \E i \in DOMAIN s : e = t[i]
  BY <1>2, Members
<1>4. \A r : Logged(t, r) <=> Logged(s, r)
  <2> SUFFICES ASSUME NEW r PROVE Logged(t, r) <=> Logged(s, r)
    OBVIOUS
  <2>1. ASSUME Logged(t, r) PROVE Logged(s, r)
    <3>1. PICK i \in DOMAIN s : t[i].id = r
      BY <1>3, <2>1 DEF Logged
    <3>2. s[i] \in ToSet(s) /\ s[i].id = r
      BY <3>1, Members
    <3> QED
      BY <3>2 DEF Logged
  <2>2. ASSUME Logged(s, r) PROVE Logged(t, r)
    <3>1. PICK i \in DOMAIN s : s[i].id = r
      BY <2>2, Members DEF Logged
    <3>2. t[i] \in ToSet(t) /\ t[i].id = r
      BY <1>2, <3>1, Members
    <3> QED
      BY <3>2 DEF Logged
  <2> QED
    BY <2>1, <2>2
<1> QED
  BY <1>2, <1>3, <1>4

\* Update touches the status of the entries of one id, and nothing else.
LEMMA UpdateFacts ==
    ASSUME NEW s, Fits(s), NEW id, NEW status \in Statuses
    PROVE  /\ Fits(Update(s, id, status))
           /\ \A e \in ToSet(Update(s, id, status)) : \E o \in ToSet(s) :
                /\ e \in Entries
                /\ e.id = o.id /\ e.conn = o.conn /\ e.reviewed = o.reviewed
                /\ e.status = IF o.id = id THEN status ELSE o.status
           /\ \A r : Logged(Update(s, id, status), r) <=> Logged(s, r)
<1> DEFINE t == Update(s, id, status)
<1>1. s \in Seq(Entries)
  BY DEF Fits
<1>2. \A i \in DOMAIN s : s[i] \in Entries /\ s[i] \in ToSet(s)
  BY <1>1, Members
<1>3. /\ DOMAIN t = DOMAIN s /\ t \in [DOMAIN s -> Entries]
      /\ \A i \in DOMAIN s :
           /\ t[i].id = s[i].id /\ t[i].conn = s[i].conn /\ t[i].reviewed = s[i].reviewed
           /\ t[i].status = IF s[i].id = id THEN status ELSE s[i].status
  BY <1>2 DEF Update, Entries
<1> HIDE DEF t
<1>4. /\ t \in Seq(Entries) /\ Len(t) = Len(s)
      /\ \A e \in ToSet(t) : \E i \in DOMAIN s : e = t[i]
      /\ \A r : Logged(t, r) <=> Logged(s, r)
  BY <1>1, <1>3, Mapped
<1>5. \A e \in ToSet(t) : \E o \in ToSet(s) :
         /\ e \in Entries
         /\ e.id = o.id /\ e.conn = o.conn /\ e.reviewed = o.reviewed
         /\ e.status = IF o.id = id THEN status ELSE o.status
  BY <1>2, <1>3, <1>4
<1> QED
  BY <1>4, <1>5 DEF t, Fits

\* SetConn touches the connection of the entries of one run, and nothing else.
LEMMA SetConnFacts ==
    ASSUME NEW s, Fits(s), NEW r \in Runs
    PROVE  /\ Fits(SetConn(s, r, Conn[r]))
           /\ \A e \in ToSet(SetConn(s, r, Conn[r])) : \E o \in ToSet(s) :
                /\ e \in Entries
                /\ e.id = o.id /\ e.status = o.status /\ e.reviewed = o.reviewed
                /\ e.conn = IF o.id = r THEN Conn[r] ELSE o.conn
           /\ \A q : Logged(SetConn(s, r, Conn[r]), q) <=> Logged(s, q)
<1> DEFINE t == SetConn(s, r, Conn[r])
<1>1. s \in Seq(Entries)
  BY DEF Fits
<1>2. \A i \in DOMAIN s : s[i] \in Entries /\ s[i] \in ToSet(s)
  BY <1>1, Members
<1>3. /\ DOMAIN t = DOMAIN s /\ t \in [DOMAIN s -> Entries]
      /\ \A i \in DOMAIN s :
           /\ t[i].id = s[i].id /\ t[i].status = s[i].status /\ t[i].reviewed = s[i].reviewed
           /\ t[i].conn = IF s[i].id = r THEN Conn[r] ELSE s[i].conn
  BY <1>2 DEF SetConn, Entries
<1> HIDE DEF t
<1>4. /\ t \in Seq(Entries) /\ Len(t) = Len(s)
      /\ \A e \in ToSet(t) : \E i \in DOMAIN s : e = t[i]
      /\ \A q : Logged(t, q) <=> Logged(s, q)
  BY <1>1, <1>3, Mapped
<1>5. \A e \in ToSet(t) : \E o \in ToSet(s) :
         /\ e \in Entries
         /\ e.id = o.id /\ e.status = o.status /\ e.reviewed = o.reviewed
         /\ e.conn = IF o.id = r THEN Conn[r] ELSE o.conn
  BY <1>2, <1>3, <1>4
<1> QED
  BY <1>4, <1>5 DEF t, Fits

\* Start-up reads the newest entries back and turns those of interrupted runs
\* to unknown.
LEMMA InterruptedFacts ==
    ASSUME NEW s, Fits(s), NEW n \in 0..Len(s)
    PROVE  LET t == [i \in 1..n |-> Interrupted(s[i])]
           IN  /\ Fits(t)
               /\ \A e \in ToSet(t) : \E o \in ToSet(s) :
                    /\ e \in Entries
                    /\ e.id = o.id /\ e.conn = o.conn /\ e.reviewed = o.reviewed
                    /\ o.id \in Runs => e.status = IF o.status = "running" THEN "unknown"
                                                                           ELSE o.status
               /\ \A r : Logged(t, r) <=> Logged(SubSeq(s, 1, n), r)
<1> DEFINE t == [i \in 1..n |-> Interrupted(s[i])]
<1>1. s \in Seq(Entries) /\ Len(s) <= MaxLog /\ Len(s) \in Nat /\ DOMAIN s = 1..Len(s)
  BY Members DEF Fits
<1>2. n \in Nat /\ n <= Len(s) /\ \A i \in 1..n : s[i] \in Entries /\ s[i] \in ToSet(s)
  BY <1>1, Members
<1>3. /\ SubSeq(s, 1, n) \in Seq(Entries) /\ Len(SubSeq(s, 1, n)) = n
      /\ \A i \in 1..n : SubSeq(s, 1, n)[i] = s[i]
  <2>1. /\ SubSeq(s, 1, n) \in Seq(Entries)
        /\ Len(SubSeq(s, 1, n)) = IF 1 <= n THEN n - 1 + 1 ELSE 0
        /\ \A i \in 1 .. n - 1 + 1 : SubSeq(s, 1, n)[i] = s[1 + i - 1]
    BY <1>2, SubSeqProperties
  <2> QED
    BY <1>2, <2>1
<1>4. ASSUME NEW i \in 1..n
      PROVE  /\ t[i] \in Entries
             /\ t[i].id = s[i].id /\ t[i].conn = s[i].conn /\ t[i].reviewed = s[i].reviewed
             /\ s[i].id \in Runs => t[i].status = IF s[i].status = "running" THEN "unknown"
                                                                             ELSE s[i].status
  <2>1. t[i] = Interrupted(s[i]) /\ s[i] \in Entries
    BY <1>2, <1>4
  <2>2. t[i] \in Entries /\ t[i].id = s[i].id /\ t[i].conn = s[i].conn
        /\ t[i].reviewed = s[i].reviewed
    BY <2>1 DEF Interrupted, Entries, Statuses, Results
  <2>3. ASSUME s[i].id \in Runs
        PROVE  t[i].status = IF s[i].status = "running" THEN "unknown" ELSE s[i].status
    <3>1. s[i].id \notin Others
      BY <2>3, LifecycleAssumption
    <3> QED
      BY <2>1, <3>1 DEF Interrupted, Entries
  <2> QED
    BY <2>2, <2>3
<1>5. DOMAIN SubSeq(s, 1, n) = 1..n /\ DOMAIN t = 1..n /\ t = [i \in 1..n |-> t[i]]
  BY <1>3, Members
<1> HIDE DEF t
<1>6. /\ t \in Seq(Entries) /\ Len(t) = n
      /\ \A e \in ToSet(t) : \E i \in 1..n : e = t[i]
      /\ \A r : Logged(t, r) <=> Logged(SubSeq(s, 1, n), r)
  <2> DEFINE sub == SubSeq(s, 1, n)
  <2>1. /\ sub \in Seq(Entries) /\ DOMAIN sub = 1..n /\ Len(sub) = n
        /\ \A i \in 1..n : sub[i] = s[i]
    BY <1>3, <1>5
  <2> HIDE DEF sub
  <2>2. \A i \in DOMAIN sub : t[i].id = sub[i].id
    BY <1>4, <2>1
  <2>3. t \in [DOMAIN sub -> Entries]
    BY <1>4, <1>5, <2>1
  <2>4. /\ t \in Seq(Entries) /\ Len(t) = Len(sub)
        /\ \A e \in ToSet(t) : \E i \in DOMAIN sub : e = t[i]
        /\ \A r : Logged(t, r) <=> Logged(sub, r)
    BY <1>5, <2>1, <2>2, <2>3, Mapped
  <2> QED
    BY <2>1, <2>4 DEF sub
<1>7. \A e \in ToSet(t) : \E o \in ToSet(s) :
         /\ e \in Entries
         /\ e.id = o.id /\ e.conn = o.conn /\ e.reviewed = o.reviewed
         /\ o.id \in Runs => e.status = IF o.status = "running" THEN "unknown" ELSE o.status
  BY <1>2, <1>4, <1>6
<1> QED
  BY <1>1, <1>2, <1>6, <1>7, LifecycleAssumption DEF Fits, t

\* A review touches the mark of one entry.
LEMMA ReviewFacts ==
    ASSUME NEW s, Fits(s), NEW k \in DOMAIN s
    PROVE  LET t == [s EXCEPT ![k].reviewed = TRUE]
           IN  /\ Fits(t)
               /\ \A e \in ToSet(t) : \/ e \in ToSet(s)
                                      \/ /\ e.id = s[k].id /\ e.status = s[k].status
                                         /\ e.conn = s[k].conn /\ e \in Entries
               /\ \A r : Logged(t, r) <=> Logged(s, r)
<1> DEFINE t == [s EXCEPT ![k].reviewed = TRUE]
<1>1. s \in Seq(Entries) /\ Len(s) <= MaxLog
  BY DEF Fits
<1>2. \A i \in DOMAIN s : s[i] \in Entries /\ s[i] \in ToSet(s)
  BY <1>1, Members
<1>3. /\ DOMAIN t = DOMAIN s /\ t = [i \in DOMAIN s |-> t[i]]
      /\ \A i \in DOMAIN s : i # k => t[i] = s[i]
      /\ t[k] \in Entries
      /\ t[k].id = s[k].id /\ t[k].status = s[k].status /\ t[k].conn = s[k].conn
  BY <1>2 DEF Entries
<1> HIDE DEF t
<1>4. \A i \in DOMAIN s : t[i] \in Entries /\ t[i].id = s[i].id
  BY <1>2, <1>3
<1>5. t \in [DOMAIN s -> Entries]
  BY <1>3, <1>4
<1>6. /\ t \in Seq(Entries) /\ Len(t) = Len(s)
      /\ \A e \in ToSet(t) : \E i \in DOMAIN s : e = t[i]
      /\ \A r : Logged(t, r) <=> Logged(s, r)
  BY <1>1, <1>3, <1>4, <1>5, Mapped
<1>7. \A e \in ToSet(t) : \/ e \in ToSet(s)
                          \/ /\ e.id = s[k].id /\ e.status = s[k].status
                             /\ e.conn = s[k].conn /\ e \in Entries
  BY <1>2, <1>3, <1>6
<1> QED
  BY <1>1, <1>6, <1>7 DEF Fits, t

LEMMA EmptyLog == Fits(<<>>) /\ ToSet(<<>>) = {}
<1>1. <<>> \in Seq(Entries) /\ Len(<<>>) = 0
  BY EmptySeq
<1> QED
  BY <1>1, LifecycleAssumption DEF Fits, ToSet

-----------------------------------------------------------------------------
(* What a step must do to the entries.                                     *)

LEMMA Together == ASSUME RunType', Locks', LogType', EntryInv' PROVE IInv'
  BY DEF IInv, TypeOK, RunType, LogType, Fits

\* The log becomes "new": entries already written stay right, those of the new
\* log and of the texts that may be saved are right, and the new log has what
\* must be remembered.
LEMMA Entered ==
    ASSUME IInv, NEW new, NEW between, Store(new, between),
           Fits(new), \A s \in between : Fits(s), forgotten' \subseteq Runs,
           \A e \in Entries : e.id \in Runs /\ EntryOK(e) => EntryOK(e)',
           \A s \in between \cup {new} : \A e \in ToSet(s) : e.id \in Runs => EntryOK(e)',
           \A e \in ToSet(new) : e.id \in Runs /\ e.status = "running" => Live(e.id)',
           \A r \in Runs \ forgotten' : Live(r)' \/ r \in unreviewed' => Logged(new, r)
    PROVE  LogType' /\ EntryInv'
<1>1. LogType
  BY TypeParts DEF IInv
<1>2. log' = new /\ (saved' = saved \/ saved' \in between \cup {new})
  BY DEF Store
<1>3. failures' \in 0..MaxFailures
  BY <1>1, LifecycleAssumption DEF Store, LogType
<1>4. LogType'
  BY <1>1, <1>2, <1>3 DEF LogType, Fits
<1>5. SavedEntries'
  <2>1. CASE saved' = saved
    <3>1. \A e \in ToSet(saved) : e \in Entries
      BY <1>1, Members DEF LogType, Fits
    <3> QED
      BY <2>1, <3>1 DEF IInv, EntryInv, SavedEntries
  <2>2. CASE saved' \in between \cup {new}
    BY <2>2 DEF SavedEntries
  <2> QED
    BY <1>2, <2>1, <2>2
<1>6. LogEntries'
  BY <1>2 DEF LogEntries
<1>7. LogIsCurrent'
  BY <1>2 DEF LogIsCurrent
<1>8. Remembered'
  BY <1>2 DEF Remembered, Logged
<1> QED
  BY <1>4, <1>5, <1>6, <1>7, <1>8 DEF EntryInv

\* A step that writes nothing.
LEMMA Quiet ==
    ASSUME IInv, UNCHANGED <<logVars, unreviewed>>,
           \A r \in Runs : /\ Live(r)' <=> Live(r)
                           /\ stage[r] # "idle" => stage'[r] # "idle",
           \A e \in Entries : e.id \in Runs /\ EntryOK(e) => HonestEntry(e)'
    PROVE  LogType' /\ EntryInv'
<1>1. LogType /\ EntryInv
  BY TypeParts DEF IInv
<1>2. UNCHANGED <<log, saved, failures, forgotten, unreviewed>>
  BY DEF logVars
<1>3. LogType'
  BY <1>1, <1>2 DEF LogType, Fits
<1>4. \A e \in Entries : e.id \in Runs /\ EntryOK(e) => EntryOK(e)'
  BY <1>2 DEF EntryOK
<1>5. \A e \in ToSet(log) \cup ToSet(saved) : e \in Entries
  BY <1>1, Members DEF LogType, Fits
<1>6. SavedEntries' /\ LogEntries'
  BY <1>1, <1>2, <1>4, <1>5 DEF EntryInv, SavedEntries, LogEntries
<1>7. LogIsCurrent'
  BY <1>1, <1>2 DEF EntryInv, LogIsCurrent
<1>8. Remembered'
  BY <1>1, <1>2 DEF EntryInv, Remembered, Logged
<1> QED
  BY <1>3, <1>6, <1>7, <1>8 DEF EntryInv

-----------------------------------------------------------------------------
(* The invariant is inductive.                                             *)

\* Nothing is logged and nothing under way.
LEMMA InitInv == Init => IInv
<1> SUFFICES ASSUME Init PROVE IInv
  OBVIOUS
<1>1. Fits(log) /\ Fits(saved) /\ ToSet(log) = {} /\ ToSet(saved) = {}
  BY EmptyLog DEF Init
<1>2. LogType
  BY <1>1, LifecycleAssumption DEF Init, LogType
<1>3. RunType
  BY LifecycleAssumption DEF Init, RunType
<1>4. LockStage /\ Exclusive /\ Command /\ ReviewIsLater
  BY LifecycleAssumption
     DEF Init, LockStage, Exclusive, Command, ReviewIsLater, IsActive, Live
<1>5. BulkHeld
  BY LifecycleAssumption DEF Init, BulkHeld, IsActive
<1>6. SavedEntries /\ LogEntries /\ LogIsCurrent
  BY <1>1 DEF SavedEntries, LogEntries, LogIsCurrent
<1>7. Remembered
  BY DEF Init, Remembered, Live
<1> QED
  BY <1>2, <1>3, <1>4, <1>5, <1>6, <1>7, TypeParts DEF IInv, Locks, EntryInv

\* Stop, its answers and the watchdog change the phase of a run that is active.
LEMMA SamePhase ==
    ASSUME IInv, RunType', \A r \in Runs : IsActive(r)' <=> IsActive(r),
           UNCHANGED <<bulk, logVars, stage, bridgeVars, unreviewed>>
    PROVE  IInv'
<1>1. UNCHANGED <<bulk, logVars, stage, backend, outcome, reply, event, unreviewed>>
  BY DEF bridgeVars
<1>2. LockStage' /\ Exclusive' /\ ReviewIsLater'
  BY <1>1 DEF IInv, Locks, LockStage, Exclusive, ReviewIsLater, Live
<1>3. BulkHeld' /\ Command'
  BY <1>1 DEF IInv, Locks, BulkHeld, Command
<1>4. LogType' /\ EntryInv'
  <2>1. \A r \in Runs : /\ Live(r)' <=> Live(r)
                        /\ stage[r] # "idle" => stage'[r] # "idle"
    BY <1>1 DEF Live
  <2>2. \A e \in Entries : e.id \in Runs /\ EntryOK(e) => HonestEntry(e)'
    BY <1>1 DEF EntryOK, HonestEntry
  <2> QED
    BY <1>1, <2>1, <2>2, Quiet
<1> QED
  BY <1>2, <1>3, <1>4, Together DEF Locks

\* Ending a run with a result the bridge reported, or with "error" when the
\* worker never got it, keeps lock, stage and log in step.
LEMMA CompleteFacts ==
    ASSUME IInv, NEW r \in Runs, NEW result \in Results, Complete(r, result),
           Live(r), UNCHANGED <<backend, outcome>>, backend[r] # "called",
           result \in {"success", "stopped"} => outcome[r] = result,
           result = "error" => outcome[r] \in {"error", "rejected", None}
    PROVE  /\ active' \in [Runs -> Phases \cup {None}] /\ bulk' \in Runs \cup {None}
           /\ stage' = [stage EXCEPT ![r] = "ended"]
           /\ unreviewed' \subseteq Runs
           /\ LockStage' /\ BulkHeld' /\ Exclusive' /\ ReviewIsLater'
           /\ LogType' /\ EntryInv'
<1>1. RunType /\ LogType /\ Locks /\ EntryInv
  BY TypeParts DEF IInv
<1>2. /\ active' = [active EXCEPT ![r] = None]
      /\ bulk' = IF bulk = r THEN None ELSE bulk
      /\ stage' = [stage EXCEPT ![r] = "ended"]
      /\ unreviewed' = IF result = "unknown" THEN unreviewed \cup {r} ELSE unreviewed
  BY DEF Complete
<1>3. /\ active' \in [Runs -> Phases \cup {None}] /\ bulk' \in Runs \cup {None}
      /\ unreviewed' \subseteq Runs
  BY <1>1, <1>2 DEF RunType
<1>4. \A o \in Runs : IsActive(o)' <=> IsActive(o) /\ o # r
  BY <1>1, <1>2 DEF IsActive, RunType
<1>5. \A o \in Runs : stage'[o] = IF o = r THEN "ended" ELSE stage[o]
  BY <1>1, <1>2 DEF RunType
<1>6. LockStage' /\ ReviewIsLater'
  BY <1>1, <1>2, <1>4, <1>5 DEF Locks, LockStage, ReviewIsLater, Live
<1>7. BulkHeld'
  BY <1>1, <1>2, <1>4, LifecycleAssumption DEF Locks, BulkHeld, RunType
<1>8. Exclusive'
  BY <1>1, <1>4 DEF Locks, Exclusive
<1>9. r \notin unreviewed
  BY <1>1 DEF Locks, ReviewIsLater, Live
<1>10. LogType' /\ EntryInv'
  <2> DEFINE new == Update(log, r, result)
  <2>1. Store(new, {}) /\ UNCHANGED forgotten
    BY DEF Complete, Log
  <2>2. /\ Fits(new)
        /\ \A e \in ToSet(new) : \E o \in ToSet(log) :
             /\ e \in Entries
             /\ e.id = o.id /\ e.conn = o.conn /\ e.reviewed = o.reviewed
             /\ e.status = IF o.id = r THEN result ELSE o.status
        /\ \A q : Logged(new, q) <=> Logged(log, q)
    <3>1. result \in Statuses
      BY DEF Statuses
    <3> QED
      BY <1>1, <3>1, UpdateFacts DEF LogType
  <2> HIDE DEF new
  <2>3. ASSUME NEW e \in Entries, e.id \in Runs, EntryOK(e) PROVE EntryOK(e)'
    BY <1>1, <1>2, <1>5, <2>3 DEF EntryOK, HonestEntry, Live
  <2>4. ASSUME NEW e \in ToSet(new), e.id \in Runs PROVE EntryOK(e)'
    <3>1. PICK o \in ToSet(log) :
             /\ e \in Entries
             /\ e.id = o.id /\ e.conn = o.conn /\ e.reviewed = o.reviewed
             /\ e.status = IF o.id = r THEN result ELSE o.status
      BY <2>2, <2>4
    <3>2. EntryOK(o)
      BY <1>1, <2>4, <3>1 DEF EntryInv, LogEntries
    <3>3. CASE o.id = r
      BY <1>2, <1>5, <1>9, <2>4, <3>1, <3>2, <3>3 DEF EntryOK, HonestEntry, Live
    <3>4. CASE o.id # r
      BY <1>2, <1>5, <2>4, <3>1, <3>2, <3>4 DEF EntryOK, HonestEntry, Live
    <3> QED
      BY <3>3, <3>4
  <2>5. ASSUME NEW e \in ToSet(new), e.id \in Runs, e.status = "running" PROVE Live(e.id)'
    <3>1. PICK o \in ToSet(log) : /\ e.id = o.id
                                  /\ e.status = IF o.id = r THEN result ELSE o.status
      BY <2>2, <2>5
    <3>2. o.id # r
      BY <2>5, <3>1 DEF Results
    <3> QED
      BY <1>1, <1>5, <2>5, <3>1, <3>2 DEF EntryInv, LogIsCurrent, Live
  <2>6. ASSUME NEW q \in Runs \ forgotten', Live(q)' \/ q \in unreviewed'
        PROVE  Logged(new, q)
    <3>1. Live(q) \/ q \in unreviewed
      BY <1>2, <1>5, <2>6 DEF Live
    <3> QED
      BY <1>1, <2>1, <2>2, <2>6, <3>1 DEF EntryInv, Remembered
  <2>7. forgotten' \subseteq Runs
    BY <1>1, <2>1 DEF LogType
  <2> QED
    BY <2>1, <2>2, <2>3, <2>4, <2>5, <2>6, <2>7, Entered
<1> QED
  BY <1>2, <1>3, <1>6, <1>7, <1>8, <1>10

\* Entering a run: guards and lock, or a refused run in the log.
LEMMA BeginInv == ASSUME IInv, NEW r \in Runs, Begin(r) PROVE IInv'
<1> DEFINE pushed == Push(log, r)
<1>1. RunType /\ LogType /\ Locks /\ EntryInv
  BY TypeParts DEF IInv
<1>2. /\ Fits(pushed)
      /\ \A e \in ToSet(pushed) :
           \/ e \in ToSet(log)
           \/ /\ e.id = r /\ e.status = "running" /\ e.conn = None /\ ~e.reviewed
              /\ e \in Entries
      /\ Logged(pushed, r)
  BY <1>1, PushFacts DEF LogType
<1>3. stage[r] = "idle" /\ ~IsActive(r) /\ backend[r] = "none" /\ outcome[r] = None
      /\ r \notin unreviewed
  BY <1>1 DEF Locks, Begin, LockStage, Command, ReviewIsLater, Live
<1>4. UNCHANGED <<stops, backend, outcome, reply, event, other, restarts, unreviewed>>
  BY DEF Begin, bridgeVars
<1>5. forgotten' = {q \in Runs : (q \in forgotten \/ Logged(log, q)) /\ ~Logged(pushed, q)}
  BY DEF Begin, Forget
<1> HIDE DEF pushed
<1>6. \A o \in Runs : o # r => stage'[o] = stage[o]
  BY <1>1 DEF Begin, RunType
<1>7. stage'[r] \in {"registering", "ended"}
  BY <1>1 DEF Begin, RunType
<1>8. Command' /\ ReviewIsLater'
  <2>1. unreviewed \subseteq Runs
    BY <1>1 DEF RunType
  <2>2. Command'
    BY <1>1, <1>3, <1>4, <1>6, <1>7 DEF Locks, Command
  <2>3. ReviewIsLater'
    BY <1>1, <1>3, <1>4, <1>6, <2>1 DEF Locks, ReviewIsLater
  <2> QED
    BY <2>2, <2>3
<1>9. ASSUME NEW e \in Entries, e.id \in Runs, EntryOK(e) PROVE EntryOK(e)' /\ e.id # r
  BY <1>3, <1>4, <1>6, <1>9 DEF EntryOK, HonestEntry, Live
<1>10. ASSUME NEW e \in ToSet(pushed), e.id \in Runs
       PROVE  EntryOK(e)' /\ (e.id # r => EntryOK(e) /\ e \in ToSet(log))
  <2>1. CASE e \in ToSet(log)
    <3>1. EntryOK(e) /\ e \in Entries
      BY <1>1, <1>10, <2>1, Members DEF EntryInv, LogEntries, LogType, Fits
    <3> QED
      BY <1>9, <1>10, <2>1, <3>1
  <2>2. CASE e.id = r /\ e.status = "running" /\ e.conn = None /\ ~e.reviewed
    BY <1>3, <1>4, <1>7, <2>2 DEF EntryOK, HonestEntry
  <2> QED
    BY <1>2, <1>10, <2>1, <2>2
<1>11. ASSUME NEW q \in Runs \ forgotten', Live(q)' \/ q \in unreviewed'
       PROVE  Logged(pushed, q)
  <2>1. CASE q = r
    BY <1>2, <2>1
  <2>2. CASE q # r
    <3>1. Live(q) \/ q \in unreviewed
      BY <1>4, <1>6, <1>11, <2>2 DEF Live
    <3>2. q \in forgotten \/ Logged(log, q)
      BY <1>1, <3>1 DEF EntryInv, Remembered
    <3> QED
      BY <1>5, <3>2
  <2> QED
    BY <2>1, <2>2
<1>12. ASSUME NEW e \in ToSet(pushed), e.id \in Runs, e.id # r, e.status = "running"
       PROVE  Live(e.id)'
  BY <1>1, <1>6, <1>10, <1>12 DEF EntryInv, LogIsCurrent, Live
<1>13. CASE Conflict(r, pushed)
  <2> DEFINE new == Update(pushed, r, "error")
  <2>1. /\ Store(new, {pushed}) /\ stage' = [stage EXCEPT ![r] = "ended"]
        /\ UNCHANGED <<active, bulk>>
    BY <1>13 DEF Begin, pushed
  <2>2. /\ Fits(new)
        /\ \A e \in ToSet(new) : \E o \in ToSet(pushed) :
             /\ e \in Entries
             /\ e.id = o.id /\ e.conn = o.conn /\ e.reviewed = o.reviewed
             /\ e.status = IF o.id = r THEN "error" ELSE o.status
        /\ \A q : Logged(new, q) <=> Logged(pushed, q)
    <3>1. "error" \in Statuses
      BY DEF Statuses, Results
    <3> QED
      BY <1>2, <3>1, UpdateFacts
  <2> HIDE DEF new
  <2>3. stage'[r] = "ended"
    BY <1>1, <2>1 DEF RunType
  <2>4. LockStage' /\ BulkHeld' /\ Exclusive'
    BY <1>1, <1>3, <1>6, <2>1, <2>3 DEF Locks, LockStage, BulkHeld, Exclusive, IsActive, Live
  <2>5. RunType'
    BY <1>1, <1>4, <2>1 DEF RunType
  <2>6. ASSUME NEW e \in ToSet(new), e.id \in Runs
        PROVE  EntryOK(e)' /\ (e.status = "running" => Live(e.id)')
    <3>1. PICK o \in ToSet(pushed) :
             /\ e.id = o.id /\ e.conn = o.conn /\ e.reviewed = o.reviewed
             /\ e.status = IF o.id = r THEN "error" ELSE o.status
      BY <2>2, <2>6
    <3>2. EntryOK(o)'
      BY <1>10, <2>6, <3>1
    <3>3. CASE o.id = r
      BY <1>3, <1>4, <2>3, <2>6, <3>1, <3>2, <3>3 DEF EntryOK, HonestEntry, Live
    <3>4. CASE o.id # r
      BY <1>12, <2>6, <3>1, <3>2, <3>4 DEF EntryOK, HonestEntry, Live
    <3> QED
      BY <3>3, <3>4
  <2>7. LogType' /\ EntryInv'
    <3>1. \A s \in {pushed} : Fits(s)
      BY <1>2
    <3>2. \A s \in {pushed} \cup {new} : \A e \in ToSet(s) : e.id \in Runs => EntryOK(e)'
      BY <1>10, <2>6
    <3>3. \A q \in Runs \ forgotten' : Live(q)' \/ q \in unreviewed' => Logged(new, q)
      BY <1>11, <2>2
    <3>4. forgotten' \subseteq Runs
      BY <1>5
    <3> QED
      BY <1>9, <2>1, <2>2, <2>6, <3>1, <3>2, <3>3, <3>4, Entered
  <2> QED
    BY <1>8, <2>4, <2>5, <2>7, Together DEF Locks
<1>14. CASE ~Conflict(r, pushed)
  <2> DEFINE new == SetConn(pushed, r, Conn[r])
  <2>1. /\ active' = [active EXCEPT ![r] = "running"]
        /\ bulk' = IF Scope[r] = "bulk" THEN r ELSE bulk
        /\ Store(new, {pushed})
        /\ stage' = [stage EXCEPT ![r] = "registering"]
    BY <1>14 DEF Begin, pushed
  <2>2. /\ Fits(new)
        /\ \A e \in ToSet(new) : \E o \in ToSet(pushed) :
             /\ e \in Entries
             /\ e.id = o.id /\ e.status = o.status /\ e.reviewed = o.reviewed
             /\ e.conn = IF o.id = r THEN Conn[r] ELSE o.conn
        /\ \A q : Logged(new, q) <=> Logged(pushed, q)
    BY <1>2, SetConnFacts
  <2> HIDE DEF new
  <2>3. \A o \in Runs : IsActive(o)' <=> IsActive(o) \/ o = r
    BY <1>1, <2>1, LifecycleAssumption DEF IsActive, RunType
  <2>4. stage'[r] = "registering"
    BY <1>1, <2>1 DEF RunType
  <2>5. RunType'
    BY <1>1, <1>4, <2>1 DEF RunType, Phases
  <2>6. LockStage'
    BY <1>1, <1>6, <2>3, <2>4 DEF Locks, LockStage, Live
  <2>7. bulk = None
    BY <1>14 DEF Conflict
  <2>8. BulkHeld'
    BY <1>1, <2>1, <2>3, <2>7, LifecycleAssumption DEF Locks, BulkHeld, RunType
  <2>9. ASSUME NEW o \in Runs, IsActive(o)
        PROVE  /\ Scope[o] = "atomic" /\ Scope[r] = "atomic"
               /\ Conn[o] = Conn[r] => Message[o] # Message[r]
    <3>1. Scope[o] # "bulk"
      BY <1>1, <2>7, <2>9, LifecycleAssumption DEF Locks, BulkHeld
    <3>2. Scope[o] = "atomic" /\ Scope[r] \in {"bulk", "atomic"}
      BY <3>1, LifecycleAssumption
    <3>3. ~(Scope[r] = "bulk")
      BY <1>14, <2>9 DEF Conflict
    <3> QED
      BY <1>14, <2>9, <3>2, <3>3 DEF Conflict
  <2>10. Exclusive'
    BY <1>1, <2>3, <2>9 DEF Locks, Exclusive
  <2>11. ASSUME NEW e \in ToSet(new), e.id \in Runs
         PROVE  EntryOK(e)' /\ (e.status = "running" => Live(e.id)')
    <3>1. PICK o \in ToSet(pushed) :
             /\ e.id = o.id /\ e.status = o.status /\ e.reviewed = o.reviewed
             /\ e.conn = IF o.id = r THEN Conn[r] ELSE o.conn
      BY <2>2, <2>11
    <3>2. EntryOK(o)'
      BY <1>10, <2>11, <3>1
    <3>3. EntryOK(e)'
      BY <3>1, <3>2 DEF EntryOK, HonestEntry, Live
    <3>4. e.status = "running" => Live(e.id)'
      BY <1>12, <2>4, <2>11, <3>1 DEF Live
    <3> QED
      BY <3>3, <3>4
  <2>12. LogType' /\ EntryInv'
    <3>1. \A s \in {pushed} : Fits(s)
      BY <1>2
    <3>2. \A s \in {pushed} \cup {new} : \A e \in ToSet(s) : e.id \in Runs => EntryOK(e)'
      BY <1>10, <2>11
    <3>3. \A q \in Runs \ forgotten' : Live(q)' \/ q \in unreviewed' => Logged(new, q)
      BY <1>11, <2>2
    <3>4. forgotten' \subseteq Runs
      BY <1>5
    <3> QED
      BY <1>9, <2>1, <2>2, <2>11, <3>1, <3>2, <3>3, <3>4, Entered
  <2> QED
    BY <1>8, <2>5, <2>6, <2>8, <2>10, <2>12, Together DEF Locks
<1> QED
  BY <1>13, <1>14

\* A run ends before the bridge was called: nothing was dispatched.
LEMMA RegisterFailsInv == ASSUME IInv, NEW r \in Runs, RegisterFails(r) PROVE IInv'
<1>1. RunType /\ Locks
  BY TypeParts DEF IInv
<1>2. /\ stage[r] = "registering" /\ Complete(r, "error") /\ Live(r)
      /\ UNCHANGED <<stops, backend, outcome, reply, event, other, restarts>>
  BY DEF RegisterFails, bridgeVars, Live
<1>3. backend[r] = "none" /\ outcome[r] = None
  BY <1>1, <1>2 DEF Locks, Command
<1>4. /\ active' \in [Runs -> Phases \cup {None}] /\ bulk' \in Runs \cup {None}
      /\ stage' = [stage EXCEPT ![r] = "ended"]
      /\ unreviewed' \subseteq Runs
      /\ LockStage' /\ BulkHeld' /\ Exclusive' /\ ReviewIsLater'
      /\ LogType' /\ EntryInv'
  BY <1>2, <1>3, CompleteFacts DEF Results
<1>5. RunType'
  BY <1>1, <1>2, <1>4 DEF RunType
<1>6. Command'
  BY <1>1, <1>2, <1>3, <1>4 DEF Locks, Command, RunType
<1> QED
  BY <1>4, <1>5, <1>6, Together DEF Locks

\* The command is called.
LEMMA InvokeInv == ASSUME IInv, NEW r \in Runs, Invoke(r) PROVE IInv'
<1>1. RunType /\ Locks
  BY TypeParts DEF IInv
<1>2. RunType'
  BY <1>1 DEF Invoke, RunType
<1>3. LockStage' /\ BulkHeld' /\ Exclusive'
  BY <1>1 DEF Locks, Invoke, LockStage, BulkHeld, Exclusive, IsActive, RunType, Live
<1>4. Command'
  BY <1>1 DEF Locks, Invoke, Command, RunType
<1>5. ReviewIsLater'
  BY <1>1 DEF Locks, Invoke, ReviewIsLater, RunType
<1>6. LogType' /\ EntryInv'
  <2>1. UNCHANGED <<logVars, unreviewed, outcome>>
    BY DEF Invoke
  <2>2. \A q \in Runs : /\ Live(q)' <=> Live(q)
                        /\ stage[q] # "idle" => stage'[q] # "idle"
    BY <1>1 DEF Invoke, RunType, Live
  <2>3. ASSUME NEW e \in Entries, e.id \in Runs, EntryOK(e) PROVE HonestEntry(e)'
    <3>1. CASE e.id = r
      BY <2>3, <3>1 DEF Invoke, EntryOK, HonestEntry, Live
    <3>2. CASE e.id # r
      BY <1>1, <2>1, <2>3, <3>2 DEF Invoke, EntryOK, HonestEntry, RunType
    <3> QED
      BY <3>1, <3>2
  <2> QED
    BY <2>1, <2>2, <2>3, Quiet
<1> QED
  BY <1>2, <1>3, <1>4, <1>5, <1>6, Together DEF Locks

\* A terminal message that was sent ends the run it belongs to, if it waits.
LEMMA TakeInv ==
    ASSUME IInv, NEW r \in Runs, TakeReply(r) \/ TakeEvent(r) PROVE IInv'
<1>1. RunType /\ Locks
  BY TypeParts DEF IInv
<1>2. /\ Settle(r) /\ UNCHANGED <<stops, backend, outcome, other, restarts>>
      /\ reply' \in [Runs -> {"none", "sent", "taken", "lost"}]
      /\ event' \in [Runs -> {"none", "sent", "taken", "lost"}]
      /\ \A o \in Runs : /\ reply'[o] = "sent" => reply[o] = "sent"
                         /\ event'[o] = "sent" => event[o] = "sent"
  BY <1>1 DEF TakeReply, TakeEvent, RunType
<1>3. backend[r] = "done" /\ outcome[r] # None
  BY <1>1 DEF Locks, Command, TakeReply, TakeEvent, RunType
<1>4. outcome[r] \in Results \cup {"rejected"}
  BY <1>1, <1>3 DEF RunType
<1>5. CASE stage[r] = "waiting"
  <2> DEFINE result == IF outcome[r] = "rejected" THEN "error" ELSE outcome[r]
  <2>1. Complete(r, result) /\ Live(r)
    BY <1>2, <1>5 DEF Settle, Live
  <2>2. /\ result \in Results
        /\ result \in {"success", "stopped"} => outcome[r] = result
        /\ result = "error" => outcome[r] \in {"error", "rejected", None}
    BY <1>4 DEF Results
  <2> HIDE DEF result
  <2>3. /\ active' \in [Runs -> Phases \cup {None}] /\ bulk' \in Runs \cup {None}
        /\ stage' = [stage EXCEPT ![r] = "ended"]
        /\ unreviewed' \subseteq Runs
        /\ LockStage' /\ BulkHeld' /\ Exclusive' /\ ReviewIsLater'
        /\ LogType' /\ EntryInv'
    BY <1>2, <1>3, <2>1, <2>2, CompleteFacts
  <2>4. RunType'
    BY <1>1, <1>2, <2>3 DEF RunType
  <2>5. Command'
    BY <1>1, <1>2, <1>3, <2>3 DEF Locks, Command, RunType
  <2> QED
    BY <2>3, <2>4, <2>5, Together DEF Locks
<1>6. CASE stage[r] # "waiting"
  <2>1. UNCHANGED <<logVars, active, bulk, stage, unreviewed>>
    BY <1>2, <1>6 DEF Settle
  <2>2. RunType'
    BY <1>1, <1>2, <2>1 DEF RunType
  <2>3. Command'
    BY <1>1, <1>2, <2>1 DEF Locks, Command
  <2>4. LockStage' /\ BulkHeld' /\ Exclusive' /\ ReviewIsLater'
    BY <1>1, <2>1 DEF Locks, LockStage, BulkHeld, Exclusive, ReviewIsLater, IsActive, Live
  <2>5. LogType' /\ EntryInv'
    <3>1. \A q \in Runs : /\ Live(q)' <=> Live(q)
                          /\ stage[q] # "idle" => stage'[q] # "idle"
      BY <2>1 DEF Live
    <3>2. \A e \in Entries : e.id \in Runs /\ EntryOK(e) => HonestEntry(e)'
      BY <1>2 DEF EntryOK, HonestEntry
    <3> QED
      BY <2>1, <3>1, <3>2, Quiet
  <2> QED
    BY <2>2, <2>3, <2>4, <2>5, Together DEF Locks
<1> QED
  BY <1>5, <1>6

\* The bridge answers a command once; no entry says anything definite of it yet.
LEMMA BridgeInv == ASSUME IInv, NEW r \in Runs, Bridge(r) PROVE IInv'
<1>1. RunType /\ Locks
  BY TypeParts DEF IInv
<1>2. /\ backend[r] = "called"
      /\ UNCHANGED <<active, bulk, logVars, stage, stops, other, restarts, unreviewed>>
      /\ backend' = [backend EXCEPT ![r] = "done"]
      /\ reply' = [reply EXCEPT ![r] = "sent"]
      /\ event' \in {event, [event EXCEPT ![r] = "sent"]}
      /\ \E o \in Results \cup {"rejected"} : outcome' = [outcome EXCEPT ![r] = o]
  BY DEF Bridge, Reject, WorkerEnds
<1>3. RunType'
  <2>1. backend' \in [Runs -> {"none", "called", "done"}]
    BY <1>1, <1>2 DEF RunType
  <2>2. /\ reply' \in [Runs -> {"none", "sent", "taken", "lost"}]
        /\ event' \in [Runs -> {"none", "sent", "taken", "lost"}]
    BY <1>1, <1>2 DEF RunType
  <2>3. outcome' \in [Runs -> Results \cup {"rejected", None}]
    BY <1>1, <1>2 DEF RunType
  <2> QED
    BY <1>1, <1>2, <2>1, <2>2, <2>3 DEF RunType
<1>4. LockStage' /\ BulkHeld' /\ Exclusive' /\ ReviewIsLater'
  BY <1>1, <1>2 DEF Locks, LockStage, BulkHeld, Exclusive, ReviewIsLater, IsActive, Live
<1>5. Command'
  BY <1>1, <1>2, LifecycleAssumption DEF Locks, Command, RunType, Results
<1>6. LogType' /\ EntryInv'
  <2>1. \A q \in Runs : /\ Live(q)' <=> Live(q)
                        /\ stage[q] # "idle" => stage'[q] # "idle"
    BY <1>2 DEF Live
  <2>2. ASSUME NEW e \in Entries, e.id \in Runs, EntryOK(e) PROVE HonestEntry(e)'
    <3>1. CASE e.id = r
      <4>1. outcome[r] = None
        BY <1>1, <1>2 DEF Locks, Command
      <4>2. e.status \notin {"success", "stopped", "error"}
        BY <1>2, <2>2, <3>1, <4>1, LifecycleAssumption DEF EntryOK, HonestEntry
      <4> QED
        BY <4>2 DEF HonestEntry
    <3>2. CASE e.id # r
      BY <1>1, <1>2, <2>2, <3>2 DEF EntryOK, HonestEntry, RunType
    <3> QED
      BY <3>1, <3>2
  <2> QED
    BY <1>2, <2>1, <2>2, Quiet
<1> QED
  BY <1>3, <1>4, <1>5, <1>6, Together DEF Locks

\* A terminal message is lost.
LEMMA LoseInv ==
    ASSUME IInv, NEW r \in Runs, LoseReply(r) \/ LoseEvent(r) PROVE IInv'
<1>1. RunType /\ Locks
  BY TypeParts DEF IInv
<1>2. UNCHANGED <<active, bulk, logVars, stage, backend, outcome, unreviewed>>
  BY DEF LoseReply, LoseEvent
<1>3. RunType'
  BY <1>1 DEF RunType, LoseReply, LoseEvent
<1>4. \A o \in Runs : /\ reply'[o] = "sent" => reply[o] = "sent"
                      /\ event'[o] = "sent" => event[o] = "sent"
  BY <1>1 DEF RunType, LoseReply, LoseEvent
<1>5. LockStage' /\ BulkHeld' /\ Exclusive' /\ ReviewIsLater'
  BY <1>1, <1>2 DEF Locks, LockStage, BulkHeld, Exclusive, ReviewIsLater, IsActive, Live
<1>6. Command'
  BY <1>1, <1>2, <1>4 DEF Locks, Command
<1>7. LogType' /\ EntryInv'
  <2>1. \A q \in Runs : /\ Live(q)' <=> Live(q)
                        /\ stage[q] # "idle" => stage'[q] # "idle"
    BY <1>2 DEF Live
  <2>2. \A e \in Entries : e.id \in Runs /\ EntryOK(e) => HonestEntry(e)'
    BY <1>2 DEF EntryOK, HonestEntry
  <2> QED
    BY <1>2, <2>1, <2>2, Quiet
<1> QED
  BY <1>3, <1>5, <1>6, <1>7, Together DEF Locks

\* Steps of the user and of other operations leave locks and bridge alone.
LEMMA SameLocks ==
    ASSUME IInv, UNCHANGED <<active, bulk, stage, bridgeVars>>, unreviewed' \subseteq unreviewed
    PROVE  Locks'
<1>1. Locks /\ UNCHANGED <<active, bulk, stage, backend, outcome, reply, event>>
  BY DEF IInv, bridgeVars
<1>2. LockStage' /\ BulkHeld' /\ Exclusive' /\ ReviewIsLater'
  BY <1>1 DEF Locks, LockStage, BulkHeld, Exclusive, ReviewIsLater, IsActive, Live
<1>3. Command'
  BY <1>1 DEF Locks, Command
<1> QED
  BY <1>2, <1>3 DEF Locks

\* The user reviews an operation.
LEMMA ReviewInv == ASSUME IInv, Reconcile PROVE IInv'
<1>1. RunType /\ LogType /\ EntryInv
  BY TypeParts DEF IInv
<1>2. PICK k \in DOMAIN log : /\ Unresolved(log[k])
                              /\ Log([log EXCEPT ![k].reviewed = TRUE])
                              /\ unreviewed' = unreviewed \ {log[k].id}
  BY DEF Reconcile
<1>3. UNCHANGED <<active, bulk, stage, stops, backend, outcome, reply, event, other, restarts>>
  BY DEF Reconcile, bridgeVars
<1>4. RunType'
  BY <1>1, <1>2, <1>3 DEF RunType
<1>5. Locks'
  BY <1>2, <1>3, SameLocks DEF bridgeVars
<1> DEFINE new == [log EXCEPT ![k].reviewed = TRUE]
<1>6. Store(new, {}) /\ UNCHANGED forgotten
  BY <1>2 DEF Log
<1>7. /\ Fits(new)
      /\ \A e \in ToSet(new) : \/ e \in ToSet(log)
                               \/ /\ e.id = log[k].id /\ e.status = log[k].status
                                  /\ e.conn = log[k].conn /\ e \in Entries
      /\ \A r : Logged(new, r) <=> Logged(log, r)
  BY <1>1, ReviewFacts DEF LogType
<1> HIDE DEF new
<1>8. log[k] \in Entries /\ log[k] \in ToSet(log) /\ \A e \in ToSet(log) : e \in Entries
  BY <1>1, Members DEF LogType, Fits
<1>9. log[k].id \in Runs => EntryOK(log[k])
  BY <1>1, <1>8 DEF EntryInv, LogEntries
<1>10. ASSUME NEW e \in Entries, e.id \in Runs, EntryOK(e) PROVE EntryOK(e)'
  BY <1>2, <1>3, <1>10 DEF EntryOK, HonestEntry, Live
<1>11. ASSUME NEW e \in ToSet(new), e.id \in Runs
       PROVE  EntryOK(e)' /\ (e.status = "running" => Live(e.id)')
  <2>1. CASE e \in ToSet(log)
    BY <1>1, <1>3, <1>8, <1>10, <1>11, <2>1 DEF EntryInv, LogEntries, LogIsCurrent, Live
  <2>2. CASE e.id = log[k].id /\ e.status = log[k].status /\ e.conn = log[k].conn
    BY <1>2, <1>3, <1>9, <1>11, <2>2 DEF EntryOK, HonestEntry, Live, Unresolved
  <2> QED
    BY <1>7, <1>11, <2>1, <2>2
<1>12. ASSUME NEW r \in Runs \ forgotten', Live(r)' \/ r \in unreviewed' PROVE Logged(new, r)
  BY <1>1, <1>2, <1>3, <1>6, <1>7, <1>12 DEF EntryInv, Remembered, Live
<1>13. LogType' /\ EntryInv'
  BY <1>1, <1>6, <1>7, <1>10, <1>11, <1>12, Entered DEF LogType
<1> QED
  BY <1>4, <1>5, <1>13, Together

\* The user clears a log in which nothing is under way or to be reviewed.
LEMMA ClearInv == ASSUME IInv, ClearLog PROVE IInv'
<1>1. RunType /\ LogType /\ EntryInv
  BY TypeParts DEF IInv
<1>2. /\ \A e \in ToSet(log) : e.status # "running" /\ ~Unresolved(e)
      /\ Store(<<>>, {}) /\ UNCHANGED <<forgotten, unreviewed, stage, backend, outcome>>
      /\ UNCHANGED <<active, bulk, stops, reply, event, other, restarts>>
  BY DEF ClearLog, Log, bridgeVars
<1>3. RunType'
  BY <1>1, <1>2 DEF RunType
<1>4. Locks'
  BY <1>2, SameLocks DEF bridgeVars
<1>5. ASSUME NEW e \in Entries, e.id \in Runs, EntryOK(e) PROVE EntryOK(e)'
  BY <1>2, <1>5 DEF EntryOK, HonestEntry, Live
<1>6. ASSUME NEW r \in Runs \ forgotten', Live(r)' \/ r \in unreviewed' PROVE FALSE
  <2>1. Live(r) \/ r \in unreviewed
    BY <1>2, <1>6 DEF Live
  <2>2. PICK e \in ToSet(log) : e.id = r
    BY <1>1, <1>2, <1>6, <2>1 DEF EntryInv, Remembered, Logged
  <2>3. EntryOK(e)
    BY <1>1, <2>2 DEF EntryInv, LogEntries
  <2>4. e.status # "running" /\ ~Unresolved(e)
    BY <1>2
  <2> QED
    BY <2>1, <2>2, <2>3, <2>4 DEF EntryOK, Unresolved
<1>7. LogType' /\ EntryInv'
  BY <1>1, <1>2, <1>5, <1>6, EmptyLog, Entered DEF LogType
<1> QED
  BY <1>3, <1>4, <1>7, Together

\* Another logged operation begins, or ends.
LEMMA OtherInv ==
    ASSUME IInv, NEW o \in Others, OtherBegins(o) \/ OtherEnds(o) PROVE IInv'
<1>1. RunType /\ LogType /\ EntryInv
  BY TypeParts DEF IInv
<1>2. UNCHANGED <<active, bulk, stage, stops, backend, outcome, reply, event, restarts,
                  unreviewed>>
  BY DEF OtherBegins, OtherEnds, bridgeVars
<1>3. o \notin Runs
  BY LifecycleAssumption
<1>4. RunType'
  <2>1. \/ other' = [other EXCEPT ![o] = "busy"]
        \/ other' = [other EXCEPT ![o] = "ended"]
    BY DEF OtherBegins, OtherEnds
  <2> QED
    BY <1>1, <1>2, <2>1 DEF RunType
<1>5. Locks'
  BY <1>2, SameLocks DEF bridgeVars
<1>6. ASSUME NEW e \in Entries, e.id \in Runs, EntryOK(e) PROVE EntryOK(e)'
  BY <1>2, <1>6 DEF EntryOK, HonestEntry, Live
<1>7. ASSUME NEW e \in ToSet(log), e.id \in Runs
      PROVE  EntryOK(e) /\ e \in Entries /\ (e.status = "running" => Live(e.id)')
  BY <1>1, <1>2, <1>7, Members DEF EntryInv, LogEntries, LogIsCurrent, LogType, Fits, Live
<1>8. LogType' /\ EntryInv'
  <2>1. CASE OtherBegins(o)
    <3> DEFINE new == Push(log, o)
    <3>1. /\ Store(new, {})
          /\ forgotten' = {r \in Runs : (r \in forgotten \/ Logged(log, r)) /\ ~Logged(new, r)}
      BY <2>1 DEF OtherBegins, Forget
    <3>2. Fits(new) /\ \A e \in ToSet(new) : e \in ToSet(log) \/ e.id = o
      BY <1>1, PushFacts DEF LogType
    <3> HIDE DEF new
    <3>3. ASSUME NEW e \in ToSet(new), e.id \in Runs
          PROVE  EntryOK(e)' /\ (e.status = "running" => Live(e.id)')
      <4>1. e \in ToSet(log)
        BY <1>3, <3>2, <3>3
      <4> QED
        BY <1>6, <1>7, <3>3, <4>1
    <3>4. ASSUME NEW r \in Runs \ forgotten', Live(r)' \/ r \in unreviewed' PROVE Logged(new, r)
      <4>1. Live(r) \/ r \in unreviewed
        BY <1>2, <3>4 DEF Live
      <4>2. r \in forgotten \/ Logged(log, r)
        BY <1>1, <4>1 DEF EntryInv, Remembered
      <4> QED
        BY <3>1, <4>2
    <3>5. forgotten' \subseteq Runs
      BY <3>1
    <3> QED
      BY <1>6, <3>1, <3>2, <3>3, <3>4, <3>5, Entered
  <2>2. CASE OtherEnds(o)
    <3>1. Log(Update(log, o, "success"))
      BY <2>2 DEF OtherEnds
    <3> DEFINE new == Update(log, o, "success")
    <3>2. Store(new, {}) /\ UNCHANGED forgotten
      BY <3>1 DEF Log
    <3>3. "success" \in Statuses
      BY DEF Statuses, Results
    <3>4. /\ Fits(new)
          /\ \A e \in ToSet(new) : \E p \in ToSet(log) :
               /\ e \in Entries
               /\ e.id = p.id /\ e.conn = p.conn /\ e.reviewed = p.reviewed
               /\ e.status = IF p.id = o THEN "success" ELSE p.status
          /\ \A r : Logged(new, r) <=> Logged(log, r)
      BY <1>1, <3>3, UpdateFacts DEF LogType
    <3> HIDE DEF new
    <3>5. ASSUME NEW e \in ToSet(new), e.id \in Runs
          PROVE  EntryOK(e)' /\ (e.status = "running" => Live(e.id)')
      <4>1. PICK p \in ToSet(log) :
               /\ e \in Entries
               /\ e.id = p.id /\ e.conn = p.conn /\ e.reviewed = p.reviewed
               /\ e.status = p.status
        BY <1>3, <3>4, <3>5
      <4>2. e = p
        BY <1>7, <3>5, <4>1 DEF Entries
      <4> QED
        BY <1>6, <1>7, <3>5, <4>1, <4>2
    <3>6. ASSUME NEW r \in Runs \ forgotten', Live(r)' \/ r \in unreviewed' PROVE Logged(new, r)
      BY <1>1, <1>2, <3>2, <3>4, <3>6 DEF EntryInv, Remembered, Live
    <3> QED
      BY <1>1, <1>6, <3>2, <3>4, <3>5, <3>6, Entered DEF LogType
  <2> QED
    BY <2>1, <2>2
<1> QED
  BY <1>4, <1>5, <1>8, Together

\* The interface starts anew: locks are gone; what it reads back, however old,
\* calls no run running, and what must be reviewed is in it or forgotten.
LEMMA RestartInv == ASSUME IInv, Restart PROVE IInv'
<1>1. RunType /\ LogType /\ Locks /\ EntryInv
  BY TypeParts DEF IInv
<1>2. /\ active' = [r \in Runs |-> None] /\ bulk' = None
      /\ stage' = [r \in Runs |-> IF IsActive(r) THEN "lost" ELSE stage[r]]
      /\ unreviewed' = unreviewed \cup {r \in Runs : stage[r] = "waiting"}
      /\ failures' = 0
      /\ UNCHANGED <<saved, backend, outcome, reply, event>>
  BY DEF Restart, bridgeVars
<1>3. PICK n \in 0..Len(saved) :
         /\ log' = [i \in 1..n |-> Interrupted(saved[i])]
         /\ forgotten' = {r \in Runs : /\ r \in forgotten \/ Logged(log, r)
                                       /\ ~Logged(SubSeq(saved, 1, n), r)}
  BY DEF Restart, Forget
<1>4. /\ Fits(log')
      /\ \A e \in ToSet(log') : \E o \in ToSet(saved) :
           /\ e \in Entries
           /\ e.id = o.id /\ e.conn = o.conn /\ e.reviewed = o.reviewed
           /\ o.id \in Runs => e.status = IF o.status = "running" THEN "unknown" ELSE o.status
      /\ \A r : Logged(log', r) <=> Logged(SubSeq(saved, 1, n), r)
  <2> DEFINE t == [i \in 1..n |-> Interrupted(saved[i])]
  <2>1. /\ Fits(t)
        /\ \A e \in ToSet(t) : \E o \in ToSet(saved) :
             /\ e \in Entries
             /\ e.id = o.id /\ e.conn = o.conn /\ e.reviewed = o.reviewed
             /\ o.id \in Runs => e.status = IF o.status = "running" THEN "unknown" ELSE o.status
        /\ \A r : Logged(t, r) <=> Logged(SubSeq(saved, 1, n), r)
    BY <1>1, InterruptedFacts DEF LogType
  <2>2. log' = t
    BY <1>3
  <2> HIDE DEF t
  <2> QED
    BY <2>1, <2>2
<1>5. RunType'
  <2>1. /\ active' \in [Runs -> Phases \cup {None}] /\ bulk' \in Runs \cup {None}
        /\ stage' \in [Runs -> {"idle", "registering", "waiting", "ended", "lost"}]
    BY <1>1, <1>2 DEF RunType
  <2>2. /\ stops' \in [Runs -> 0..MaxStops] /\ other' \in [Others -> {"idle", "busy", "ended"}]
        /\ restarts' \in 0..MaxRestarts
        /\ unreviewed' \subseteq Runs
    BY <1>1, LifecycleAssumption DEF RunType, Restart
  <2> QED
    BY <1>1, <1>2, <2>1, <2>2 DEF RunType
<1>6. \A r \in Runs : /\ ~IsActive(r)' /\ ~Live(r)'
                      /\ stage'[r] = IF Live(r) THEN "lost" ELSE stage[r]
  BY <1>1, <1>2 DEF Locks, LockStage, IsActive, Live
<1>7. LockStage' /\ Exclusive'
  BY <1>6 DEF LockStage, Exclusive
<1>8. BulkHeld'
  BY <1>2, <1>6, LifecycleAssumption DEF BulkHeld
<1>9. Command'
  BY <1>1, <1>2, <1>6 DEF Locks, Command, Live
<1>10. ReviewIsLater'
  BY <1>1, <1>2, <1>6 DEF Locks, ReviewIsLater, RunType, Live
<1>11. ASSUME NEW e, e.id \in Runs, EntryOK(e) PROVE EntryOK(e)'
  BY <1>2, <1>6, <1>11 DEF EntryOK, HonestEntry, Live
<1>12. SavedEntries'
  BY <1>1, <1>2, <1>11 DEF EntryInv, SavedEntries
<1>13. ASSUME NEW e \in ToSet(log'), e.id \in Runs PROVE EntryOK(e)' /\ e.status # "running"
  <2>1. PICK o \in ToSet(saved) :
           /\ e.id = o.id /\ e.conn = o.conn /\ e.reviewed = o.reviewed
           /\ e.status = IF o.status = "running" THEN "unknown" ELSE o.status
    BY <1>4, <1>13
  <2>2. EntryOK(o)'
    BY <1>1, <1>11, <1>13, <2>1 DEF EntryInv, SavedEntries
  <2> QED
    BY <1>6, <1>13, <2>1, <2>2 DEF EntryOK, HonestEntry
<1>14. LogEntries' /\ LogIsCurrent'
  BY <1>13 DEF LogEntries, LogIsCurrent
<1>15. Remembered'
  <2> SUFFICES ASSUME NEW r \in Runs \ forgotten', Live(r)' \/ r \in unreviewed'
               PROVE  Logged(log', r)
    BY DEF Remembered, Logged
  <2>1. Live(r) \/ r \in unreviewed
    BY <1>2, <1>6 DEF Live
  <2>2. r \in forgotten \/ Logged(log, r)
    BY <1>1, <2>1 DEF EntryInv, Remembered
  <2> QED
    BY <1>3, <1>4, <2>2
<1>16. LogType'
  BY <1>1, <1>2, <1>3, <1>4, LifecycleAssumption DEF LogType, Fits
<1> QED
  BY <1>5, <1>7, <1>8, <1>9, <1>10, <1>12, <1>14, <1>15, <1>16, Together DEF Locks, EntryInv

\* Stop, its two answers, and the watchdog.
LEMMA StopInv ==
    ASSUME IInv, NEW r \in Runs,
           Watchdog(r) \/ Stop(r) \/ StopAcknowledged(r) \/ StopRejected(r)
    PROVE  IInv'
<1>1. RunType /\ Locks
  BY TypeParts DEF IInv
<1>2. RunType' /\ UNCHANGED <<bulk, logVars, stage, bridgeVars, unreviewed>>
  <2>1. CASE Watchdog(r)
    BY <1>1, <2>1 DEF Watchdog, RunType, Phases, bridgeVars
  <2>2. CASE Stop(r)
    BY <1>1, <2>2, LifecycleAssumption DEF Stop, RunType, Phases, bridgeVars
  <2>3. CASE StopAcknowledged(r)
    BY <1>1, <2>3, LifecycleAssumption DEF StopAcknowledged, RunType, bridgeVars
  <2>4. CASE StopRejected(r)
    BY <1>1, <2>4, LifecycleAssumption DEF StopRejected, RunType, Phases, bridgeVars
  <2> QED
    BY <2>1, <2>2, <2>3, <2>4
<1>3. \A o \in Runs : IsActive(o)' <=> IsActive(o)
  <2>1. CASE Watchdog(r)
    BY <1>1, <2>1, LifecycleAssumption DEF Locks, LockStage, Live, Watchdog, RunType, IsActive
  <2>2. CASE Stop(r)
    BY <1>1, <2>2, LifecycleAssumption DEF Stop, RunType, IsActive
  <2>3. CASE StopAcknowledged(r)
    BY <2>3 DEF StopAcknowledged, IsActive
  <2>4. CASE StopRejected(r)
    BY <1>1, <2>4, LifecycleAssumption DEF StopRejected, RunType, IsActive
  <2> QED
    BY <2>1, <2>2, <2>3, <2>4
<1> QED
  BY <1>2, <1>3, SamePhase

\* The invariant is preserved by every step.
LEMMA NextInv == IInv /\ [Next]_vars => IInv'
<1> SUFFICES ASSUME IInv, [Next]_vars PROVE IInv'
  OBVIOUS
<1>1. ASSUME NEW r \in Runs, Begin(r) PROVE IInv'
  BY <1>1, BeginInv
<1>2. ASSUME NEW r \in Runs, RegisterFails(r) PROVE IInv'
  BY <1>2, RegisterFailsInv
<1>3. ASSUME NEW r \in Runs, Invoke(r) PROVE IInv'
  BY <1>3, InvokeInv
<1>4. ASSUME NEW r \in Runs, TakeReply(r) \/ TakeEvent(r) PROVE IInv'
  BY <1>4, TakeInv
<1>5. ASSUME NEW r \in Runs, Watchdog(r) \/ Stop(r) \/ StopAcknowledged(r) \/ StopRejected(r)
      PROVE  IInv'
  BY <1>5, StopInv
<1>6. ASSUME NEW r \in Runs, Bridge(r) PROVE IInv'
  BY <1>6, BridgeInv
<1>7. ASSUME NEW r \in Runs, LoseReply(r) \/ LoseEvent(r) PROVE IInv'
  BY <1>7, LoseInv
<1>8. CASE Reconcile
  BY <1>8, ReviewInv
<1>9. CASE ClearLog
  BY <1>9, ClearInv
<1>10. CASE Restart
  BY <1>10, RestartInv
<1>11. ASSUME NEW o \in Others, OtherBegins(o) \/ OtherEnds(o) PROVE IInv'
  BY <1>11, OtherInv
<1>12. CASE UNCHANGED vars
  <2>1. RunType' /\ UNCHANGED <<bulk, logVars, stage, bridgeVars, unreviewed>>
    BY <1>12, TypeParts DEF IInv, RunType, vars, bridgeVars
  <2>2. \A r \in Runs : IsActive(r)' <=> IsActive(r)
    BY <1>12 DEF vars, IsActive
  <2> QED
    BY <2>1, <2>2, SamePhase
<1> QED
  BY <1>1, <1>2, <1>3, <1>4, <1>5, <1>6, <1>7, <1>8, <1>9, <1>10, <1>11, <1>12
     DEF Next, Terminated

-----------------------------------------------------------------------------
(* Theorems.                                                               *)

\* The inductive invariant holds in every reachable state.
LEMMA Invariant == Spec => []IInv
  BY InitInv, NextInv, PTL DEF Spec

\* Every variable of the interface's records keeps its type; in particular the
\* log and the journal never exceed their capacity (useScript.ts, appStore.ts).
THEOREM TypeCorrect == Spec => []TypeOK
  BY Invariant, PTL DEF IInv

\* A bulk operation has the interface to itself, and no two operations act on
\* one message, for any number of operations (the guards of useScript.ts).
THEOREM ConflictsExcluded == Spec => []Exclusive
  BY Invariant, PTL DEF IInv, Locks

\* The lock outlives Stop, the watchdog and lost messages: while the command is
\* at work and the interface was not restarted, its run is active.
THEOREM LockKept == Spec => []LockedUntilTerminal
<1>1. IInv => LockedUntilTerminal
  BY DEF IInv, Locks, Command, LockStage, Live, LockedUntilTerminal
<1> QED
  BY <1>1, Invariant, PTL

\* The two together: the lock holds and excludes.
THEOREM OperationsLocked == Spec => []LockHolds
<1>1. Exclusive /\ LockedUntilTerminal => LockHolds
  BY DEF LockHolds
<1> QED
  BY <1>1, ConflictsExcluded, LockKept, PTL

\* What the log says definitely, the bridge reported (or the run never reached
\* it), whatever the order of messages and reviews, and however old the journal
\* is that a restart reads back.
THEOREM LogIsHonest == Spec => []HonestLog
<1>1. IInv => HonestLog
  BY DEF IInv, EntryInv, LogEntries, EntryOK, HonestEntry, HonestLog
<1> QED
  BY <1>1, Invariant, PTL

\* Only Begin, and only without a conflict, makes a run active.
LEMMA StartsOnce ==
    ASSUME IInv, [Next]_vars, NEW r \in Runs, Starts(r)
    PROVE  Begin(r) /\ ~Conflict(r, Push(log, r))
<1>1. TypeOK /\ active[r] = None /\ active'[r] # None /\ ~IsActive(r)
  BY DEF IInv, Starts, IsActive
<1>2. ASSUME NEW q \in Runs, Begin(q) PROVE q = r /\ ~Conflict(r, Push(log, r))
  BY <1>1, <1>2 DEF Begin, TypeOK
<1>3. ASSUME NEW q \in Runs, RegisterFails(q) \/ TakeReply(q) \/ TakeEvent(q) PROVE FALSE
  BY <1>1, <1>3 DEF RegisterFails, TakeReply, TakeEvent, Settle, Complete, TypeOK
<1>4. ASSUME NEW q \in Runs, Watchdog(q) \/ Stop(q) \/ StopRejected(q) PROVE FALSE
  <2>1. IsActive(q) \/ UNCHANGED active
    BY <1>4, LifecycleAssumption
       DEF IInv, Locks, LockStage, Live, Watchdog, Stop, StopRejected, IsActive
  <2>2. \E phase : active' = [active EXCEPT ![q] = phase] \/ UNCHANGED active
    BY <1>4 DEF Watchdog, Stop, StopRejected
  <2> QED
    BY <1>1, <2>1, <2>2 DEF TypeOK
<1>5. ASSUME NEW q \in Runs,
             \/ Invoke(q) \/ StopAcknowledged(q) \/ Bridge(q) \/ LoseReply(q) \/ LoseEvent(q)
      PROVE  FALSE
  BY <1>1, <1>5 DEF Invoke, StopAcknowledged, Bridge, Reject, WorkerEnds, LoseReply, LoseEvent
<1>6. CASE Reconcile \/ ClearLog \/ UNCHANGED vars \/ \E o \in Others : OtherBegins(o) \/ OtherEnds(o)
  BY <1>1, <1>6 DEF Reconcile, ClearLog, OtherBegins, OtherEnds, vars
<1>7. CASE Restart
  BY <1>1, <1>7 DEF Restart
<1> QED
  BY <1>2, <1>3, <1>4, <1>5, <1>6, <1>7 DEF Next, Terminated

\* An operation to be reviewed that the new run has not pushed out is in the
\* log, unresolved, and its entry names its connection or none.
LEMMA StepBlocked ==
    ASSUME IInv, [Next]_vars, NEW r \in Runs, Starts(r), NEW o \in unreviewed \ forgotten'
    PROVE  Conn[o] # Conn[r]
<1>1. Begin(r) /\ ~Conflict(r, Push(log, r))
  BY StartsOnce
<1> DEFINE pushed == Push(log, r)
<1>2. LogType /\ Locks /\ EntryInv /\ o \in Runs
  BY TypeParts DEF IInv, RunType
<1>3. o # r /\ ~Live(o)
  BY <1>1, <1>2 DEF Begin, Locks, ReviewIsLater, Live
<1>4. \A e \in ToSet(pushed) : e \in ToSet(log) \/ e.id = r
  BY <1>2, PushFacts DEF LogType
<1>5. forgotten' = {q \in Runs : (q \in forgotten \/ Logged(log, q)) /\ ~Logged(pushed, q)}
  BY <1>1 DEF Begin, Forget
<1>6. ~Conflict(r, pushed)
  BY <1>1
<1> HIDE DEF pushed
<1>7. Logged(pushed, o)
  <2>1. o \in forgotten \/ Logged(log, o)
    BY <1>2 DEF EntryInv, Remembered
  <2> QED
    BY <1>2, <1>5, <2>1
<1>8. PICK e \in ToSet(pushed) : e.id = o
  BY <1>7 DEF Logged
<1>9. EntryOK(e) /\ e.status # "running"
  BY <1>2, <1>3, <1>4, <1>8 DEF EntryInv, LogEntries, LogIsCurrent
<1>10. Unresolved(e) /\ e.conn \in {None, Conn[o]}
  BY <1>8, <1>9 DEF EntryOK, Unresolved
<1>11. e.conn \notin {None, Conn[r]}
  BY <1>6, <1>8, <1>10 DEF Conflict
<1> QED
  BY <1>10, <1>11

\* No destructive operation starts on a connection with an operation that ended
\* unknown, or was interrupted, and was not reviewed, unless its entry is gone:
\* through other operations, Stop, late messages, failed saves, clearing the log
\* and restarts from a journal of any age (runOperation's guard,
\* loadOperationJournal).  The capacity of the log is any positive number, so
\* that it may be full at every moment.
THEOREM UnreviewedBlocks == Spec => UnknownBlocks
<1>1. IInv /\ [Next]_vars
        => [\A r \in Runs : Starts(r) =>
              \A o \in unreviewed \ forgotten' : Conn[o] # Conn[r]]_vars
  BY StepBlocked
<1> QED
  BY <1>1, Invariant, PTL DEF Spec, UnknownBlocks

=============================================================================
