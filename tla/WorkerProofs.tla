---------------------------- MODULE WorkerProofs ----------------------------
(***************************************************************************)
(* Theorems about the worker process and the bridge's side of it: the gate *)
(* of single-message scans (SourceGate), the dispatch of requests          *)
(* (WorkerDispatch) and the bridge's calls (WorkerBridge), each for any    *)
(* values of its constants.  The three share no variable; where two would  *)
(* use one name, the gate's begins with Gate and the bridge's with Bridge. *)
(***************************************************************************)
EXTENDS SourceGate, WorkerDispatch, WorkerBridge, FiniteSetTheorems, TLAPS

-----------------------------------------------------------------------------
(***************************************************************************)
(* Theorems about SourceGate, for any number of goroutines, sources and    *)
(* addresses.  An entry is deleted by whoever brings its count to zero;    *)
(* that this never separates two callers of one source rests on the count  *)
(* being the number of references (Counted).                               *)
(***************************************************************************)

Users(e) == {p \in Procs : ref[p] = e}

\* A goroutine refers to an entry as long as it is in acquire, and the map
\* holds that entry for its source.
Referring ==
    \A p \in Procs :
        /\ pc[p] = "idle" => ref[p] = NoEntry
        /\ pc[p] # "idle" => ref[p] \in Entries /\ sources[key[p]] = ref[p]

\* Two sources never share an entry, and every entry in the map has a user.
Mapped ==
    \A k \in Keys : sources[k] # NoEntry =>
        /\ \A l \in Keys : sources[l] = sources[k] => k = l
        /\ \E p \in Procs : ref[p] = sources[k]

\* users counts the references.
Counted == \A e \in Entries : users[e] = Cardinality(Users(e))

\* The token in a gate belongs to exactly one user of the entry.
Inside(p) == pc[p] \in {"entered", "held"}

Tokens ==
    /\ \A p \in Procs : Inside(p) => gate[ref[p]]
    /\ \A p, q \in Procs : Inside(p) /\ Inside(q) /\ ref[p] = ref[q] => p = q
    /\ \A e \in Entries : gate[e] /\ (\E p \in Procs : ref[p] = e)
          => \E q \in Procs : Inside(q) /\ ref[q] = e

GateInv == GateTypeOK /\ Referring /\ Mapped /\ Counted /\ Tokens

-----------------------------------------------------------------------------
\* Any set of goroutines is finite.
LEMMA ProcSets ==
    ASSUME NEW A \in SUBSET Procs
    PROVE  IsFiniteSet(A) /\ Cardinality(A) \in Nat
  BY GateAssumption, FS_Subset, FS_CardinalityType

\* The invariant holds initially.
LEMMA GateInitInv == GateInit => GateInv
<1> SUFFICES ASSUME GateInit PROVE GateInv
  OBVIOUS
<1>1. GateTypeOK
  BY DEF GateInit, GateTypeOK, PCs
<1>2. Referring /\ Mapped /\ Tokens
  BY GateAssumption DEF GateInit, Referring, Mapped, Tokens, Inside
<1>3. Counted
  <2>1. \A e \in Entries : Users(e) = {}
    BY GateAssumption DEF GateInit, Users
  <2> QED
    BY <2>1, FS_EmptySet DEF GateInit, Counted
<1> QED
  BY <1>1, <1>2, <1>3 DEF GateInv

\* acquire's first critical section, when the map has the entry.
LEMMA LookupFound ==
    ASSUME GateInv, NEW p \in Procs, NEW k \in Keys, Lookup(p, k), sources[k] # NoEntry
    PROVE  GateInv'
<1> USE DEF GateInv
<1>1. PICK e \in Entries :
        /\ e = sources[k]
        /\ users' = [users EXCEPT ![e] = @ + 1]
        /\ sources' = sources /\ gate' = gate
        /\ ref' = [ref EXCEPT ![p] = e]
  BY DEF Lookup
<1>2. pc[p] = "idle" /\ ref[p] = NoEntry
  BY DEF Lookup, Referring
<1>3. /\ key' = [key EXCEPT ![p] = k]
      /\ pc' = [pc EXCEPT ![p] = "waiting"]
      /\ cancelled' = [cancelled EXCEPT ![p] = FALSE]
  BY DEF Lookup
<1>4. GateTypeOK'
  BY <1>1, <1>3 DEF GateTypeOK, PCs
<1>5. Referring'
  BY <1>1, <1>2, <1>3, GateAssumption DEF Referring, GateTypeOK
<1>6. Mapped'
  <2> SUFFICES ASSUME NEW l \in Keys, sources[l] # NoEntry
               PROVE  \E q \in Procs : ref'[q] = sources[l]
    BY <1>1 DEF Mapped
  <2>1. PICK q \in Procs : ref[q] = sources[l]
    BY DEF Mapped
  <2>2. q # p
    BY <2>1, <1>2
  <2> QED
    BY <2>1, <2>2, <1>1 DEF GateTypeOK
<1>7. Counted'
  <2> SUFFICES ASSUME NEW d \in Entries PROVE users'[d] = Cardinality(Users(d)')
    BY DEF Counted
  <2>1. CASE d = e
    <3>1. Users(e)' = Users(e) \cup {p} /\ p \notin Users(e)
      BY <1>1, <1>2, GateAssumption DEF Users, GateTypeOK
    <3>2. Cardinality(Users(e)') = Cardinality(Users(e)) + 1
      BY <3>1, ProcSets, FS_AddElement DEF Users
    <3> QED
      BY <2>1, <3>2, <1>1 DEF Counted, GateTypeOK
  <2>2. CASE d # e
    <3>1. Users(d)' = Users(d)
      BY <2>2, <1>1, <1>2, GateAssumption DEF Users, GateTypeOK
    <3> QED
      BY <2>2, <3>1, <1>1 DEF Counted, GateTypeOK
  <2> QED
    BY <2>1, <2>2
<1>8. Tokens'
  <2>1. \A q \in Procs : Inside(q)' <=> Inside(q)
    BY <1>2, <1>3 DEF Inside, GateTypeOK
  <2>2. \A q \in Procs : Inside(q) => q # p /\ ref'[q] = ref[q]
    BY <1>1, <1>2 DEF Inside, GateTypeOK
  <2>3. (\A q \in Procs : Inside(q) => gate[ref[q]])'
    BY <2>1, <2>2, <1>1 DEF Tokens
  <2>4. (\A q, r \in Procs : Inside(q) /\ Inside(r) /\ ref[q] = ref[r] => q = r)'
    BY <2>1, <2>2 DEF Tokens
  <2>5. ASSUME NEW d \in Entries, gate[d], NEW q \in Procs, ref'[q] = d
        PROVE  \E r \in Procs : Inside(r)' /\ ref'[r] = d
    <3>1. \E r \in Procs : ref[r] = d
      BY <2>5, <1>1 DEF Mapped, GateTypeOK
    <3>2. PICK r \in Procs : Inside(r) /\ ref[r] = d
      BY <3>1, <2>5 DEF Tokens
    <3> QED
      BY <3>2, <2>1, <2>2
  <2> QED
    BY <2>3, <2>4, <2>5, <1>1 DEF Tokens
<1> QED
  BY <1>4, <1>5, <1>6, <1>7, <1>8

\* acquire's first critical section, when it creates the entry: nobody uses
\* the source, since a user would have its entry in the map.
LEMMA LookupNew ==
    ASSUME GateInv, NEW p \in Procs, NEW k \in Keys, Lookup(p, k), sources[k] = NoEntry
    PROVE  GateInv'
<1> USE DEF GateInv
<1>1. PICK e \in Entries :
        /\ Unreferenced(e)
        /\ sources' = [sources EXCEPT ![k] = e]
        /\ users' = [users EXCEPT ![e] = 1]
        /\ gate' = [gate EXCEPT ![e] = FALSE]
        /\ ref' = [ref EXCEPT ![p] = e]
  BY DEF Lookup
<1>2. pc[p] = "idle" /\ ref[p] = NoEntry
  BY DEF Lookup, Referring
<1>3. /\ key' = [key EXCEPT ![p] = k]
      /\ pc' = [pc EXCEPT ![p] = "waiting"]
      /\ cancelled' = [cancelled EXCEPT ![p] = FALSE]
  BY DEF Lookup
<1>4. GateTypeOK'
  BY <1>1, <1>3 DEF GateTypeOK, PCs
<1>5. Referring'
  <2>1. \A q \in Procs \ {p} : pc[q] # "idle" => key[q] # k
    BY GateAssumption DEF Referring
  <2> QED
    BY <2>1, <1>1, <1>2, <1>3, GateAssumption DEF Referring, GateTypeOK
<1>6. Mapped'
  <2> SUFFICES ASSUME NEW l \in Keys, sources'[l] # NoEntry
               PROVE  /\ \A j \in Keys : sources'[j] = sources'[l] => l = j
                      /\ \E q \in Procs : ref'[q] = sources'[l]
    BY DEF Mapped
  <2>1. CASE l = k
    BY <2>1, <1>1 DEF Unreferenced, GateTypeOK
  <2>2. CASE l # k
    <3>1. PICK q \in Procs : ref[q] = sources[l]
      BY <2>2, <1>1 DEF Mapped, GateTypeOK
    <3>2. q # p
      BY <3>1, <2>2, <1>1, <1>2 DEF GateTypeOK
    <3>3. sources'[l] = sources[l] /\ sources[l] # e
      BY <2>2, <1>1 DEF Unreferenced, GateTypeOK
    <3>4. \A j \in Keys : sources'[j] = sources'[l] => l = j
      BY <3>3, <2>2, <1>1 DEF Mapped, GateTypeOK
    <3> QED
      BY <3>1, <3>2, <3>3, <3>4, <1>1 DEF GateTypeOK
  <2> QED
    BY <2>1, <2>2
<1>7. Counted'
  <2> SUFFICES ASSUME NEW d \in Entries PROVE users'[d] = Cardinality(Users(d)')
    BY DEF Counted
  <2>1. CASE d = e
    <3>1. Users(e)' = {p}
      BY <1>1 DEF Users, Unreferenced, GateTypeOK
    <3> QED
      BY <2>1, <3>1, <1>1, FS_Singleton DEF GateTypeOK
  <2>2. CASE d # e
    <3>1. Users(d)' = Users(d)
      BY <2>2, <1>1, <1>2, GateAssumption DEF Users, GateTypeOK
    <3> QED
      BY <2>2, <3>1, <1>1 DEF Counted, GateTypeOK
  <2> QED
    BY <2>1, <2>2
<1>8. Tokens'
  <2>1. \A q \in Procs : Inside(q)' <=> Inside(q)
    BY <1>2, <1>3 DEF Inside, GateTypeOK
  <2>2. \A q \in Procs : Inside(q) => q # p /\ ref'[q] = ref[q] /\ ref[q] # e /\ ref[q] \in Entries
    BY <1>1, <1>2 DEF Inside, GateTypeOK, Unreferenced, Referring
  <2>3. \A d \in Entries : d # e => gate'[d] = gate[d]
    BY <1>1 DEF GateTypeOK
  <2>4. (\A q \in Procs : Inside(q) => gate[ref[q]])'
    BY <2>1, <2>2, <2>3 DEF Tokens
  <2>5. (\A q, r \in Procs : Inside(q) /\ Inside(r) /\ ref[q] = ref[r] => q = r)'
    BY <2>1, <2>2 DEF Tokens
  <2>6. ASSUME NEW d \in Entries, gate'[d], NEW q \in Procs, ref'[q] = d
        PROVE  \E r \in Procs : Inside(r)' /\ ref'[r] = d
    <3>1. d # e
      BY <2>6, <1>1 DEF GateTypeOK
    <3>2. ref[q] = d
      BY <2>6, <3>1, <1>1 DEF GateTypeOK
    <3>3. PICK r \in Procs : Inside(r) /\ ref[r] = d
      BY <3>1, <3>2, <2>3, <2>6 DEF Tokens
    <3> QED
      BY <3>3, <2>1, <2>2
  <2> QED
    BY <2>4, <2>5, <2>6 DEF Tokens
<1> QED
  BY <1>4, <1>5, <1>6, <1>7, <1>8

\* The steps between the two critical sections leave the map and the counts
\* alone.
LEMMA MiddleStep ==
    ASSUME GateInv, NEW p \in Procs,
           Enter(p) \/ GiveUp(p) \/ CheckContext(p) \/ Release(p) \/ Cancel(p)
    PROVE  GateInv'
<1> USE DEF GateInv
<1>1. /\ UNCHANGED <<sources, users, key, ref>>
      /\ pc[p] # "idle" /\ pc'[p] # "idle"
      /\ \A q \in Procs \ {p} : pc'[q] = pc[q]
  BY DEF Enter, GiveUp, CheckContext, Release, Cancel, GateTypeOK
<1>2. ref[p] \in Entries
  BY <1>1 DEF Referring
<1>3. GateTypeOK'
  BY <1>2 DEF Enter, GiveUp, CheckContext, Release, Cancel, GateTypeOK, PCs
<1>4. Referring' /\ Mapped'
  BY <1>1 DEF Referring, Mapped
<1>5. Counted'
  <2>1. \A e \in Entries : Users(e)' = Users(e)
    BY <1>1 DEF Users
  <2> QED
    BY <2>1, <1>1 DEF Counted
<1>6. Tokens'
  <2>1. CASE Enter(p)
    <3>1. gate' = [gate EXCEPT ![ref[p]] = TRUE] /\ ~gate[ref[p]] /\ Inside(p)'
      BY <2>1 DEF Enter, Inside, GateTypeOK
    <3>2. \A q \in Procs \ {p} : Inside(q)' <=> Inside(q)
      BY <1>1 DEF Inside
    <3>3. \A q \in Procs : Inside(q) => ref[q] # ref[p] /\ ref[q] \in Entries
      BY <3>1, <1>1 DEF Tokens, Inside, Referring
    <3>4. \A d \in Entries : gate'[d] <=> (gate[d] \/ d = ref[p])
      BY <3>1, <1>2 DEF GateTypeOK
    <3>5. (\A q \in Procs : Inside(q) => gate[ref[q]])'
      BY <3>2, <3>3, <3>4, <1>1, <1>2 DEF Tokens
    <3>6. (\A q, r \in Procs : Inside(q) /\ Inside(r) /\ ref[q] = ref[r] => q = r)'
      BY <3>2, <3>3, <1>1 DEF Tokens
    <3>7. ASSUME NEW d \in Entries, gate'[d], NEW q \in Procs, ref[q] = d
          PROVE  \E r \in Procs : Inside(r)' /\ ref[r] = d
      BY <3>7, <3>1, <3>2, <3>4 DEF Tokens
    <3> QED
      BY <3>5, <3>6, <3>7, <1>1 DEF Tokens
  <2>2. CASE /\ gate' = gate
             /\ \A q \in Procs : Inside(q)' <=> Inside(q)
    BY <2>2, <1>1 DEF Tokens
  <2>3. CASE /\ gate' = [gate EXCEPT ![ref[p]] = FALSE] /\ Inside(p) /\ ~Inside(p)'
    <3>1. \A q \in Procs \ {p} : Inside(q)' <=> Inside(q)
      BY <1>1 DEF Inside
    <3>2. \A q \in Procs : Inside(q)' => Inside(q) /\ ref[q] # ref[p] /\ ref[q] \in Entries
      BY <2>3, <3>1, <1>1 DEF Tokens, Inside, Referring
    <3>3. \A d \in Entries : gate'[d] <=> (gate[d] /\ d # ref[p])
      BY <2>3, <1>2 DEF GateTypeOK
    <3>4. (\A q \in Procs : Inside(q) => gate[ref[q]])'
      BY <3>2, <3>3, <1>1 DEF Tokens
    <3>5. (\A q, r \in Procs : Inside(q) /\ Inside(r) /\ ref[q] = ref[r] => q = r)'
      BY <3>2, <1>1 DEF Tokens
    <3>6. ASSUME NEW d \in Entries, gate'[d], NEW q \in Procs, ref[q] = d
          PROVE  \E r \in Procs : Inside(r)' /\ ref[r] = d
      BY <3>6, <3>1, <3>3 DEF Tokens
    <3> QED
      BY <3>4, <3>5, <3>6, <1>1 DEF Tokens
  <2>4. \/ Enter(p)
        \/ gate' = gate /\ \A q \in Procs : Inside(q)' <=> Inside(q)
        \/ gate' = [gate EXCEPT ![ref[p]] = FALSE] /\ Inside(p) /\ ~Inside(p)'
    <3>1. CASE GiveUp(p) \/ Cancel(p)
      BY <3>1 DEF GiveUp, Cancel, Inside, GateTypeOK
    <3>2. CASE CheckContext(p) /\ cancelled[p]
      BY <3>2 DEF CheckContext, Inside, GateTypeOK
    <3>3. CASE CheckContext(p) /\ ~cancelled[p]
      BY <3>3 DEF CheckContext, Inside, GateTypeOK
    <3>4. CASE Release(p)
      BY <3>4 DEF Release, Inside, GateTypeOK
    <3> QED
      BY <3>1, <3>2, <3>3, <3>4
  <2> QED
    BY <2>1, <2>2, <2>3, <2>4
<1> QED
  BY <1>3, <1>4, <1>5, <1>6

\* The release's critical section: the entry is deleted only by its last user.
LEMMA ForgetStep ==
    ASSUME GateInv, NEW p \in Procs, Forget(p)
    PROVE  GateInv'
<1> USE DEF GateInv
<1>0. PICK e \in Entries : e = ref[p]
  BY DEF Forget, Referring
<1>1. /\ pc[p] = "leaving" /\ ref[p] = e /\ sources[key[p]] = e
      /\ key[p] \in Keys
  BY <1>0 DEF Forget, Referring, GateTypeOK
<1>2. /\ users' = [users EXCEPT ![e] = @ - 1]
      /\ ref' = [ref EXCEPT ![p] = NoEntry]
      /\ pc' = [pc EXCEPT ![p] = "idle"]
      /\ UNCHANGED <<gate, key, cancelled>>
      /\ sources' = IF users[e] = 1 THEN [sources EXCEPT ![key[p]] = NoEntry] ELSE sources
  BY <1>0 DEF Forget
<1>3. Users(e)' = Users(e) \ {p} /\ p \in Users(e)
  BY <1>1, <1>2, GateAssumption DEF Users, GateTypeOK
<1>4. users[e] >= 1 /\ Cardinality(Users(e)') = users[e] - 1
  <2>1. Cardinality(Users(e)') = Cardinality(Users(e)) - 1
    BY <1>3, ProcSets, FS_RemoveElement DEF Users
  <2>2. Cardinality(Users(e)') \in Nat
    BY <1>3, ProcSets DEF Users
  <2> QED
    BY <2>1, <2>2, <1>1 DEF Counted, GateTypeOK
<1>5. users[e] = 1 => \A q \in Procs \ {p} : ref[q] # e
  <2> SUFFICES ASSUME users[e] = 1 PROVE Users(e) \ {p} = {}
    BY DEF Users
  <2>1. Cardinality(Users(e) \ {p}) = 0 /\ IsFiniteSet(Users(e) \ {p})
    BY <1>3, <1>4, ProcSets DEF Users
  <2> QED
    BY <2>1, FS_EmptySet
<1>6. users[e] # 1 => \E q \in Procs \ {p} : ref[q] = e
  <2> SUFFICES ASSUME users[e] # 1, Users(e) \ {p} = {} PROVE FALSE
    BY DEF Users
  <2>1. Cardinality(Users(e) \ {p}) = 0
    BY FS_EmptySet
  <2> QED
    BY <2>1, <1>1, <1>3, <1>4 DEF GateTypeOK
<1>7. GateTypeOK'
  <2>1. users' \in [Entries -> Nat]
    BY <1>1, <1>2, <1>4 DEF GateTypeOK
  <2>2. sources' \in [Keys -> Entries \cup {NoEntry}]
    BY <1>1, <1>2 DEF GateTypeOK
  <2> QED
    BY <2>1, <2>2, <1>2 DEF GateTypeOK, PCs
<1>8. Referring'
  <2> SUFFICES ASSUME NEW q \in Procs, q # p, pc[q] # "idle"
               PROVE  sources'[key[q]] = ref[q]
    BY <1>2 DEF Referring, GateTypeOK
  <2>1. sources[key[q]] = ref[q] /\ key[q] \in Keys
    BY DEF Referring, GateTypeOK
  <2>2. users[e] = 1 => key[q] # key[p]
    BY <2>1, <1>1, <1>5
  <2> QED
    BY <2>1, <2>2, <1>1, <1>2 DEF GateTypeOK
<1>9. Mapped'
  <2> SUFFICES ASSUME NEW l \in Keys, sources'[l] # NoEntry
               PROVE  /\ \A j \in Keys : sources'[j] = sources'[l] => l = j
                      /\ \E q \in Procs : ref'[q] = sources'[l]
    BY DEF Mapped
  <2>1. sources'[l] = sources[l] /\ (users[e] = 1 => l # key[p])
    BY <1>1, <1>2 DEF GateTypeOK
  <2>2. \A j \in Keys : sources'[j] = sources'[l] => sources[j] = sources[l]
    BY <2>1, <1>1, <1>2 DEF GateTypeOK
  <2>3. PICK q \in Procs : ref[q] = sources[l]
    BY <2>1 DEF Mapped
  <2>4. \E r \in Procs \ {p} : ref[r] = sources[l]
    <3>1. CASE sources[l] = e
      BY <3>1, <2>1, <1>1, <1>6, GateAssumption DEF Mapped
    <3>2. CASE sources[l] # e
      BY <3>2, <2>3, <1>1
    <3> QED
      BY <3>1, <3>2
  <2> QED
    BY <2>1, <2>2, <2>4, <1>2 DEF Mapped, GateTypeOK
<1>10. Counted'
  <2> SUFFICES ASSUME NEW d \in Entries PROVE users'[d] = Cardinality(Users(d)')
    BY DEF Counted
  <2>1. CASE d = e
    BY <2>1, <1>1, <1>2, <1>4 DEF GateTypeOK
  <2>2. CASE d # e
    <3>1. Users(d)' = Users(d)
      BY <2>2, <1>1, <1>2, GateAssumption DEF Users, GateTypeOK
    <3> QED
      BY <2>2, <3>1, <1>2 DEF Counted, GateTypeOK
  <2> QED
    BY <2>1, <2>2
<1>11. Tokens'
  <2>1. \A q \in Procs : Inside(q)' <=> Inside(q)
    BY <1>1, <1>2 DEF Inside, GateTypeOK
  <2>2. \A q \in Procs : q # p => ref'[q] = ref[q]
    BY <1>2 DEF GateTypeOK
  <2>3. ~Inside(p)
    BY <1>1 DEF Inside
  <2>4. (\A q \in Procs : Inside(q) => gate[ref[q]])'
    BY <2>1, <2>2, <2>3, <1>2 DEF Tokens
  <2>5. (\A q, r \in Procs : Inside(q) /\ Inside(r) /\ ref[q] = ref[r] => q = r)'
    BY <2>1, <2>2, <2>3 DEF Tokens
  <2>6. ASSUME NEW d \in Entries, gate[d], NEW q \in Procs, ref'[q] = d
        PROVE  \E r \in Procs : Inside(r)' /\ ref'[r] = d
    <3>1. ref[q] = d
      BY <2>6, <1>2, GateAssumption DEF GateTypeOK
    <3>2. PICK r \in Procs : Inside(r) /\ ref[r] = d
      BY <2>6, <3>1 DEF Tokens
    <3> QED
      BY <3>2, <2>1, <2>2, <2>3
  <2> QED
    BY <2>4, <2>5, <2>6, <1>2 DEF Tokens
<1> QED
  BY <1>7, <1>8, <1>9, <1>10, <1>11

\* Every step preserves the invariant.
LEMMA GateNextInv == GateInv /\ [GateNext]_gateVars => GateInv'
<1> SUFFICES ASSUME GateInv, [GateNext]_gateVars PROVE GateInv'
  OBVIOUS
<1>1. CASE UNCHANGED gateVars
  BY <1>1 DEF gateVars, GateInv, GateTypeOK, Referring, Mapped, Counted, Users, Tokens, Inside
<1>2. ASSUME NEW p \in Procs, NEW k \in Keys, Lookup(p, k) PROVE GateInv'
  BY <1>2, LookupFound, LookupNew
<1>3. ASSUME NEW p \in Procs,
             Enter(p) \/ GiveUp(p) \/ CheckContext(p) \/ Release(p) \/ Cancel(p)
      PROVE  GateInv'
  BY <1>3, MiddleStep
<1>4. ASSUME NEW p \in Procs, Forget(p) PROVE GateInv'
  BY <1>4, ForgetStep
<1> QED
  BY <1>1, <1>2, <1>3, <1>4 DEF GateNext, Step

-----------------------------------------------------------------------------
\* The invariant holds in every reachable state.
LEMMA GateInvariance == GateSpec => []GateInv
  BY GateInitInv, GateNextInv, PTL DEF GateSpec

\* Every variable keeps its type; above all, no count ever drops below zero.
THEOREM GateTypeCorrect == GateSpec => []GateTypeOK
  BY GateInvariance, PTL DEF GateInv

\* Two scans of one broker source never overlap, for any number of callers,
\* sources and re-creations of the entry that serialises them.
THEOREM MutuallyExclusive == GateSpec => []MutualExclusion
<1>1. GateInv => MutualExclusion
  BY DEF GateInv, MutualExclusion, Scanning, Referring, Tokens, Inside
<1> QED
  BY <1>1, GateInvariance, PTL

\* The map's entry for a source exists exactly while somebody uses the source.
THEOREM NoLeakedEntry == GateSpec => []EntryIffUsed
<1>1. GateInv => EntryIffUsed
  <2> SUFFICES ASSUME GateInv, NEW k \in Keys
               PROVE  sources[k] # NoEntry <=> \E p \in Procs : pc[p] # "idle" /\ key[p] = k
    BY DEF EntryIffUsed
  <2>1. ASSUME sources[k] # NoEntry PROVE \E p \in Procs : pc[p] # "idle" /\ key[p] = k
    <3>1. PICK p \in Procs : ref[p] = sources[k]
      BY <2>1 DEF GateInv, Mapped
    <3>2. pc[p] # "idle" /\ sources[key[p]] = sources[k] /\ key[p] \in Keys
      BY <3>1, <2>1 DEF GateInv, Referring, GateTypeOK
    <3> QED
      BY <3>2, <2>1 DEF GateInv, Mapped
  <2>2. ASSUME NEW p \in Procs, pc[p] # "idle", key[p] = k PROVE sources[k] # NoEntry
    BY <2>2, GateAssumption DEF GateInv, Referring
  <2> QED
    BY <2>1, <2>2
<1> QED
  BY <1>1, GateInvariance, PTL

\* Callers of one source meet at one gate, callers of two sources at two.
THEOREM SharedGate == GateSpec => []OneGatePerSource
<1>1. GateInv => OneGatePerSource
  BY GateAssumption DEF GateInv, OneGatePerSource, Referring, Mapped, GateTypeOK
<1> QED
  BY <1>1, GateInvariance, PTL

\* A closed gate in the map has an owner that will open it.
THEOREM TokenOwned == GateSpec => []NoStrandedToken
<1>1. GateInv => NoStrandedToken
  BY GateAssumption DEF GateInv, NoStrandedToken, Mapped, Tokens, Inside
<1> QED
  BY <1>1, GateInvariance, PTL

-----------------------------------------------------------------------------
(***************************************************************************)
(* Theorems about WorkerDispatch, for any number of requests and slots.    *)
(* They rest on the registry naming exactly the runs that are under way    *)
(* (Registry), on the slots being held by the requests between taking one  *)
(* and giving it back (SlotsAccounted), and on a request being unanswered  *)
(* up to the stage in which it writes its answer (AnswerStages).           *)
(***************************************************************************)

\* activeRuns names exactly the live runs, each under its own id.
Registry ==
    /\ \A r \in Runs : Live(r) => registered[RunId[r]] = r
    /\ \A i \in RunIds : registered[i] # NoRun =>
          Live(registered[i]) /\ RunId[registered[i]] = i

\* Regular requests and Stops never reach the stages of a run.
StageKinds ==
    /\ \A q \in Plain : stage[q] \in {"unsent", "waiting", "running", "answered", "over"}
    /\ \A c \in Cancels : stage[c] \in {"unsent", "waiting", "running", "over"}
    /\ \A c \in Cancels : stage[c] = "running" => found[c] \in Runs

Unanswered(q) == stage[q] \in {"unsent", "waiting", "running", "scanning", "returned"}

AnswerStages == \A q \in Requests : Len(answers[q]) = IF Unanswered(q) THEN 0 ELSE 1

\* A run that was stopped in time stays stopped and has returned.
StopSeen ==
    \A r \in Runs : stoppedInTime[r] =>
        stopped[r] /\ stage[r] \in {"returned", "answered", "freed", "over"}

DispatchInv == TypeOK /\ Registry /\ StageKinds /\ SlotsAccounted /\ AnswerStages /\ StopSeen /\ StopIsReported

-----------------------------------------------------------------------------
LEMMA Kinds ==
    /\ Runs \subseteq Handled /\ Plain \subseteq Handled
    /\ Handled \subseteq Requests /\ Cancels \subseteq Requests
    /\ \A q \in Handled : q \notin Cancels
    /\ \A r \in Runs : RunId[r] \in RunIds /\ r \notin Plain /\ r # NoRun
    /\ \A c \in Cancels : Target[c] \in RunIds
  BY DispatchAssumption DEF Handled, Requests, RunIds

LEMMA HolderSets == IsFiniteSet(Holders) /\ Cardinality(Holders) \in Nat
  BY DispatchAssumption, FS_Subset, FS_CardinalityType DEF Holders, Handled

\* The invariant holds initially.
LEMMA DispatchInitInv == Init => DispatchInv
<1> SUFFICES ASSUME Init PROVE DispatchInv
  OBVIOUS
<1>1. TypeOK
  BY DispatchAssumption DEF Init, TypeOK, Stages, Errors, Answers
<1>2. Registry /\ StageKinds /\ StopSeen
  BY Kinds DEF Init, Registry, StageKinds, StopSeen, Live
<1>3. SlotsAccounted
  <2>1. Holders = {}
    BY Kinds DEF Init, Holders
  <2> QED
    BY <2>1, FS_EmptySet DEF Init, SlotsAccounted
<1>4. AnswerStages /\ StopIsReported
  BY DispatchAssumption DEF Init, AnswerStages, Unanswered, StopIsReported
<1> QED
  BY <1>1, <1>2, <1>3, <1>4 DEF DispatchInv

\* The slots of a step that moves one request, which neither takes nor gives
\* back a slot.
LEMMA SameHolders ==
    ASSUME DispatchInv, NEW q \in Requests, NEW s, Goto(q, s), slots' = slots,
           q \in Handled => (q \in Holders <=> s \in {"running", "scanning", "returned", "answered"})
    PROVE  SlotsAccounted'
<1>1. Holders' = Holders
  BY Kinds DEF DispatchInv, TypeOK, Goto, Holders
<1> QED
  BY <1>1 DEF DispatchInv, SlotsAccounted

\* A step that answers an unanswered request.
LEMMA AnswerWritten ==
    ASSUME DispatchInv, NEW q \in Requests, NEW s, NEW a \in Answers,
           Unanswered(q), s \in {"answered", "freed", "over"}, Goto(q, s), Write(q, a)
    PROVE  AnswerStages' /\ answers'[q] = <<a>>
<1>1. answers \in [Requests -> Seq(Answers)] /\ stage \in [Requests -> Stages]
  BY DEF DispatchInv, TypeOK
<1>2. answers[q] = <<>>
  BY <1>1 DEF DispatchInv, AnswerStages
<1>3. answers'[q] = <<a>> /\ stage'[q] = s
  BY <1>1, <1>2 DEF Goto, Write
<1>4. \A p \in Requests : p # q => answers'[p] = answers[p] /\ stage'[p] = stage[p]
  BY <1>1 DEF Goto, Write
<1>5. ASSUME NEW p \in Requests
      PROVE  Len(answers'[p]) = IF Unanswered(p)' THEN 0 ELSE 1
  <2>1. CASE p = q
    BY <2>1, <1>3 DEF Unanswered
  <2>2. CASE p # q
    <3>1. answers'[p] = answers[p] /\ (Unanswered(p)' <=> Unanswered(p))
      BY <2>2, <1>4 DEF Unanswered
    <3> QED
      BY <3>1 DEF DispatchInv, AnswerStages
  <2> QED
    BY <2>1, <2>2
<1> QED
  BY <1>3, <1>5 DEF AnswerStages

\* The two dispatches.
LEMMA DispatchRunInv == ASSUME DispatchInv, NEW r \in Runs, DispatchRun(r) PROVE DispatchInv'
<1> USE DEF DispatchInv
<1>1. /\ stage[r] = "unsent"
      /\ UNCHANGED <<reading, slots, stopped, found, err, stoppedInTime>>
  BY DEF DispatchRun
<1>2. CASE registered[RunId[r]] # NoRun
  <2>1. /\ answers' = [answers EXCEPT ![r] = Append(@, "invalid_run")]
        /\ stage' = [stage EXCEPT ![r] = "over"] /\ registered' = registered
    BY <1>2 DEF DispatchRun, Write, Goto
  <2>2. TypeOK'
    BY <1>1, <2>1, Kinds DEF TypeOK, Stages, Answers
  <2>3. Registry' /\ StageKinds' /\ StopSeen'
    BY <1>1, <2>1, Kinds DEF Registry, StageKinds, StopSeen, Live, TypeOK
  <2>4. SlotsAccounted'
    BY <1>1, <2>1, Kinds, SameHolders DEF Goto, Holders
  <2>5. AnswerStages'
    BY <1>1, <2>1, Kinds, AnswerWritten DEF Answers, Unanswered, Goto, Write
  <2>6. StopIsReported'
    BY <1>1, <2>1, Kinds, DispatchAssumption DEF StopIsReported, StopSeen, TypeOK
  <2> QED
    BY <2>2, <2>3, <2>4, <2>5, <2>6
<1>3. CASE registered[RunId[r]] = NoRun
  <2>1. /\ registered' = [registered EXCEPT ![RunId[r]] = r]
        /\ stage' = [stage EXCEPT ![r] = "waiting"] /\ answers' = answers
    BY <1>3 DEF DispatchRun, Goto
  <2>2. TypeOK'
    BY <1>1, <2>1, Kinds DEF TypeOK, Stages
  <2>3. Registry'
    BY <1>1, <1>3, <2>1, Kinds DEF Registry, Live, TypeOK
  <2>4. StageKinds' /\ StopSeen'
    BY <1>1, <2>1, Kinds DEF StageKinds, StopSeen, TypeOK
  <2>5. SlotsAccounted'
    BY <1>1, <2>1, Kinds, SameHolders DEF Goto, Holders
  <2>6. AnswerStages' /\ StopIsReported'
    BY <1>1, <2>1, Kinds DEF AnswerStages, Unanswered, StopIsReported, TypeOK
  <2> QED
    BY <2>2, <2>3, <2>4, <2>5, <2>6
<1> QED
  BY <1>2, <1>3

LEMMA DispatchOtherInv ==
    ASSUME DispatchInv, NEW q \in Plain \cup Cancels, DispatchOther(q) PROVE DispatchInv'
<1> USE DEF DispatchInv
<1>1. /\ stage[q] = "unsent" /\ stage' = [stage EXCEPT ![q] = "waiting"]
      /\ UNCHANGED <<reading, registered, slots, stopped, found, err, answers, stoppedInTime>>
      /\ q \notin Runs
  BY DEF DispatchOther, Goto
<1>2. TypeOK'
  BY <1>1 DEF TypeOK, Stages
<1>3. Registry' /\ StageKinds' /\ StopSeen' /\ StopIsReported'
  BY <1>1, Kinds DEF Registry, StageKinds, StopSeen, StopIsReported, Live, TypeOK
<1>4. SlotsAccounted'
  BY <1>1, Kinds, SameHolders DEF Goto, Holders
<1>5. AnswerStages'
  BY <1>1, Kinds DEF AnswerStages, Unanswered, TypeOK
<1> QED
  BY <1>2, <1>3, <1>4, <1>5

\* Taking a slot and giving it back.
LEMMA TakeSlotInv == ASSUME DispatchInv, NEW q \in Handled, TakeSlot(q) PROVE DispatchInv'
<1> USE DEF DispatchInv
<1>1. /\ stage[q] = "waiting" /\ slots < Slots /\ slots' = slots + 1
      /\ stage' = [stage EXCEPT ![q] = "running"]
      /\ UNCHANGED <<reading, registered, stopped, found, err, answers, stoppedInTime>>
  BY DEF TakeSlot, Goto
<1>2. TypeOK'
  BY <1>1, Kinds, DispatchAssumption DEF TypeOK, Stages
<1>3. Registry' /\ StageKinds' /\ StopSeen' /\ StopIsReported'
  BY <1>1, Kinds DEF Registry, StageKinds, StopSeen, StopIsReported, Live, TypeOK, Handled
<1>4. SlotsAccounted'
  <2>1. Holders' = Holders \cup {q} /\ q \notin Holders
    BY <1>1, Kinds DEF Holders, TypeOK
  <2>2. Cardinality(Holders') = Cardinality(Holders) + 1
    BY <2>1, HolderSets, FS_AddElement
  <2> QED
    BY <1>1, <2>2 DEF SlotsAccounted
<1>5. AnswerStages'
  BY <1>1, Kinds DEF AnswerStages, Unanswered, TypeOK
<1> QED
  BY <1>2, <1>3, <1>4, <1>5

LEMMA FreeSlotInv == ASSUME DispatchInv, NEW q \in Handled, FreeSlot(q) PROVE DispatchInv'
<1> USE DEF DispatchInv
<1>1. /\ stage[q] = "answered" /\ slots' = slots - 1
      /\ stage' = [stage EXCEPT ![q] = IF q \in Runs THEN "freed" ELSE "over"]
      /\ UNCHANGED <<reading, registered, stopped, found, err, answers, stoppedInTime>>
  BY DEF FreeSlot, Goto
<1>2. SlotsAccounted' /\ slots \in Nat \ {0}
  <2>1. Holders' = Holders \ {q} /\ q \in Holders
    BY <1>1, Kinds DEF Holders, TypeOK
  <2>2. Cardinality(Holders') = Cardinality(Holders) - 1 /\ Cardinality(Holders) # 0
    BY <2>1, HolderSets, FS_RemoveElement, FS_EmptySet
  <2> QED
    BY <1>1, <2>2, HolderSets DEF SlotsAccounted
<1>3. TypeOK'
  BY <1>1, <1>2, Kinds, DispatchAssumption DEF TypeOK, Stages
<1>4. Registry' /\ StageKinds' /\ StopSeen' /\ StopIsReported'
  BY <1>1, Kinds DEF Registry, StageKinds, StopSeen, StopIsReported, Live, TypeOK, Handled
<1>5. AnswerStages'
  BY <1>1, Kinds DEF AnswerStages, Unanswered, TypeOK
<1> QED
  BY <1>2, <1>3, <1>4, <1>5

\* Around the handler of a run.
LEMMA StoppedWaitingInv == ASSUME DispatchInv, NEW r \in Runs, StoppedWaiting(r) PROVE DispatchInv'
<1> USE DEF DispatchInv
<1>1. PICK a \in {"stopped", "cancelled"} :
        /\ stage[r] = "waiting" /\ stage' = [stage EXCEPT ![r] = "freed"]
        /\ answers' = [answers EXCEPT ![r] = Append(@, a)]
        /\ UNCHANGED <<reading, registered, slots, stopped, found, err, stoppedInTime>>
  BY DEF StoppedWaiting, Goto, Write
<1>2. TypeOK'
  BY <1>1, Kinds DEF TypeOK, Stages, Answers
<1>3. Registry' /\ StageKinds' /\ StopSeen'
  BY <1>1, Kinds DEF Registry, StageKinds, StopSeen, Live, TypeOK
<1>4. SlotsAccounted'
  BY <1>1, Kinds, SameHolders DEF Goto, Holders
<1>5. AnswerStages'
  BY <1>1, Kinds, AnswerWritten DEF Answers, Unanswered, Goto, Write
<1>6. StopIsReported'
  BY <1>1, Kinds, DispatchAssumption DEF StopIsReported, StopSeen, TypeOK
<1> QED
  BY <1>2, <1>3, <1>4, <1>5, <1>6

LEMMA EnterSourceInv == ASSUME DispatchInv, NEW r \in Runs, EnterSource(r) PROVE DispatchInv'
<1> USE DEF DispatchInv
<1>1. /\ stage[r] = "running" /\ stage' = [stage EXCEPT ![r] = "scanning"]
      /\ UNCHANGED <<reading, registered, slots, stopped, found, err, answers, stoppedInTime>>
  BY DEF EnterSource, Goto
<1>2. TypeOK'
  BY <1>1, Kinds DEF TypeOK, Stages
<1>3. Registry' /\ StageKinds' /\ StopSeen' /\ StopIsReported'
  BY <1>1, Kinds DEF Registry, StageKinds, StopSeen, StopIsReported, Live, TypeOK
<1>4. SlotsAccounted'
  BY <1>1, Kinds, SameHolders DEF Goto, Holders
<1>5. AnswerStages'
  BY <1>1, Kinds DEF AnswerStages, Unanswered, TypeOK
<1> QED
  BY <1>2, <1>3, <1>4, <1>5

LEMMA ReturnInv == ASSUME DispatchInv, NEW r \in Runs, Return(r) \/ StopWaitingForSource(r) PROVE DispatchInv'
<1> USE DEF DispatchInv
<1>1. PICK e \in Errors, b \in BOOLEAN :
        /\ stage[r] \in {"running", "scanning"} /\ stage' = [stage EXCEPT ![r] = "returned"]
        /\ err' = [err EXCEPT ![r] = e]
        /\ b => stopped[r]
        /\ stoppedInTime' = [stoppedInTime EXCEPT ![r] = b]
        /\ UNCHANGED <<reading, registered, slots, stopped, found, answers>>
  BY Kinds DEF Return, StopWaitingForSource, Goto, Errors, TypeOK
<1>2. TypeOK'
  BY <1>1, Kinds DEF TypeOK, Stages
<1>3. Registry' /\ StageKinds' /\ StopSeen'
  BY <1>1, Kinds DEF Registry, StageKinds, StopSeen, Live, TypeOK
<1>4. SlotsAccounted'
  BY <1>1, Kinds, SameHolders DEF Goto, Holders
<1>5. AnswerStages'
  BY <1>1, Kinds DEF AnswerStages, Unanswered, TypeOK
<1>6. answers[r] = <<>>
  BY <1>1, Kinds DEF AnswerStages, Unanswered, TypeOK
<1>7. StopIsReported'
  BY <1>1, <1>6, DispatchAssumption DEF StopIsReported, TypeOK
<1> QED
  BY <1>2, <1>3, <1>4, <1>5, <1>7

LEMMA AnswerInv == ASSUME DispatchInv, NEW r \in Runs, Answer(r) PROVE DispatchInv'
<1> USE DEF DispatchInv
<1>1. /\ stage[r] = "returned" /\ stage' = [stage EXCEPT ![r] = "answered"]
      /\ answers' = [answers EXCEPT ![r] = Append(@, Outcome(r))]
      /\ UNCHANGED <<reading, registered, slots, stopped, found, err, stoppedInTime>>
  BY DEF Answer, Goto, Write
<1>2. Outcome(r) \in {"stopped", "cancelled", "error", "ok"}
      /\ (r \in Structured /\ stopped[r] => Outcome(r) = "stopped")
  BY DEF Outcome
<1>3. TypeOK'
  BY <1>1, <1>2, Kinds DEF TypeOK, Stages, Answers
<1>4. Registry' /\ StageKinds' /\ StopSeen'
  BY <1>1, Kinds DEF Registry, StageKinds, StopSeen, Live, TypeOK
<1>5. SlotsAccounted'
  BY <1>1, Kinds, SameHolders DEF Goto, Holders
<1>6. AnswerStages' /\ answers'[r] = <<Outcome(r)>>
  BY <1>1, <1>2, Kinds, AnswerWritten DEF Answers, Unanswered, Goto, Write
<1>7. StopIsReported'
  BY <1>1, <1>2, <1>6, DispatchAssumption DEF StopIsReported, StopSeen, TypeOK
<1> QED
  BY <1>3, <1>4, <1>5, <1>6, <1>7

LEMMA FinishRunInv == ASSUME DispatchInv, NEW r \in Runs, FinishRun(r) PROVE DispatchInv'
<1> USE DEF DispatchInv
<1>1. /\ stage[r] = "freed" /\ stage' = [stage EXCEPT ![r] = "over"]
      /\ registered' = [registered EXCEPT ![RunId[r]] = NoRun]
      /\ stopped' = [stopped EXCEPT ![r] = TRUE]
      /\ UNCHANGED <<reading, slots, found, err, answers, stoppedInTime>>
  BY Kinds DEF FinishRun, Goto, Registry, Live
<1>2. TypeOK'
  BY <1>1, Kinds DEF TypeOK, Stages
<1>3. Registry'
  BY <1>1, Kinds DEF Registry, Live, TypeOK
<1>4. StageKinds' /\ StopSeen' /\ StopIsReported'
  BY <1>1, Kinds DEF StageKinds, StopSeen, StopIsReported, TypeOK
<1>5. SlotsAccounted'
  BY <1>1, Kinds, SameHolders DEF Goto, Holders
<1>6. AnswerStages'
  BY <1>1, Kinds DEF AnswerStages, Unanswered, TypeOK
<1> QED
  BY <1>2, <1>3, <1>4, <1>5, <1>6

\* A regular request.
LEMMA AnswerPlainInv == ASSUME DispatchInv, NEW q \in Plain, AnswerPlain(q) PROVE DispatchInv'
<1> USE DEF DispatchInv
<1>1. PICK a \in {"ok", "error"} :
        /\ stage[q] = "running" /\ stage' = [stage EXCEPT ![q] = "answered"]
        /\ answers' = [answers EXCEPT ![q] = Append(@, a)]
        /\ UNCHANGED <<reading, registered, slots, stopped, found, err, stoppedInTime>>
  BY DEF AnswerPlain, Goto, Write
<1>2. TypeOK'
  BY <1>1, Kinds DEF TypeOK, Stages, Answers
<1>3. Registry' /\ StageKinds' /\ StopSeen'
  BY <1>1, Kinds DEF Registry, StageKinds, StopSeen, Live, TypeOK
<1>4. SlotsAccounted'
  BY <1>1, Kinds, SameHolders DEF Goto, Holders
<1>5. AnswerStages'
  BY <1>1, Kinds, AnswerWritten DEF Answers, Unanswered, Goto, Write
<1>6. StopIsReported'
  BY <1>1, Kinds, DispatchAssumption DEF StopIsReported, TypeOK
<1> QED
  BY <1>2, <1>3, <1>4, <1>5, <1>6

\* Stop.
LEMMA CancelInv == ASSUME DispatchInv, NEW c \in Cancels, CancelStep(c) PROVE DispatchInv'
<1> USE DEF DispatchInv
<1> DEFINE r == registered[Target[c]]
<1>1. CASE LookupRun(c) /\ r = NoRun
  <2>1. /\ stage[c] = "waiting" /\ stage' = [stage EXCEPT ![c] = "over"]
        /\ answers' = [answers EXCEPT ![c] = Append(@, "cancel_failed")]
        /\ UNCHANGED <<reading, registered, slots, stopped, found, err, stoppedInTime>>
    BY <1>1 DEF LookupRun, Goto, Write
  <2>2. TypeOK'
    BY <2>1, Kinds DEF TypeOK, Stages, Answers
  <2>3. Registry' /\ StageKinds' /\ StopSeen'
    BY <2>1, Kinds DEF Registry, StageKinds, StopSeen, Live, TypeOK
  <2>4. SlotsAccounted'
    BY <2>1, Kinds, SameHolders DEF Goto, Holders
  <2>5. AnswerStages'
    BY <2>1, Kinds, AnswerWritten DEF Answers, Unanswered, Goto, Write
  <2>6. StopIsReported'
    BY <2>1, Kinds, DispatchAssumption DEF StopIsReported, TypeOK
  <2> QED
    BY <2>2, <2>3, <2>4, <2>5, <2>6
<1>2. CASE LookupRun(c) /\ r # NoRun
  <2>1. PICK f \in Runs :
        /\ stage[c] = "waiting" /\ stage' = [stage EXCEPT ![c] = "running"]
        /\ found' = [found EXCEPT ![c] = f]
        /\ UNCHANGED <<reading, registered, slots, stopped, err, answers, stoppedInTime>>
    BY <1>2, Kinds DEF LookupRun, Goto, TypeOK
  <2>2. TypeOK'
    BY <2>1, Kinds DEF TypeOK, Stages
  <2>3. Registry' /\ StageKinds' /\ StopSeen' /\ StopIsReported'
    BY <2>1, Kinds DEF Registry, StageKinds, StopSeen, StopIsReported, Live, TypeOK
  <2>4. SlotsAccounted'
    BY <2>1, Kinds, SameHolders DEF Goto, Holders
  <2>5. AnswerStages'
    BY <2>1, Kinds DEF AnswerStages, Unanswered, TypeOK
  <2> QED
    BY <2>2, <2>3, <2>4, <2>5
<1>3. CASE StopRun(c)
  <2>1. PICK f \in Runs :
        /\ stage[c] = "running" /\ stage' = [stage EXCEPT ![c] = "over"]
        /\ stopped' = [stopped EXCEPT ![f] = TRUE]
        /\ answers' = [answers EXCEPT ![c] = Append(@, "ok")]
        /\ UNCHANGED <<reading, registered, slots, found, err, stoppedInTime>>
    BY <1>3 DEF StopRun, Goto, Write, StageKinds
  <2>2. TypeOK'
    BY <2>1, Kinds DEF TypeOK, Stages, Answers
  <2>3. Registry' /\ StageKinds' /\ StopSeen'
    BY <2>1, Kinds DEF Registry, StageKinds, StopSeen, Live, TypeOK
  <2>4. SlotsAccounted'
    BY <2>1, Kinds, SameHolders DEF Goto, Holders
  <2>5. AnswerStages'
    BY <2>1, Kinds, AnswerWritten DEF Answers, Unanswered, Goto, Write
  <2>6. StopIsReported'
    BY <2>1, Kinds, DispatchAssumption DEF StopIsReported, TypeOK
  <2> QED
    BY <2>2, <2>3, <2>4, <2>5, <2>6
<1> QED
  BY <1>1, <1>2, <1>3 DEF CancelStep, LookupRun

LEMMA EndOfInputInv == ASSUME DispatchInv, EndOfInput PROVE DispatchInv'
<1> USE DEF DispatchInv
<1>1. /\ reading' = FALSE
      /\ UNCHANGED <<stage, registered, slots, stopped, found, err, answers, stoppedInTime>>
  BY DEF EndOfInput
<1>2. TypeOK'
  BY <1>1 DEF TypeOK
<1>3. Registry' /\ StageKinds' /\ StopSeen' /\ StopIsReported'
  BY <1>1 DEF Registry, StageKinds, StopSeen, StopIsReported, Live
<1>4. SlotsAccounted' /\ AnswerStages'
  BY <1>1 DEF SlotsAccounted, Holders, AnswerStages, Unanswered
<1> QED
  BY <1>2, <1>3, <1>4

\* Every step keeps the invariant.
LEMMA DispatchNextInv == DispatchInv /\ [Next]_vars => DispatchInv'
<1> SUFFICES ASSUME DispatchInv, [Next]_vars PROVE DispatchInv'
  OBVIOUS
<1>1. CASE Dispatch \/ EndOfInput
  BY <1>1, DispatchRunInv, DispatchOtherInv, EndOfInputInv DEF Dispatch
<1>2. ASSUME NEW q \in Handled, TakeSlot(q) PROVE DispatchInv'
  BY <1>2, TakeSlotInv
<1>3. ASSUME NEW r \in Runs, EnterSource(r) \/ Return(r) \/ RunStep(r) PROVE DispatchInv'
  BY <1>3, Kinds, EnterSourceInv, ReturnInv, StoppedWaitingInv, AnswerInv, FreeSlotInv, FinishRunInv
  DEF RunStep
<1>4. ASSUME NEW q \in Plain, AnswerPlain(q) \/ FreeSlot(q) PROVE DispatchInv'
  BY <1>4, Kinds, AnswerPlainInv, FreeSlotInv
<1>5. ASSUME NEW c \in Cancels, CancelStep(c) PROVE DispatchInv'
  BY <1>5, CancelInv
<1>6. CASE UNCHANGED vars
  <2>1. UNCHANGED <<reading, stage, registered, slots, stopped, found, err, answers, stoppedInTime>>
    BY <1>6 DEF vars
  <2>2. TypeOK' /\ Registry' /\ StageKinds' /\ StopSeen' /\ StopIsReported'
    BY <2>1 DEF DispatchInv, TypeOK, Registry, StageKinds, StopSeen, StopIsReported, Live
  <2>3. SlotsAccounted' /\ AnswerStages'
    BY <2>1 DEF DispatchInv, SlotsAccounted, Holders, AnswerStages, Unanswered
  <2> QED
    BY <2>2, <2>3 DEF DispatchInv
<1> QED
  BY <1>1, <1>2, <1>3, <1>4, <1>5, <1>6 DEF Next, Terminated

\* The inductive invariant is an invariant.
THEOREM DispatchInvariance == Spec => []DispatchInv
<1>1. Init => DispatchInv
  BY DispatchInitInv
<1>2. DispatchInv /\ [Next]_vars => DispatchInv'
  BY DispatchNextInv
<1> QED
  BY <1>1, <1>2, PTL DEF Spec

-----------------------------------------------------------------------------
\* Every variable keeps its type; in particular the slots in use stay between
\* zero and the capacity of the channel.
THEOREM DispatchTypeCorrect == Spec => []TypeOK
<1>1. DispatchInv => TypeOK
  BY DEF DispatchInv
<1> QED
  BY <1>1, DispatchInvariance, PTL

\* No request is answered twice, and none that was read is left without an answer
\* when the worker exits (main.go: the paths through dispatch's goroutines).
THEOREM OneAnswer == Spec => []AnsweredOnce
<1>1. DispatchInv => AnsweredOnce
  <2> SUFFICES ASSUME DispatchInv, NEW q \in Requests
               PROVE  Len(answers[q]) <= 1 /\ (stage[q] = "over" => Len(answers[q]) = 1)
    BY DEF AnsweredOnce
  <2>1. Len(answers[q]) = IF Unanswered(q) THEN 0 ELSE 1
    BY DEF DispatchInv, AnswerStages
  <2>2. stage[q] = "over" => ~Unanswered(q)
    BY DEF Unanswered
  <2> QED
    BY <2>1, <2>2
<1> QED
  BY <1>1, DispatchInvariance, PTL

\* The slots in use are those of the requests in their handlers, whatever way
\* they take through their goroutines (main.go: handlerSlots).
THEOREM NoSlotLost == Spec => []SlotsAccounted
<1>1. DispatchInv => SlotsAccounted
  BY DEF DispatchInv
<1> QED
  BY <1>1, DispatchInvariance, PTL

\* When every slot is taken somebody who holds one can go on: slot waits and
\* source waits form no circle, for any number of slots, runs and scans
\* (main.go: handlerSlots, single_message_sources.go: acquire).
THEOREM WaitsAreOrdered == Spec => []NoCircle
<1>1. DispatchInv => NoCircle
  <2> SUFFICES ASSUME DispatchInv, slots = Slots PROVE \E q \in Holders : ~WaitsForSource(q)
    BY DEF NoCircle
  <2>1. Cardinality(Holders) # 0 /\ IsFiniteSet(Holders)
    BY HolderSets, DispatchAssumption DEF DispatchInv, SlotsAccounted
  <2>2. PICK q \in Holders : TRUE
    BY <2>1, FS_EmptySet
  <2>3. CASE WaitsForSource(q)
    <3>1. PICK o \in Scans : stage[o] = "scanning"
      BY <2>3 DEF WaitsForSource
    <3>2. o \in Holders /\ ~WaitsForSource(o)
      BY <3>1, DispatchAssumption DEF Holders, Handled, WaitsForSource
    <3> QED
      BY <3>2
  <2> QED
    BY <2>2, <2>3
<1> QED
  BY <1>1, DispatchInvariance, PTL

\* Two live runs never share a run id (main.go: registerRun and finishRun).
THEOREM UniqueRun == Spec => []OneRunPerId
<1>1. DispatchInv => OneRunPerId
  <2> SUFFICES ASSUME DispatchInv, NEW r \in Runs, NEW o \in Runs, Live(r), Live(o), RunId[r] = RunId[o]
               PROVE  r = o
    BY DEF OneRunPerId
  <2> QED
    BY DEF DispatchInv, Registry
<1> QED
  BY <1>1, DispatchInvariance, PTL

\* A structured run that was stopped before its handler returned is never
\* answered with success (main.go: the joined error in dispatch).
THEOREM StopReported == Spec => []StopIsReported
<1>1. DispatchInv => StopIsReported
  BY DEF DispatchInv
<1> QED
  BY <1>1, DispatchInvariance, PTL

\* A Stop is refused only when no run of its id is under way, also when the run
\* has not got its slot yet (main.go: registerRun before the goroutine, cancelRun).
THEOREM RefusedStop == Spec => FailedCancelMeansOver
<1> DEFINE Refused(c) == answers[c] = <<>> /\ answers'[c] = <<"cancel_failed">>
           Over(c) == \A r \in Runs : RunId[r] = Target[c] => ~Live(r)
<1>1. DispatchInv /\ [Next]_vars => [\A c \in Cancels : Refused(c) => Over(c)]_vars
  <2> SUFFICES ASSUME DispatchInv, Next, NEW c \in Cancels, Refused(c) PROVE Over(c)
    BY DEF vars
  <2> USE DEF DispatchInv
  <2>1. answers \in [Requests -> Seq(Answers)] /\ c \in Requests /\ answers'[c] # answers[c]
    BY Kinds DEF TypeOK
  <2>2. ASSUME NEW q \in Requests, NEW a, Write(q, a) PROVE q = c /\ a = "cancel_failed"
    <3>1. q = c
      BY <2>1, <2>2 DEF Write
    <3>2. answers'[c] = <<a>>
      BY <2>1, <2>2, <3>1 DEF Write
    <3> QED
      BY <3>1, <3>2
  <2>3. ASSUME NEW r \in Runs, DispatchRun(r) PROVE FALSE
    BY <2>1, <2>2, <2>3, Kinds DEF DispatchRun
  <2>4. ASSUME NEW r \in Runs, EnterSource(r) \/ Return(r) \/ RunStep(r) PROVE FALSE
    <3>1. CASE StoppedWaiting(r)
      BY <2>2, <3>1, Kinds DEF StoppedWaiting
    <3>2. CASE Answer(r)
      BY <2>2, <3>2, Kinds DEF Answer
    <3> QED
      BY <2>1, <2>4, <3>1, <3>2
      DEF EnterSource, Return, RunStep, StopWaitingForSource, FreeSlot, FinishRun
  <2>5. ASSUME NEW q \in Plain, AnswerPlain(q) \/ FreeSlot(q) PROVE FALSE
    <3>1. CASE AnswerPlain(q)
      BY <2>2, <3>1, Kinds, DispatchAssumption DEF AnswerPlain
    <3> QED
      BY <2>1, <2>5, <3>1 DEF FreeSlot
  <2>6. ASSUME NEW d \in Cancels, CancelStep(d)
        PROVE  d = c /\ registered[Target[c]] = NoRun
    <3>1. CASE LookupRun(d)
      BY <2>1, <2>2, <3>1, Kinds DEF LookupRun
    <3>2. CASE StopRun(d)
      BY <2>2, <3>2, Kinds DEF StopRun
    <3> QED
      BY <2>6, <3>1, <3>2 DEF CancelStep
  <2>7. PICK d \in Cancels : CancelStep(d)
    BY <2>1, <2>3, <2>4, <2>5, Kinds
    DEF Next, Dispatch, DispatchOther, EndOfInput, TakeSlot, Terminated, vars
  <2>8. registered[Target[c]] = NoRun
    BY <2>6, <2>7
  <2> QED
    BY <2>8, Kinds DEF Registry
<1> QED
  BY <1>1, DispatchInvariance, PTL DEF Spec, FailedCancelMeansOver

-----------------------------------------------------------------------------
(***************************************************************************)
(* Theorems about WorkerBridge, for any number of calls and of worker      *)
(* starts.  A response channel leaves the pending map before its caller    *)
(* can return: by the message that answers it (Answered), by the drain     *)
(* that empties the map, or by the caller's own clean-up after a timeout.  *)
(***************************************************************************)

\* A channel with a message in it is in no map.
Answered == \A c \in Calls : chan[c] # "empty" => \A w \in Workers : c \notin pending[w]

\* A call that was not entered yet has an empty channel.
Unentered == \A c \in Calls : phase[c] \in {"idle", "locking"} => chan[c] = "empty"

BridgeInv == BridgeTypeOK /\ OneProcess /\ NoLeftoverChannel /\ Answered /\ Unentered

-----------------------------------------------------------------------------
\* The invariant holds initially.
LEMMA BridgeInitInv == BridgeInit => BridgeInv
  BY BridgeAssumption
  DEF BridgeInit, BridgeInv, BridgeTypeOK, OneProcess, NoLeftoverChannel, Answered, Unentered, Workers, NoWorker

\* WORKER_STATE is empty or holds a worker that was started.
LEMMA CurrentType == BridgeTypeOK => current \in Workers \/ current = NoWorker
  BY BridgeAssumption DEF BridgeTypeOK, Workers, NoWorker

\* stop_worker leaves no worker, no process and no channel; every channel that
\* was in a map has its transport error.
LEMMA StopFacts ==
    ASSUME BridgeInv, StopWorker
    PROVE  /\ current' = NoWorker
           /\ \A w \in Workers : process'[w] # "alive" /\ pending'[w] = {}
           /\ \A c \in Calls : chan'[c] = IF \E w \in Workers : c \in pending[w]
                                          THEN "transport" ELSE chan[c]
           /\ process' \in [Workers -> {"none", "alive", "dead"}]
           /\ reader' \in [Workers -> {"none", "reading", "drained", "finished"}]
           /\ requests' \in [Workers -> SUBSET Calls]
           /\ output' \in [Workers -> SUBSET Calls]
           /\ pending' \in [Workers -> SUBSET Calls]
           /\ chan' \in [Calls -> {"empty", "answer", "transport"}]
<1> USE DEF BridgeInv
<1>1. CASE current = NoWorker
  <2>1. \A w \in Workers : w # current /\ pending[w] = {} /\ process[w] # "alive"
    BY <1>1 DEF NoLeftoverChannel, OneProcess, Workers, NoWorker, BridgeTypeOK
  <2>2. UNCHANGED <<current, process, reader, requests, output, pending, chan>>
    BY <1>1 DEF StopWorker
  <2>3. \A w \in Workers : process'[w] # "alive" /\ pending'[w] = {}
    BY <2>1, <2>2
  <2>4. \A c \in Calls : chan'[c] = IF \E w \in Workers : c \in pending[w]
                                    THEN "transport" ELSE chan[c]
    BY <2>1, <2>2
  <2> QED
    BY <1>1, <2>2, <2>3, <2>4 DEF BridgeTypeOK
<1>2. CASE current # NoWorker
  <2>1. current \in Workers
    BY <1>2, CurrentType
  <2>2. /\ chan' = [c \in Calls |-> IF c \in pending[current] THEN "transport" ELSE chan[c]]
        /\ pending' = [pending EXCEPT ![current] = {}]
        /\ process' = [process EXCEPT ![current] = "dead"]
        /\ reader' = [reader EXCEPT ![current] = "finished"]
        /\ requests' = [requests EXCEPT ![current] = {}]
        /\ output' = [output EXCEPT ![current] = {}]
        /\ current' = NoWorker
    BY <1>2 DEF StopWorker, Drain
  <2>3. \A w \in Workers : w # current => pending[w] = {} /\ process[w] # "alive"
    BY DEF NoLeftoverChannel, OneProcess, BridgeTypeOK
  <2>4. \A w \in Workers : process'[w] # "alive" /\ pending'[w] = {}
    BY <2>1, <2>2, <2>3 DEF BridgeTypeOK
  <2>5. \A c \in Calls : chan'[c] = IF \E w \in Workers : c \in pending[w]
                                    THEN "transport" ELSE chan[c]
    BY <2>1, <2>2, <2>3
  <2>6. /\ process' \in [Workers -> {"none", "alive", "dead"}]
        /\ reader' \in [Workers -> {"none", "reading", "drained", "finished"}]
        /\ requests' \in [Workers -> SUBSET Calls]
        /\ output' \in [Workers -> SUBSET Calls]
        /\ pending' \in [Workers -> SUBSET Calls]
    BY <2>2 DEF BridgeTypeOK
  <2>7. chan' \in [Calls -> {"empty", "answer", "transport"}]
    BY <2>2 DEF BridgeTypeOK
  <2> QED
    BY <2>2, <2>4, <2>5, <2>6, <2>7
<1> QED
  BY <1>1, <1>2

\* Every step keeps the invariant.  First the steps that may change workers.
LEMMA StopAfterFailureInv == ASSUME BridgeInv, NEW c \in Calls, StopAfterFailure(c) PROVE BridgeInv'
<1> USE DEF BridgeInv
<1>1. StopWorker /\ phase' = [phase EXCEPT ![c] = "done"]
      /\ UNCHANGED <<lock, started, at, late>>
  BY DEF StopAfterFailure, Proceed
<1>2. BridgeTypeOK'
  BY <1>1, StopFacts DEF BridgeTypeOK, NoWorker
<1>3. OneProcess' /\ NoLeftoverChannel' /\ Answered'
  BY <1>1, StopFacts DEF OneProcess, NoLeftoverChannel, Answered
<1>4. Unentered'
  BY <1>1, StopFacts DEF Unentered, NoLeftoverChannel, BridgeTypeOK
<1> QED
  BY <1>2, <1>3, <1>4

LEMMA WriteFailsInv == ASSUME BridgeInv, NEW c \in Calls, WriteFails(c) PROVE BridgeInv'
<1> USE DEF BridgeInv
<1>1. StopWorker /\ phase' = [phase EXCEPT ![c] = "done"] /\ lock' = Nobody
      /\ UNCHANGED <<started, at, late>>
  BY DEF WriteFails, Proceed
<1>2. BridgeTypeOK'
  BY <1>1, StopFacts DEF BridgeTypeOK, NoWorker
<1>3. OneProcess' /\ NoLeftoverChannel' /\ Answered'
  BY <1>1, StopFacts DEF OneProcess, NoLeftoverChannel, Answered
<1>4. Unentered'
  BY <1>1, StopFacts DEF Unentered, NoLeftoverChannel, BridgeTypeOK
<1> QED
  BY <1>2, <1>3, <1>4

LEMMA SpawnFailsInv == ASSUME BridgeInv, NEW c \in Calls, SpawnFails(c) PROVE BridgeInv'
<1> USE DEF BridgeInv
<1>1. /\ phase' = [phase EXCEPT ![c] = "done"]
      /\ UNCHANGED <<lock, started, at, late>>
      /\ \/ StopWorker
         \/ UNCHANGED <<current, process, reader, requests, output, pending, chan>>
      /\ phase[c] = "locking"
  BY DEF SpawnFails, NotStarted, Proceed
<1>2. CASE StopWorker
  <2>1. BridgeTypeOK'
    BY <1>1, <1>2, StopFacts DEF BridgeTypeOK, NoWorker
  <2>2. OneProcess' /\ NoLeftoverChannel' /\ Answered'
    BY <1>1, <1>2, StopFacts DEF OneProcess, NoLeftoverChannel, Answered
  <2>3. Unentered'
    BY <1>1, <1>2, StopFacts DEF Unentered, NoLeftoverChannel, BridgeTypeOK
  <2> QED
    BY <2>1, <2>2, <2>3
<1>3. CASE UNCHANGED <<current, process, reader, requests, output, pending, chan>>
  <2>1. BridgeTypeOK'
    BY <1>1, <1>3 DEF BridgeTypeOK
  <2>2. OneProcess' /\ Answered'
    BY <1>1, <1>3 DEF OneProcess, Answered
  <2>3. NoLeftoverChannel' /\ Unentered'
    BY <1>1, <1>3 DEF NoLeftoverChannel, Unentered, BridgeTypeOK
  <2> QED
    BY <2>1, <2>2, <2>3
<1> QED
  BY <1>1, <1>2, <1>3

LEMMA RegisterInv == ASSUME BridgeInv, NEW c \in Calls, Register(c) PROVE BridgeInv'
<1> USE DEF BridgeInv
<1>1. /\ phase[c] = "locking" /\ phase' = [phase EXCEPT ![c] = "writing"]
      /\ lock' = c /\ Registered(c) /\ UNCHANGED output
      /\ late' \in SUBSET Calls
  BY DEF Register, Proceed, BridgeTypeOK
<1>2. chan[c] = "empty" /\ \A w \in Workers : c \notin pending[w]
  BY <1>1 DEF Unentered, NoLeftoverChannel
<1>3. at' = [at EXCEPT ![c] = current']
  BY <1>1 DEF Registered
<1>4. CASE Fresh
  <2>1. PICK new \in Workers :
          /\ started < MaxWorkers /\ new = started + 1
          /\ started' = new /\ current' = new
          /\ process' = Processes(new)
          /\ reader' = [reader EXCEPT ![new] = "reading"]
          /\ requests' = [w \in Workers |-> IF w = current THEN {} ELSE requests[w]]
    BY <1>1, <1>4, BridgeAssumption DEF Registered, BridgeTypeOK, Workers
  <2>2. new # current /\ pending[new] = {}
    BY <2>1, BridgeAssumption DEF BridgeTypeOK, NoLeftoverChannel, Workers
  <2>3. /\ chan' = Channels
        /\ pending' = [w \in Workers |-> IF w = new THEN pending[w] \cup {c}
                                         ELSE IF w = current THEN {} ELSE pending[w]]
    BY <1>1, <2>1 DEF Registered
  <2>4. \A w \in Workers : pending'[w] = IF w = new THEN {c} ELSE {}
    BY <2>2, <2>3 DEF NoLeftoverChannel, BridgeTypeOK
  <2>5. \A w \in Workers : process'[w] = "alive" <=> w = new
    BY <2>1, <2>2 DEF Processes, OneProcess
  <2>6. /\ process' \in [Workers -> {"none", "alive", "dead"}]
        /\ reader' \in [Workers -> {"none", "reading", "drained", "finished"}]
        /\ requests' \in [Workers -> SUBSET Calls]
        /\ pending' \in [Workers -> SUBSET Calls]
        /\ chan' \in [Calls -> {"empty", "answer", "transport"}]
    BY <2>1, <2>3 DEF Processes, Channels, BridgeTypeOK
  <2>7. /\ started' \in 0..MaxWorkers /\ current' \in 0..started'
        /\ at' \in [Calls -> Workers \cup {NoWorker}]
        /\ lock' \in Calls \cup {Nobody}
        /\ phase' \in [Calls -> {"idle", "locking", "writing", "waiting", "expired", "failed", "done"}]
    BY <1>1, <1>3, <2>1, BridgeAssumption DEF BridgeTypeOK, Workers
  <2>8. BridgeTypeOK'
    BY <1>1, <2>6, <2>7 DEF BridgeTypeOK
  <2>9. OneProcess'
    BY <2>1, <2>5 DEF OneProcess
  <2>10. NoLeftoverChannel'
    BY <1>1, <1>3, <2>1, <2>4 DEF NoLeftoverChannel, BridgeTypeOK
  <2>11. \A d \in Calls : phase[d] = "locking" \/ phase[d] = "idle" => chan'[d] = chan[d]
    BY <2>3, CurrentType DEF Channels, NoLeftoverChannel, Useless
  <2>12. Answered'
    BY <1>1, <1>2, <2>4, <2>11 DEF Answered
  <2>13. Unentered'
    BY <1>1, <2>11 DEF Unentered, BridgeTypeOK
  <2> QED
    BY <2>8, <2>9, <2>10, <2>12, <2>13
<1>5. CASE ~Fresh
  <2>1. /\ UNCHANGED <<started, current, process, reader, requests>>
        /\ chan' = chan
        /\ pending' = [w \in Workers |-> IF w = current THEN pending[w] \cup {c} ELSE pending[w]]
        /\ current \in Workers
    <3>1. /\ UNCHANGED <<started, current, process, reader, requests>>
          /\ chan' = Channels
          /\ pending' = [w \in Workers |-> IF w = current THEN pending[w] \cup {c}
                                           ELSE IF w = current THEN {} ELSE pending[w]]
      BY <1>1, <1>5 DEF Registered
    <3>2. ~Useless(current) /\ current \in Workers
      BY <1>5, CurrentType DEF Fresh
    <3>3. Channels = chan
      BY <3>2 DEF Channels, BridgeTypeOK
    <3> QED
      BY <3>1, <3>2, <3>3
  <2>2. BridgeTypeOK'
    BY <1>1, <1>3, <2>1 DEF BridgeTypeOK
  <2>3. OneProcess'
    BY <2>1 DEF OneProcess
  <2>4. NoLeftoverChannel'
    BY <1>1, <1>2, <1>3, <2>1 DEF NoLeftoverChannel, BridgeTypeOK
  <2>5. Answered' /\ Unentered'
    BY <1>1, <1>2, <2>1 DEF Answered, Unentered, BridgeTypeOK
  <2> QED
    BY <2>2, <2>3, <2>4, <2>5
<1> QED
  BY <1>4, <1>5

\* The other steps of a call.
LEMMA CallInv ==
    ASSUME BridgeInv, NEW c \in Calls, Call(c) \/ WriteRequest(c) \/ Take(c) \/ Expire(c) PROVE BridgeInv'
<1> USE DEF BridgeInv
<1>1. CASE Call(c)
  <2>1. BridgeTypeOK'
    BY <1>1 DEF Call, Proceed, BridgeTypeOK, workerVars, pipeVars
  <2>2. OneProcess' /\ Answered'
    BY <1>1 DEF Call, OneProcess, Answered, workerVars, pipeVars
  <2>3. NoLeftoverChannel' /\ Unentered'
    BY <1>1 DEF Call, Proceed, NoLeftoverChannel, Unentered, BridgeTypeOK, workerVars, pipeVars
  <2> QED
    BY <2>1, <2>2, <2>3
<1>2. CASE WriteRequest(c)
  <2>1. BridgeTypeOK'
    BY <1>2 DEF WriteRequest, Proceed, BridgeTypeOK, workerVars
  <2>2. OneProcess' /\ Answered'
    BY <1>2 DEF WriteRequest, OneProcess, Answered, workerVars
  <2>3. NoLeftoverChannel' /\ Unentered'
    BY <1>2 DEF WriteRequest, Proceed, NoLeftoverChannel, Unentered, BridgeTypeOK, workerVars
  <2> QED
    BY <2>1, <2>2, <2>3
<1>3. CASE Take(c)
  <2>1. BridgeTypeOK'
    BY <1>3 DEF Take, Proceed, BridgeTypeOK, workerVars, pipeVars
  <2>2. OneProcess' /\ Answered'
    BY <1>3 DEF Take, OneProcess, Answered, workerVars, pipeVars
  <2>3. NoLeftoverChannel' /\ Unentered'
    BY <1>3 DEF Take, Proceed, NoLeftoverChannel, Unentered, Answered, BridgeTypeOK, workerVars, pipeVars
  <2> QED
    BY <2>1, <2>2, <2>3
<1>4. CASE Expire(c)
  <2>1. BridgeTypeOK'
    BY <1>4 DEF Expire, Proceed, BridgeTypeOK, workerVars, pipeVars
  <2>2. OneProcess' /\ Answered'
    BY <1>4 DEF Expire, OneProcess, Answered, workerVars, pipeVars
  <2>3. NoLeftoverChannel' /\ Unentered'
    BY <1>4 DEF Expire, Proceed, NoLeftoverChannel, Unentered, BridgeTypeOK, workerVars, pipeVars
  <2> QED
    BY <2>1, <2>2, <2>3
<1> QED
  BY <1>1, <1>2, <1>3, <1>4

\* The clean-up after a timeout removes the channel wherever it is.
LEMMA CleanUpInv == ASSUME BridgeInv, NEW c \in Calls, CleanUp(c) PROVE BridgeInv'
<1> USE DEF BridgeInv
<1>1. /\ phase[c] = "expired" /\ phase' = [phase EXCEPT ![c] = "done"]
      /\ pending' = [w \in Workers |-> IF w = current THEN pending[w] \ {c} ELSE pending[w]]
      /\ UNCHANGED <<lock, workerVars, pipeVars, at, chan, late>>
  BY DEF CleanUp, Proceed
<1>2. BridgeTypeOK'
  BY <1>1 DEF BridgeTypeOK, workerVars, pipeVars
<1>3. OneProcess' /\ Answered'
  BY <1>1 DEF OneProcess, Answered, workerVars
<1>4. NoLeftoverChannel' /\ Unentered'
  BY <1>1 DEF NoLeftoverChannel, Unentered, BridgeTypeOK, workerVars
<1> QED
  BY <1>2, <1>3, <1>4

\* The steps of a worker process and of its reader task.
LEMMA WorkerInv ==
    ASSUME BridgeInv, NEW w \in Workers, WorkerAnswers(w) \/ Crash(w) \/ ReaderFinishes(w) PROVE BridgeInv'
<1> USE DEF BridgeInv
<1>1. CASE WorkerAnswers(w)
  <2>1. BridgeTypeOK'
    BY <1>1 DEF WorkerAnswers, BridgeTypeOK, workerVars
  <2> QED
    BY <1>1, <2>1
    DEF WorkerAnswers, OneProcess, NoLeftoverChannel, Answered, Unentered, workerVars
<1>2. CASE Crash(w)
  <2>1. BridgeTypeOK'
    BY <1>2 DEF Crash, BridgeTypeOK
  <2> QED
    BY <1>2, <2>1 DEF Crash, OneProcess, NoLeftoverChannel, Answered, Unentered, BridgeTypeOK
<1>3. CASE ReaderFinishes(w)
  <2>1. BridgeTypeOK'
    BY <1>3 DEF ReaderFinishes, BridgeTypeOK
  <2> QED
    BY <1>3, <2>1 DEF ReaderFinishes, OneProcess, NoLeftoverChannel, Answered, Unentered
<1> QED
  BY <1>1, <1>2, <1>3

LEMMA DeliverInv == ASSUME BridgeInv, NEW w \in Workers, Deliver(w) PROVE BridgeInv'
<1> USE DEF BridgeInv
<1>1. PICK c \in Calls, r \in {"answer", "transport"} :
        /\ output' = [output EXCEPT ![w] = @ \ {c}]
        /\ pending' = [pending EXCEPT ![w] = @ \ {c}]
        /\ IF c \in pending[w] THEN chan' = [chan EXCEPT ![c] = r] ELSE chan' = chan
        /\ UNCHANGED <<lock, workerVars, requests, phase, at, late>>
  BY DEF Deliver, BridgeTypeOK
<1>2. BridgeTypeOK'
  BY <1>1 DEF BridgeTypeOK, workerVars
<1>3. OneProcess' /\ NoLeftoverChannel'
  BY <1>1 DEF OneProcess, NoLeftoverChannel, BridgeTypeOK, workerVars
<1>4. Answered'
  BY <1>1 DEF Answered, NoLeftoverChannel, BridgeTypeOK
<1>5. Unentered'
  BY <1>1 DEF Unentered, NoLeftoverChannel, BridgeTypeOK
<1> QED
  BY <1>2, <1>3, <1>4, <1>5

LEMMA ReaderStopsInv == ASSUME BridgeInv, NEW w \in Workers, ReaderStops(w) PROVE BridgeInv'
<1> USE DEF BridgeInv
<1>1. /\ reader' = [reader EXCEPT ![w] = "drained"]
      /\ chan' = [c \in Calls |-> IF c \in pending[w] THEN "transport" ELSE chan[c]]
      /\ pending' = [pending EXCEPT ![w] = {}]
      /\ UNCHANGED <<lock, current, started, process, pipeVars, phase, at, late>>
  BY DEF ReaderStops, Drain
<1>2. BridgeTypeOK'
  BY <1>1 DEF BridgeTypeOK, pipeVars
<1>3. OneProcess' /\ NoLeftoverChannel'
  BY <1>1 DEF OneProcess, NoLeftoverChannel, BridgeTypeOK
<1>4. Answered'
  BY <1>1 DEF Answered, NoLeftoverChannel, BridgeTypeOK
<1>5. Unentered'
  BY <1>1 DEF Unentered, NoLeftoverChannel, BridgeTypeOK
<1> QED
  BY <1>2, <1>3, <1>4, <1>5

LEMMA BridgeNextInv == BridgeInv /\ [BridgeNext]_bridgeVars => BridgeInv'
<1> SUFFICES ASSUME BridgeInv, [BridgeNext]_bridgeVars PROVE BridgeInv'
  OBVIOUS
<1>1. ASSUME NEW c \in Calls,
             Call(c) \/ Start(c) \/ WriteRequest(c) \/ WriteFails(c) \/ Expire(c) \/ Respond(c)
      PROVE  BridgeInv'
  BY <1>1, CallInv, RegisterInv, SpawnFailsInv, WriteFailsInv, CleanUpInv, StopAfterFailureInv
  DEF Start, Respond
<1>2. ASSUME NEW w \in Workers,
             WorkerAnswers(w) \/ Crash(w) \/ Deliver(w) \/ ReaderStops(w) \/ ReaderFinishes(w)
      PROVE  BridgeInv'
  BY <1>2, WorkerInv, DeliverInv, ReaderStopsInv
<1>3. CASE UNCHANGED bridgeVars
  BY <1>3 DEF bridgeVars, BridgeInv, BridgeTypeOK, OneProcess, NoLeftoverChannel, Answered, Unentered
<1> QED
  BY <1>1, <1>2, <1>3 DEF BridgeNext, NothingLeft

\* The inductive invariant is an invariant.
THEOREM BridgeInvariance == BridgeSpec => []BridgeInv
<1>1. BridgeInit => BridgeInv
  BY BridgeInitInv
<1>2. BridgeInv /\ [BridgeNext]_bridgeVars => BridgeInv'
  BY BridgeNextInv
<1> QED
  BY <1>1, <1>2, PTL DEF BridgeSpec

-----------------------------------------------------------------------------
\* Every variable of the bridge keeps its type; WORKER_STATE never names a worker
\* that was not started.
THEOREM BridgeTypeCorrect == BridgeSpec => []BridgeTypeOK
<1>1. BridgeInv => BridgeTypeOK
  BY DEF BridgeInv
<1> QED
  BY <1>1, BridgeInvariance, PTL

\* There is never a second worker process beside the current one, whatever
\* crashes, timeouts and stops come together (worker.rs: ensure_worker_running
\* and stop_worker under the mutex, kill_on_drop).
THEOREM SingleProcess == BridgeSpec => []OneProcess
<1>1. BridgeInv => OneProcess
  BY DEF BridgeInv
<1> QED
  BY <1>1, BridgeInvariance, PTL

\* No response channel outlives its call, and a worker that was given up keeps
\* none (worker.rs: the removals of call_worker and drain_pending).
THEOREM NothingLeftOver == BridgeSpec => []NoLeftoverChannel
<1>1. BridgeInv => NoLeftoverChannel
  BY DEF BridgeInv
<1> QED
  BY <1>1, BridgeInvariance, PTL

=============================================================================
