----------------------------- MODULE SourceGate -----------------------------
(***************************************************************************)
(* singleMessageSources of the Go worker                                   *)
(* (src-tauri/worker-go/single_message_sources.go): single-message scans   *)
(* of one broker source take turns.  A map, guarded by a mutex, holds one  *)
(* entry per source in use: a reference count and a gate, a channel of     *)
(* capacity one.  An entry is created by the first caller that needs it    *)
(* and deleted by the last one that is done with it, so the same source    *)
(* has many entries in the course of time.                                 *)
(***************************************************************************)
EXTENDS FiniteSets, Integers

CONSTANTS
    Procs,    \* handler goroutines (handleSingleMessageAction)
    Keys,     \* broker sources (singleMessageSourceKey)
    Entries,  \* addresses of sourceOperation values
    NoEntry   \* the nil pointer

ASSUME GateAssumption ==
    /\ IsFiniteSet(Procs)
    /\ NoEntry \notin Entries

VARIABLES
    sources,    \* sources[k]: the entry the map holds for k
    users,      \* users[e]: the entry's reference count
    gate,       \* gate[e]: the gate's channel holds a token
    pc,         \* where each goroutine is in acquire or in its release function
    key, ref,   \* the source and the entry the goroutine captured
    cancelled   \* its request context is cancelled

gateVars == <<sources, users, gate, pc, key, ref, cancelled>>

\* idle: not in acquire; waiting: at the select; entered: its token is in the
\* gate; held: acquire returned the release function; leaving: forget is next.
PCs == {"idle", "waiting", "entered", "held", "leaving"}

GateTypeOK ==
    /\ sources \in [Keys -> Entries \cup {NoEntry}]
    /\ users \in [Entries -> Nat]
    /\ gate \in [Entries -> BOOLEAN]
    /\ pc \in [Procs -> PCs]
    /\ key \in [Procs -> Keys]
    /\ ref \in [Procs -> Entries \cup {NoEntry}]
    /\ cancelled \in [Procs -> BOOLEAN]

GateInit ==
    /\ sources = [k \in Keys |-> NoEntry]
    /\ users = [e \in Entries |-> 0]
    /\ gate = [e \in Entries |-> FALSE]
    /\ pc = [p \in Procs |-> "idle"]
    /\ key \in [Procs -> Keys]
    /\ ref = [p \in Procs |-> NoEntry]
    /\ cancelled = [p \in Procs |-> FALSE]

-----------------------------------------------------------------------------
\* An address nothing points to any more, which an allocation may return.
Unreferenced(e) ==
    /\ \A k \in Keys : sources[k] # e
    /\ \A p \in Procs : ref[p] # e

\* acquire, first critical section: find or create the entry, take a reference.
Lookup(p, k) ==
    /\ pc[p] = "idle"
    /\ \E e \in Entries :
         /\ IF sources[k] # NoEntry
            THEN /\ e = sources[k]
                 /\ users' = [users EXCEPT ![e] = @ + 1]
                 /\ UNCHANGED <<sources, gate>>
            ELSE /\ Unreferenced(e)
                 /\ sources' = [sources EXCEPT ![k] = e]
                 /\ users' = [users EXCEPT ![e] = 1]
                 /\ gate' = [gate EXCEPT ![e] = FALSE]
         /\ ref' = [ref EXCEPT ![p] = e]
    /\ key' = [key EXCEPT ![p] = k]
    /\ pc' = [pc EXCEPT ![p] = "waiting"]
    /\ cancelled' = [cancelled EXCEPT ![p] = FALSE]

\* The select's first case: the gate takes the token.  select may choose it
\* although the context is done too.
Enter(p) ==
    /\ pc[p] = "waiting" /\ ~gate[ref[p]]
    /\ gate' = [gate EXCEPT ![ref[p]] = TRUE]
    /\ pc' = [pc EXCEPT ![p] = "entered"]
    /\ UNCHANGED <<sources, users, key, ref, cancelled>>

\* The select's second case: the context is done.
GiveUp(p) ==
    /\ pc[p] = "waiting" /\ cancelled[p]
    /\ pc' = [pc EXCEPT ![p] = "leaving"]
    /\ UNCHANGED <<sources, users, gate, key, ref, cancelled>>

\* Mutant: a caller cancelled at the gate leaves its token behind.
CheckContextKeepsToken(p) ==
    /\ pc[p] = "entered"
    /\ pc' = [pc EXCEPT ![p] = IF cancelled[p] THEN "leaving" ELSE "held"]
    /\ UNCHANGED <<sources, users, gate, key, ref, cancelled>>

\* ctx.Err() after the gate was entered: a cancelled caller takes its token back.
CheckContext(p) ==
    /\ pc[p] = "entered"
    /\ IF cancelled[p]
       THEN /\ gate' = [gate EXCEPT ![ref[p]] = FALSE]
            /\ pc' = [pc EXCEPT ![p] = "leaving"]
       ELSE /\ pc' = [pc EXCEPT ![p] = "held"]
            /\ UNCHANGED gate
    /\ UNCHANGED <<sources, users, key, ref, cancelled>>

\* The deferred release, after the scan closed its receiver: the token first.
Release(p) ==
    /\ pc[p] = "held"
    /\ gate' = [gate EXCEPT ![ref[p]] = FALSE]
    /\ pc' = [pc EXCEPT ![p] = "leaving"]
    /\ UNCHANGED <<sources, users, key, ref, cancelled>>

\* Mutant: every user deletes the map's entry.
ForgetAlways(p) ==
    /\ pc[p] = "leaving"
    /\ users' = [users EXCEPT ![ref[p]] = @ - 1]
    /\ sources' = [sources EXCEPT ![key[p]] = NoEntry]
    /\ ref' = [ref EXCEPT ![p] = NoEntry]
    /\ pc' = [pc EXCEPT ![p] = "idle"]
    /\ UNCHANGED <<gate, key, cancelled>>

\* forget, second critical section: the last user deletes the map's entry.
Forget(p) ==
    /\ pc[p] = "leaving"
    /\ users' = [users EXCEPT ![ref[p]] = @ - 1]
    /\ sources' = IF users[ref[p]] = 1 THEN [sources EXCEPT ![key[p]] = NoEntry] ELSE sources
    /\ ref' = [ref EXCEPT ![p] = NoEntry]
    /\ pc' = [pc EXCEPT ![p] = "idle"]
    /\ UNCHANGED <<gate, key, cancelled>>

\* Stop cancels the run's request context, at any time.
Cancel(p) ==
    /\ pc[p] # "idle" /\ ~cancelled[p]
    /\ cancelled' = [cancelled EXCEPT ![p] = TRUE]
    /\ UNCHANGED <<sources, users, gate, pc, key, ref>>

Step(p) == (\E k \in Keys : Lookup(p, k)) \/ Enter(p) \/ GiveUp(p) \/ CheckContext(p)
           \/ Release(p) \/ Forget(p) \/ Cancel(p)

GateNext == \E p \in Procs : Step(p)

GateSpec == GateInit /\ [][GateNext]_gateVars

\* Goroutines in acquire keep running.  A channel serves its blocked senders
\* first come, first served: one for which the gate opens again and again is
\* not overtaken for ever.  Nothing is assumed of the scan itself.
AcquireFairness ==
    \A p \in Procs : /\ SF_gateVars(Enter(p))
                     /\ WF_gateVars(GiveUp(p) \/ CheckContext(p) \/ Forget(p))

AcquireSpec == GateSpec /\ AcquireFairness

\* Every scan ends: its broker calls have timeouts and its budget is finite.
ScansEnd == \A p \in Procs : WF_gateVars(Release(p))

-----------------------------------------------------------------------------
(* Properties.                                                             *)

Scanning(p) == pc[p] = "held"

\* Two scans of one broker source never overlap, although the entry that
\* serialises them is deleted and created anew between callers ("A second scan
\* of the same source must wait until those locks and receivers have been
\* released", handlers_single.go:717).
MutualExclusion ==
    \A p, q \in Procs : p # q /\ Scanning(p) /\ Scanning(q) => key[p] # key[q]

\* The map holds an entry exactly while somebody uses it: none is left behind
\* for a source nobody scans, and none is deleted under a waiting caller.
EntryIffUsed ==
    \A k \in Keys :
        sources[k] # NoEntry <=> \E p \in Procs : pc[p] # "idle" /\ key[p] = k

\* Callers of one source share one gate, callers of two sources never do.
OneGatePerSource ==
    \A p, q \in Procs : pc[p] # "idle" /\ pc[q] # "idle" =>
        (key[p] = key[q] <=> ref[p] = ref[q])

\* A closed gate always has an owner that will open it: no path out of acquire
\* leaves its token behind.
NoStrandedToken ==
    \A e \in Entries : gate[e] /\ (\E k \in Keys : sources[k] = e) =>
        \E p \in Procs : pc[p] \in {"entered", "held"} /\ ref[p] = e

\* A scan that waits gets its turn, or returns because it was stopped, provided
\* that the scans before it end.
EverybodyServed ==
    ScansEnd => \A p \in Procs : pc[p] = "waiting" ~> pc[p] \in {"held", "idle"}

\* Stop frees a waiting scan whatever the scan in progress does: also when
\* that one never ends.
StopFreesWaiter ==
    \A p \in Procs : pc[p] = "waiting" /\ cancelled[p] ~> pc[p] = "idle"

\* Nobody waits at the gate for ever without a scan in front that never ends,
\* and nobody at all who was stopped.
WaitersGetOn == EverybodyServed /\ StopFreesWaiter

=============================================================================
