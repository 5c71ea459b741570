----------------------------- MODULE PathLocks -----------------------------
(***************************************************************************)
(* The in-process path locks of src/core/locks.ts.                         *)
(*                                                                         *)
(* withPathLock chains one promise per path in the map pathLocks: a call   *)
(* awaits the promise it found there and stores a longer one.  A promise   *)
(* is represented by what it waits for, the set of the calls whose         *)
(* `current` must be released before it resolves:                          *)
(*   Promise.resolve()                   is {}                             *)
(*   previous.then(() => current)        is previous \cup {call}           *)
(* so an absent map entry and Promise.resolve() are both {}.               *)
(*                                                                         *)
(* withPathLocks sorts the distinct paths of a call and nests one          *)
(* withPathLock per path.  The comparator (localeCompare) is a numbering   *)
(* of the paths; it is injective because the paths of a transaction are    *)
(* generated from ASCII identifiers below one root.                        *)
(***************************************************************************)
EXTENDS Integers, FiniteSets

CONSTANTS Calls,  \* invocations of withPathLocks, each made at most once
          Paths,  \* the lock keys
          Rank,   \* the position of a path in the comparator's order
          Wants   \* Wants[c]: the paths the call c names, duplicates dropped

ASSUME RankAssumption ==
  /\ Rank \in [Paths -> Int]
  /\ \A p, q \in Paths : Rank[p] = Rank[q] => p = q

ASSUME WantsAssumption == Wants \in [Calls -> SUBSET Paths]

VARIABLES
  pathLocks, \* pathLocks[p]: the promise in the map, {} when there is none
  previous,  \* previous[c][p]: the promise c found when it asked for p
  released,  \* released[p]: the calls whose promise `current` on p resolved
  held,      \* held[c]: the paths whose critical section c is in
  wanted,    \* wanted[c]: the paths c has still to ask for
  pc         \* where the call is

vars == <<pathLocks, previous, released, held, wanted, pc>>

Stages == {"idle", "ask", "wait", "run", "release", "done"}

Init ==
  /\ pathLocks = [p \in Paths |-> {}]
  /\ previous = [c \in Calls |-> [p \in Paths |-> {}]]
  /\ released = [p \in Paths |-> {}]
  /\ held = [c \in Calls |-> {}]
  /\ wanted = Wants
  /\ pc = [c \in Calls |-> "idle"]

-----------------------------------------------------------------------------
(* acquire(index): `ordered[index]` is the least path not yet asked for.    *)

\* Defect: the paths are locked in the order the caller lists them.
IsNextUnsorted(c, p) == p \in wanted[c]

IsNext(c, p) ==
  p \in wanted[c] /\ \A q \in wanted[c] : Rank[p] <= Rank[q]

\* The path c awaits: asked for, no longer wanted, and not granted.
Awaits(c, p) ==
  /\ pc[c] = "wait"
  /\ p \in Wants[c] \ (wanted[c] \cup held[c])

\* The promise stored by c for p.
Queued(c, p) == previous[c][p] \cup {c}

Start(c) ==
  /\ pc[c] = "idle"
  /\ pc' = [pc EXCEPT ![c] = "ask"]
  /\ UNCHANGED <<pathLocks, previous, released, held, wanted>>

\* Defect: the recursion does not advance past the path it asked for.
AskWithoutAdvance(c, p) ==
  /\ pc[c] = "ask" /\ IsNext(c, p)
  /\ previous' = [previous EXCEPT ![c][p] = pathLocks[p]]
  /\ pathLocks' = [pathLocks EXCEPT ![p] = @ \cup {c}]
  /\ pc' = [pc EXCEPT ![c] = "run"]
  /\ held' = [held EXCEPT ![c] = @ \cup {p}]
  /\ UNCHANGED <<released, wanted>>

\* The synchronous part of withPathLock, up to `await previous`.
Ask(c, p) ==
  /\ pc[c] = "ask" /\ IsNext(c, p)
  /\ previous' = [previous EXCEPT ![c][p] = pathLocks[p]]
  /\ pathLocks' = [pathLocks EXCEPT ![p] = @ \cup {c}]
  /\ wanted' = [wanted EXCEPT ![c] = @ \ {p}]
  /\ pc' = [pc EXCEPT ![c] = "wait"]
  /\ UNCHANGED <<released, held>>

\* `await previous` resumes once every call that promise waits for released.
Grant(c, p) ==
  /\ Awaits(c, p)
  /\ previous[c][p] \subseteq released[p]
  /\ held' = [held EXCEPT ![c] = @ \cup {p}]
  /\ pc' = [pc EXCEPT ![c] = "ask"]
  /\ UNCHANGED <<pathLocks, previous, released, wanted>>

\* `current === undefined`: every path is held and the task starts.
RunTask(c) ==
  /\ pc[c] = "ask" /\ wanted[c] = {}
  /\ pc' = [pc EXCEPT ![c] = "run"]
  /\ UNCHANGED <<pathLocks, previous, released, held, wanted>>

\* The task returns or throws; the nested finally blocks begin.
TaskSettles(c) ==
  /\ pc[c] = "run"
  /\ pc' = [pc EXCEPT ![c] = "release"]
  /\ UNCHANGED <<pathLocks, previous, released, held, wanted>>

\* The step of a finally block, given the map it leaves.
ReleaseLeaving(c, p, map) ==
  /\ pc[c] = "release"
  /\ p \in held[c] /\ \A q \in held[c] : Rank[q] <= Rank[p]
  /\ released' = [released EXCEPT ![p] = @ \cup {c}]
  /\ pathLocks' = map
  /\ held' = [held EXCEPT ![c] = @ \ {p}]
  /\ UNCHANGED <<previous, wanted, pc>>

\* Defect: the map entry is deleted although a later call has queued on it.
ReleaseAlwaysDeletes(c, p) ==
  ReleaseLeaving(c, p, [pathLocks EXCEPT ![p] = {}])

\* Defect: the map entry is never deleted.
ReleaseNeverDeletes(c, p) == ReleaseLeaving(c, p, pathLocks)

\* One finally block: innermost first, the map entry goes only if it is ours.
Release(c, p) ==
  ReleaseLeaving(c, p,
    [pathLocks EXCEPT ![p] = IF @ = Queued(c, p) THEN {} ELSE @])

Return(c) ==
  /\ pc[c] = "release" /\ held[c] = {}
  /\ pc' = [pc EXCEPT ![c] = "done"]
  /\ UNCHANGED <<pathLocks, previous, released, held, wanted>>

Proceed(c) ==
  \/ RunTask(c) \/ TaskSettles(c) \/ Return(c)
  \/ \E p \in Paths : Ask(c, p) \/ Grant(c, p) \/ Release(c, p)

Next == \E c \in Calls : Start(c) \/ Proceed(c)

\* A started call keeps being scheduled: promise continuations always run and
\* the tasks of the repository settle.  Nothing obliges a call to be made.
Fairness == \A c \in Calls : WF_vars(Proceed(c))

Spec == Init /\ [][Next]_vars /\ Fairness

-----------------------------------------------------------------------------
\* Type invariant; a call holds only paths it named and has asked for.
TypeOK ==
  /\ pathLocks \in [Paths -> SUBSET Calls]
  /\ previous \in [Calls -> [Paths -> SUBSET Calls]]
  /\ released \in [Paths -> SUBSET Calls]
  /\ held \in [Calls -> SUBSET Paths]
  /\ wanted \in [Calls -> SUBSET Paths]
  /\ \A c \in Calls : held[c] \subseteq Wants[c] \ wanted[c]
  /\ pc \in [Calls -> Stages]

\* Mutual exclusion: two calls are never both inside the critical section of
\* one path (withPathLock, whatever calls come and go and whichever of them
\* deletes the map entry).
MutualExclusion ==
  \A c, d \in Calls : held[c] \cap held[d] # {} => c = d

\* A call waits for a path only while holding paths that sort before it, so a
\* chain of calls waiting for each other climbs the order and never closes:
\* withPathLocks' comment that sorting prevents a deadlock.
WaitsAscend ==
  \A c, d \in Calls, p, q \in Paths :
    (p \in held[d] /\ Awaits(c, p) /\ Awaits(d, q)) => Rank[p] < Rank[q]

\* The map never forgets a call that still needs its path (a forgotten one
\* would let a newcomer in beside it) and keeps no entry once nobody does.
MapTracksCalls ==
  \A p \in Paths :
    /\ \A c \in Calls : (p \in held[c] \/ Awaits(c, p)) => c \in pathLocks[p]
    /\ pathLocks[p] # {} => \E c \in Calls : p \in held[c] \/ Awaits(c, p)

\* Every call that is made returns, whatever the others name and however the
\* calls interleave: neither a deadlock nor an overtaken waiter.
EveryCallReturns == \A c \in Calls : pc[c] = "ask" ~> pc[c] = "done"
=============================================================================
