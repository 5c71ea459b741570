-------------------------- MODULE PathLocksProofs --------------------------
(* Mutual exclusion and the absence of circular waits of PathLocks, for any *)
(* calls, paths and order.                                                  *)
EXTENDS PathLocks, TLAPS

\* c has asked for p and not yet released it.
Active(c, p) == p \in held[c] \/ Awaits(c, p)

\* The promises: of two calls active on a path one waits for the other, the map
\* entry waits for all of them, and whoever is in has nobody left to wait for.
QueueInv ==
  /\ \A p \in Paths : \A c \in Calls : p \in wanted[c] =>
       c \notin pathLocks[p] /\ c \notin released[p]
  /\ \A p \in Paths : \A c \in Calls : Active(c, p) =>
       c \in pathLocks[p] /\ c \notin released[p] /\ c \notin previous[c][p]
  /\ \A p \in Paths : \A c, d \in Calls : Active(c, p) /\ Active(d, p) =>
       c = d \/ c \in previous[d][p] \/ d \in previous[c][p]
  /\ \A p \in Paths : \A c \in Calls : p \in held[c] => previous[c][p] \subseteq released[p]
  /\ \A p \in Paths : pathLocks[p] # {} =>
       \E c \in Calls : Active(c, p) /\ pathLocks[p] = Queued(c, p)

\* Where a call is in its sorted list of paths.
OrderInv ==
  \A c \in Calls :
    /\ wanted[c] \subseteq Wants[c]
    /\ pc[c] = "idle" => wanted[c] = Wants[c]
    /\ pc[c] # "wait" /\ pc[c] \notin {"release", "done"} =>
         Wants[c] \ wanted[c] = held[c]
    /\ pc[c] \in {"run", "release", "done"} => wanted[c] = {}
    /\ pc[c] = "done" => held[c] = {}
    /\ \A p, q \in Paths : Awaits(c, p) /\ Awaits(c, q) => p = q
    /\ \A p, q \in Paths : p \in held[c] /\ q \in wanted[c] => Rank[p] < Rank[q]
    /\ \A p, q \in Paths : p \in held[c] /\ Awaits(c, q) => Rank[p] < Rank[q]
    /\ \A p, q \in Paths : Awaits(c, p) /\ q \in wanted[c] => Rank[p] < Rank[q]

IInv == TypeOK /\ QueueInv /\ OrderInv

-----------------------------------------------------------------------------
\* The order is strict on distinct paths.
LEMMA StrictRank ==
  ASSUME NEW p \in Paths, NEW q \in Paths, Rank[p] <= Rank[q], p # q
  PROVE  Rank[p] < Rank[q]
<1>1. Rank[p] \in Int /\ Rank[q] \in Int /\ Rank[p] # Rank[q]
  BY RankAssumption
<1>. QED
  BY <1>1

\* The first state satisfies the invariant.
LEMMA InitInv == Init => IInv
BY RankAssumption, WantsAssumption
   DEF Init, IInv, TypeOK, QueueInv, OrderInv, Active, Awaits, Stages

\* Every step keeps the variables in their types.
LEMMA TypeOKStep == IInv /\ [Next]_vars => TypeOK'
<1> SUFFICES ASSUME IInv, [Next]_vars PROVE TypeOK'
  OBVIOUS
<1> USE RankAssumption, WantsAssumption
<1> USE DEF IInv, TypeOK, OrderInv, Stages
<1>1. ASSUME NEW c \in Calls, Start(c) \/ RunTask(c) \/ TaskSettles(c) \/ Return(c)
      PROVE  TypeOK'
  BY <1>1 DEF Start, RunTask, TaskSettles, Return
<1>2. ASSUME NEW c \in Calls, NEW p \in Paths, Ask(c, p) PROVE TypeOK'
  BY <1>2 DEF Ask, IsNext
<1>3. ASSUME NEW c \in Calls, NEW p \in Paths, Grant(c, p) PROVE TypeOK'
  BY <1>3 DEF Grant, Awaits
<1>4. ASSUME NEW c \in Calls, NEW p \in Paths, Release(c, p) PROVE TypeOK'
  BY <1>4 DEF Release, ReleaseLeaving, Queued
<1>5. CASE UNCHANGED vars
  BY <1>5 DEF vars
<1>. QED
  BY <1>1, <1>2, <1>3, <1>4, <1>5 DEF Next, Proceed

\* Every step keeps a call's paths in order.
LEMMA OrderStep == IInv /\ [Next]_vars => OrderInv'
<1> SUFFICES ASSUME IInv, [Next]_vars PROVE OrderInv'
  OBVIOUS
<1> USE RankAssumption, WantsAssumption
<1> USE DEF IInv, TypeOK, OrderInv, Stages, Awaits
<1>1. ASSUME NEW c \in Calls, Start(c) \/ RunTask(c) \/ TaskSettles(c) \/ Return(c)
      PROVE  OrderInv'
  BY <1>1 DEF Start, RunTask, TaskSettles, Return
<1>2. ASSUME NEW c \in Calls, NEW p \in Paths, Ask(c, p) PROVE OrderInv'
  <2>1. /\ pc[c] = "ask" /\ pc'[c] = "wait" /\ wanted'[c] = wanted[c] \ {p}
        /\ p \in wanted[c] /\ \A q \in wanted[c] : Rank[p] <= Rank[q]
    BY <1>2 DEF Ask, IsNext
  <2>2. /\ held' = held
        /\ \A d \in Calls : d # c => pc'[d] = pc[d] /\ wanted'[d] = wanted[d]
    BY <1>2 DEF Ask
  <2>3. \A q \in Paths : Awaits(c, q)' <=> q = p
    BY <2>1, <2>2
  <2>4. ASSUME NEW q \in Paths, q \in wanted[c], q # p PROVE Rank[p] < Rank[q]
    BY <2>1, <2>4, StrictRank
  <2>. QED
    BY <2>1, <2>2, <2>3, <2>4
<1>3. ASSUME NEW c \in Calls, NEW p \in Paths, Grant(c, p) PROVE OrderInv'
  BY <1>3 DEF Grant
<1>4. ASSUME NEW c \in Calls, NEW p \in Paths, Release(c, p) PROVE OrderInv'
  BY <1>4 DEF Release, ReleaseLeaving
<1>5. CASE UNCHANGED vars
  BY <1>5 DEF vars
<1>. QED
  BY <1>1, <1>2, <1>3, <1>4, <1>5 DEF Next, Proceed

\* Every step keeps the chain of promises of each path.
LEMMA QueueStep == IInv /\ [Next]_vars => QueueInv'
<1> SUFFICES ASSUME IInv, [Next]_vars PROVE QueueInv'
  OBVIOUS
<1> USE RankAssumption, WantsAssumption
<1>1. ASSUME NEW c \in Calls, Start(c) \/ RunTask(c) \/ TaskSettles(c) \/ Return(c)
      PROVE  QueueInv'
  <2>1. \A d \in Calls, q \in Paths : Active(d, q)' <=> Active(d, q)
    BY <1>1 DEF Start, RunTask, TaskSettles, Return, Active, Awaits, IInv, TypeOK
  <2>2. UNCHANGED <<pathLocks, previous, released, held, wanted>>
    BY <1>1 DEF Start, RunTask, TaskSettles, Return
  <2>. QED
    BY <2>1, <2>2 DEF IInv, QueueInv, Queued
<1>2. ASSUME NEW c \in Calls, NEW p \in Paths, Ask(c, p) PROVE QueueInv'
  <2>1. Active(c, p)' /\ ~Active(c, p) /\ p \notin held[c]
    BY <1>2 DEF Ask, IsNext, Active, Awaits, IInv, TypeOK, OrderInv
  <2>0. \A q \in Paths : (Awaits(c, q)' => q = p) /\ ~Awaits(c, q)
    BY <1>2 DEF Ask, IsNext, Awaits, IInv, TypeOK, OrderInv
  <2>2. \A d \in Calls, q \in Paths : ~(d = c /\ q = p) =>
          (Active(d, q)' <=> Active(d, q))
    BY <1>2, <2>0 DEF Ask, Active, Awaits, IInv, TypeOK
  <2>3. UNCHANGED <<released, held>>
    BY <1>2 DEF Ask
  <2>4. /\ previous'[c][p] = pathLocks[p]
        /\ \A d \in Calls, q \in Paths : ~(d = c /\ q = p) => previous'[d][q] = previous[d][q]
    BY <1>2 DEF Ask, IInv, TypeOK
  <2>5. /\ pathLocks'[p] = pathLocks[p] \cup {c}
        /\ \A q \in Paths : q # p => pathLocks'[q] = pathLocks[q]
    BY <1>2 DEF Ask, IInv, TypeOK
  <2>6. /\ c \notin released[p] /\ c \notin pathLocks[p]
        /\ \A d \in Calls, q \in Paths : q \in wanted'[d] =>
             q \in wanted[d] /\ ~(d = c /\ q = p)
    BY <1>2 DEF Ask, IsNext, IInv, TypeOK, QueueInv
  <2>7. \A q \in Paths : \A d \in Calls : q \in wanted'[d] =>
          d \notin pathLocks'[q] /\ d \notin released'[q]
    BY <2>3, <2>5, <2>6 DEF IInv, QueueInv
  <2>8. \A q \in Paths : \A d \in Calls : Active(d, q)' =>
          d \in pathLocks'[q] /\ d \notin released'[q] /\ d \notin previous'[d][q]
    BY <2>2, <2>3, <2>4, <2>5, <2>6 DEF IInv, QueueInv
  <2>9. ASSUME NEW q \in Paths, NEW d \in Calls, NEW e \in Calls,
               Active(d, q)', Active(e, q)'
        PROVE  d = e \/ d \in previous'[e][q] \/ e \in previous'[d][q]
    BY <2>2, <2>4, <2>9 DEF IInv, QueueInv
  <2>10. \A q \in Paths : \A d \in Calls : q \in held'[d] => previous'[d][q] \subseteq released'[q]
    BY <2>1, <2>3, <2>4 DEF IInv, QueueInv
  <2>11. ASSUME NEW q \in Paths, pathLocks'[q] # {}
         PROVE  \E d \in Calls : Active(d, q)' /\ pathLocks'[q] = Queued(d, q)'
    <3>1. CASE q = p
      BY <3>1, <2>1, <2>4, <2>5 DEF Queued
    <3>2. CASE q # p
      BY <3>2, <2>2, <2>4, <2>5, <2>11 DEF IInv, QueueInv, Queued
    <3>. QED
      BY <3>1, <3>2
  <2>. QED
    BY <2>7, <2>8, <2>9, <2>10, <2>11 DEF QueueInv
<1>3. ASSUME NEW c \in Calls, NEW p \in Paths, Grant(c, p) PROVE QueueInv'
  <2>1. \A d \in Calls, q \in Paths : Active(d, q)' <=> Active(d, q)
    BY <1>3 DEF Grant, Active, Awaits, IInv, TypeOK, OrderInv
  <2>2. UNCHANGED <<pathLocks, previous, released, wanted>>
    BY <1>3 DEF Grant
  <2>3. \A d \in Calls, q \in Paths : q \in held'[d] =>
          q \in held[d] \/ (d = c /\ q = p /\ previous[c][p] \subseteq released[p])
    BY <1>3 DEF Grant, IInv, TypeOK
  <2>. QED
    BY <2>1, <2>2, <2>3 DEF IInv, QueueInv, Queued
<1>4. ASSUME NEW c \in Calls, NEW p \in Paths, Release(c, p) PROVE QueueInv'
  <2>1. p \in held[c] /\ Active(c, p) /\ ~Active(c, p)'
    BY <1>4 DEF Release, ReleaseLeaving, Active, Awaits, IInv, TypeOK
  <2>2. \A d \in Calls, q \in Paths : ~(d = c /\ q = p) =>
          (Active(d, q)' <=> Active(d, q))
    BY <1>4 DEF Release, ReleaseLeaving, Active, Awaits, IInv, TypeOK
  <2>3. /\ previous' = previous
        /\ released'[p] = released[p] \cup {c}
        /\ \A q \in Paths : q # p => released'[q] = released[q]
        /\ \A d \in Calls, q \in Paths : q \in held'[d] => q \in held[d]
        /\ wanted' = wanted /\ p \notin wanted[c]
    BY <1>4 DEF Release, ReleaseLeaving, IInv, TypeOK
  <2>4. /\ pathLocks'[p] = IF pathLocks[p] = Queued(c, p) THEN {} ELSE pathLocks[p]
        /\ \A q \in Paths : q # p => pathLocks'[q] = pathLocks[q]
    BY <1>4 DEF Release, ReleaseLeaving, IInv, TypeOK
  <2>5. ASSUME pathLocks[p] = Queued(c, p), NEW d \in Calls, Active(d, p) PROVE d = c
    BY <2>1, <2>5 DEF IInv, QueueInv, Queued
  <2>. QED
    BY <2>1, <2>2, <2>3, <2>4, <2>5 DEF IInv, QueueInv, Queued
<1>5. CASE UNCHANGED vars
  BY <1>5 DEF vars, IInv, QueueInv, Active, Awaits, Queued
<1>. QED
  BY <1>1, <1>2, <1>3, <1>4, <1>5 DEF Next, Proceed

\* The inductive invariant of the lock chains, for any calls and paths.
THEOREM Invariance == Spec => []IInv
<1>1. IInv /\ [Next]_vars => IInv'
  BY TypeOKStep, OrderStep, QueueStep DEF IInv
<1>. QED
  BY InitInv, <1>1, PTL DEF Spec

\* Every variable keeps its type, and a call holds only what it asked for.
THEOREM TypeCorrect == Spec => []TypeOK
<1>1. IInv => TypeOK
  BY DEF IInv
<1>. QED
  BY Invariance, <1>1, PTL

\* withPathLock excludes: no two calls are inside the section of one path.
THEOREM Excludes == Spec => []MutualExclusion
<1>1. IInv => MutualExclusion
  <2> SUFFICES ASSUME IInv, NEW c \in Calls, NEW d \in Calls,
                      held[c] \cap held[d] # {}
               PROVE  c = d
    BY DEF MutualExclusion
  <2>1. PICK p \in Paths : p \in held[c] /\ p \in held[d]
    BY DEF IInv, TypeOK
  <2>2. Active(c, p) /\ Active(d, p)
    BY <2>1 DEF Active
  <2>. QED
    BY <2>1, <2>2 DEF IInv, QueueInv
<1>. QED
  BY Invariance, <1>1, PTL

\* Calls that wait for each other climb the order of the paths: no cycle of
\* waiting calls, so withPathLocks cannot deadlock.
THEOREM NoCircularWait == Spec => []WaitsAscend
<1>1. IInv => WaitsAscend
  BY DEF IInv, OrderInv, WaitsAscend
<1>. QED
  BY Invariance, <1>1, PTL

\* The map of promises keeps exactly the paths somebody still needs.
THEOREM MapIsExact == Spec => []MapTracksCalls
<1>1. IInv => MapTracksCalls
  BY DEF IInv, QueueInv, MapTracksCalls, Active
<1>. QED
  BY Invariance, <1>1, PTL
=============================================================================
