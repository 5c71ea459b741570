------------------------ MODULE ProcessRunnerProofs ------------------------
(* The safety of ProcessRunner, for any reactions of the leader and any     *)
(* helpers: a leader that is to end has its SIGKILL coming.                 *)
EXTENDS ProcessRunner, TLAPS

\* A leader whose end Node has seen is not alive, and there is none before the start:
\* this is why a call that may close has no leader left.
EndsInv ==
  /\ reaped => leader \in {"exited", "killed"}
  /\ phase = "called" => leader = "none" /\ ~cancelled /\ ~timedOut /\ timers = {}

IInv == TypeOK /\ EndsInv /\ LeaderIsDoomed

-----------------------------------------------------------------------------
\* kill() keeps the types, and for a leader that is alive it arms a timer.
LEMMA KillArms ==
  ASSUME TypeOK, NEW armed \in SUBSET {"deadline", "force1", "force2"}, Kill(armed),
         forceKill = "none" => armed \subseteq {"deadline"}
  PROVE  /\ termed' \subseteq {"leader", "helper"}
         /\ timers' \subseteq {"deadline", "force1", "force2"}
         /\ forceKill' \in {"none", "force1", "force2"}
         /\ forceKill' = "none" => timers' \subseteq {"deadline"}
         /\ leader = "alive" => timers' \cap {"force1", "force2"} # {}
BY DEF Kill, TypeOK, Alive

\* The first state satisfies the invariant.
LEMMA InitInv == Init => IInv
BY LeadersAssumption, HelpersAssumption DEF Init, IInv, TypeOK, EndsInv, LeaderIsDoomed

\* Every step keeps the invariant.
LEMMA StepInv == IInv /\ [Next]_vars => IInv'
<1> SUFFICES ASSUME IInv, [Next]_vars PROVE IInv'
  OBVIOUS
<1> USE DEF IInv, EndsInv, LeaderIsDoomed, environment
<1>1. CASE Start
  BY <1>1 DEF Start, TypeOK
<1>2. CASE Abort
  <2>1. CASE phase = "running"
    BY <1>2, <2>1, KillArms DEF Abort, TypeOK
  <2>2. CASE phase # "running"
    BY <1>2, <2>2 DEF Abort, TypeOK
  <2>. QED
    BY <2>1, <2>2
<1>3. CASE Deadline
  <2>. DEFINE armed == timers \ {"deadline"}
  <2>1. /\ Kill(armed) /\ armed \in SUBSET {"deadline", "force1", "force2"} /\ phase # "called"
        /\ forceKill = "none" => armed \subseteq {"deadline"}
    BY <1>3 DEF Deadline, TypeOK
  <2>. HIDE DEF armed
  <2>2. /\ termed' \subseteq {"leader", "helper"}
        /\ timers' \subseteq {"deadline", "force1", "force2"}
        /\ forceKill' \in {"none", "force1", "force2"}
        /\ forceKill' = "none" => timers' \subseteq {"deadline"}
        /\ leader = "alive" => timers' \cap {"force1", "force2"} # {}
    BY <2>1, KillArms
  <2>3. /\ timedOut' = TRUE
        /\ UNCHANGED <<environment, aborted, phase, leader, helper, reaped, cancelled>>
    BY <1>3 DEF Deadline
  <2>4. TypeOK'
    BY <2>2, <2>3 DEF TypeOK
  <2>5. EndsInv'
    BY <2>1, <2>3
  <2>6. LeaderIsDoomed'
    BY <2>2, <2>3
  <2>. QED
    BY <2>4, <2>5, <2>6
<1>4. ASSUME NEW t \in {"force1", "force2"}, ForceKill(t) PROVE IInv'
  BY <1>4 DEF ForceKill, TypeOK
<1>5. CASE SpawnError \/ Close
  <2>1. /\ phase' = "settled" /\ timers' \subseteq timers /\ leader # "alive"
        /\ UNCHANGED <<environment, aborted, leader, helper, reaped, termed, forceKill,
                       cancelled, timedOut>>
    BY <1>5 DEF SpawnError, Close, Cleared
  <2>2. TypeOK'
    BY <2>1 DEF TypeOK
  <2>3. EndsInv' /\ LeaderIsDoomed'
    BY <2>1
  <2>. QED
    BY <2>2, <2>3
<1>6. CASE Reap
  BY <1>6 DEF Reap, TypeOK
<1>7. CASE Finishes
  BY <1>7 DEF Finishes, TypeOK
<1>8. CASE LeaderGetsTerm \/ HelperGetsTerm
  BY <1>8 DEF LeaderGetsTerm, HelperGetsTerm, TypeOK
<1>9. CASE UNCHANGED vars
  BY <1>9 DEF vars, TypeOK
<1>. QED
  BY <1>1, <1>2, <1>3, <1>4, <1>5, <1>6, <1>7, <1>8, <1>9 DEF Next, Fires, Events

\* The inductive invariant of a call, whatever its processes do.
THEOREM Invariance == Spec => []IInv
BY InitInv, StepInv, PTL DEF Spec

\* Every variable keeps its type; timers are armed only together with a handle.
THEOREM TypeCorrect == Spec => []TypeOK
<1>1. IInv => TypeOK
  BY DEF IInv
<1>. QED
  BY Invariance, <1>1, PTL

\* After an abort or its deadline runProcess always has a SIGKILL coming for a leader
\* that is alive, and it never returns while its leader is.
THEOREM AskedMeansDoomed == Spec => []LeaderIsDoomed
<1>1. IInv => LeaderIsDoomed
  BY DEF IInv
<1>. QED
  BY Invariance, <1>1, PTL
=============================================================================
