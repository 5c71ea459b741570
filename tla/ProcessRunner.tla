--------------------------- MODULE ProcessRunner ---------------------------
(***************************************************************************)
(* runProcess of src/runtime/process.ts: one subprocess, the process group *)
(* it leads, the abort signal, the deadline and the force-kill timer.      *)
(*                                                                         *)
(* The group is the spawned leader and at most one helper it started.  The *)
(* operating system's side (what a process does with SIGTERM, when it      *)
(* exits) is the environment; captured output is left out, except that     *)
(* 'close' needs every holder of the pipes to be gone.                     *)
(***************************************************************************)
EXTENDS FiniteSets

CONSTANTS Leaders, \* what the leader may do on SIGTERM: "dies" "exits" "ignores"
          Helpers  \* what its helper may be: "none" "obeys" "ignores" "detached"

ASSUME LeadersAssumption == Leaders \subseteq {"dies", "exits", "ignores"}
ASSUME HelpersAssumption == Helpers \subseteq {"none", "obeys", "ignores", "detached"}

VARIABLES
  onTerm,    \* the leader's reaction to SIGTERM (an exit handler exits with a code)
  kind,      \* the helper; a detached one ignores SIGTERM and holds no pipe
  aborted,   \* options.signal.aborted
  phase,     \* "called" "running" "settled"
  leader,    \* "none" "alive" "exited" (child.exitCode set) "killed" (signal)
  helper,    \* "none" "alive" "dead"
  reaped,    \* Node has seen the leader's end and set exitCode or signalCode
  termed,    \* processes with a SIGTERM to handle
  timers,    \* armed timers: "deadline", "force1", "force2"
  forceKill, \* the handle in forceKillTimer, or "none"
  cancelled, timedOut

vars == <<onTerm, kind, aborted, phase, leader, helper, reaped, termed, timers,
          forceKill, cancelled, timedOut>>

environment == <<onTerm, kind>>

Init ==
  /\ onTerm \in Leaders /\ kind \in Helpers
  /\ aborted \in BOOLEAN
  /\ phase = "called"
  /\ leader = "none" /\ helper = "none" /\ reaped = FALSE /\ termed = {}
  /\ timers = {} /\ forceKill = "none"
  /\ cancelled = FALSE /\ timedOut = FALSE

Alive == {p \in {"leader"} : leader = "alive"} \cup {p \in {"helper"} : helper = "alive"}

-----------------------------------------------------------------------------
\* The look at the signal, spawn, which may fail (no pid), the abort listener and
\* the deadline.  Nothing in between gives way to other code: no abort can come
\* between, and the second look at the signal finds what the first one found.
Start ==
  /\ phase = "called"
  /\ IF aborted
       THEN /\ phase' = "settled" /\ cancelled' = TRUE
            /\ UNCHANGED <<leader, helper, timers>>
       ELSE /\ phase' = "running" /\ timers' = {"deadline"} /\ cancelled' = cancelled
            /\ \/ /\ leader' = "alive"
                  /\ helper' = IF kind = "none" THEN "none" ELSE "alive"
               \/ UNCHANGED <<leader, helper>>
  /\ UNCHANGED <<environment, aborted, reaped, termed, forceKill, timedOut>>

\* Defect: no force-kill timer follows the SIGTERM.
KillPolitely(armed) ==
  /\ termed' = IF leader = "none" THEN termed ELSE termed \cup Alive
  /\ timers' = armed
  /\ forceKill' = forceKill

\* Defect: the handle of the force-kill timer is not kept.
KillForgetsHandle(armed) ==
  IF leader = "none"
  THEN timers' = armed /\ UNCHANGED <<termed, forceKill>>
  ELSE /\ termed' = termed \cup Alive
       /\ timers' = armed \cup {"force1"}
       /\ forceKill' = forceKill

\* Defect: a second kill() withdraws the timer of the first, and as SIGTERM has
\* been sent already, does no more.
KillOnlyOnce(armed) ==
  IF leader = "none" \/ forceKill # "none"
  THEN timers' = armed \ {forceKill} /\ UNCHANGED <<termed, forceKill>>
  ELSE /\ termed' = termed \cup Alive
       /\ timers' = armed \cup {"force1"}
       /\ forceKill' = "force1"

\* kill(): SIGTERM to the group and a fresh force-kill timer, whose handle
\* replaces the one before.  (child.killed stays false: process.kill with a
\* negative pid does not set it.)  `armed` is what is armed already.
Kill(armed) ==
  IF leader = "none"
  THEN timers' = armed /\ UNCHANGED <<termed, forceKill>>
  ELSE LET fresh == IF forceKill = "none" THEN "force1" ELSE "force2"
       IN  /\ termed' = termed \cup Alive
           /\ timers' = armed \cup {fresh}
           /\ forceKill' = fresh

\* The caller aborts; a registered listener runs onAbort at once.
Abort ==
  /\ ~aborted /\ aborted' = TRUE
  /\ IF phase = "running"
       THEN cancelled' = TRUE /\ Kill(timers)
       ELSE UNCHANGED <<cancelled, termed, timers, forceKill>>
  /\ UNCHANGED <<environment, phase, leader, helper, reaped, timedOut>>

Deadline ==
  /\ "deadline" \in timers
  /\ timedOut' = TRUE
  /\ Kill(timers \ {"deadline"})
  /\ UNCHANGED <<environment, aborted, phase, leader, helper, reaped, cancelled>>

\* Two seconds after a kill(): SIGKILL, unless the leader left an exit code.
ForceKill(timer) ==
  /\ timer \in timers \cap {"force1", "force2"}
  /\ timers' = timers \ {timer}
  /\ IF reaped /\ leader = "exited"
       THEN UNCHANGED <<leader, helper>>
       ELSE /\ leader' = IF leader = "alive" THEN "killed" ELSE leader
            /\ helper' = IF helper = "alive" THEN "dead" ELSE helper
  /\ UNCHANGED <<environment, aborted, phase, reaped, termed, forceKill, cancelled,
                 timedOut>>

\* cleanup() clears the deadline and the last force-kill handle.
Cleared == timers \ {"deadline", forceKill}

\* 'error': the spawn failed.
SpawnError ==
  /\ phase = "running" /\ leader = "none"
  /\ phase' = "settled" /\ timers' = Cleared
  /\ UNCHANGED <<environment, aborted, leader, helper, reaped, termed, forceKill,
                 cancelled, timedOut>>

\* 'close': the leader has ended and nobody holds its pipes any more.
Close ==
  /\ phase = "running" /\ reaped
  /\ helper # "alive" \/ kind = "detached"
  /\ phase' = "settled" /\ timers' = Cleared
  /\ UNCHANGED <<environment, aborted, leader, helper, reaped, termed, forceKill,
                 cancelled, timedOut>>

-----------------------------------------------------------------------------
(* The operating system.                                                    *)

Reap ==
  /\ leader \in {"exited", "killed"} /\ ~reaped
  /\ reaped' = TRUE
  /\ UNCHANGED <<environment, aborted, phase, leader, helper, termed, timers,
                 forceKill, cancelled, timedOut>>

LeaderGetsTerm ==
  /\ "leader" \in termed /\ termed' = termed \ {"leader"}
  /\ leader' = CASE leader = "alive" /\ onTerm = "dies" -> "killed"
                 [] leader = "alive" /\ onTerm = "exits" -> "exited"
                 [] OTHER -> leader
  /\ UNCHANGED <<environment, aborted, phase, helper, reaped, timers, forceKill,
                 cancelled, timedOut>>

HelperGetsTerm ==
  /\ "helper" \in termed /\ termed' = termed \ {"helper"}
  /\ helper' = IF helper = "alive" /\ kind = "obeys" THEN "dead" ELSE helper
  /\ UNCHANGED <<environment, aborted, phase, leader, reaped, timers, forceKill,
                 cancelled, timedOut>>

\* Either process may finish by itself, or run for ever.
Finishes ==
  /\ \/ leader = "alive" /\ leader' = "exited" /\ helper' = helper
     \/ helper = "alive" /\ helper' = "dead" /\ leader' = leader
  /\ UNCHANGED <<environment, aborted, phase, reaped, termed, timers, forceKill,
                 cancelled, timedOut>>

Fires == Deadline \/ \E t \in {"force1", "force2"} : ForceKill(t)
Events == Reap \/ LeaderGetsTerm \/ HelperGetsTerm \/ SpawnError \/ Close

Next == Start \/ Abort \/ Fires \/ Events \/ Finishes

\* Timers fire, signals arrive and events are delivered; nobody has to abort
\* and no process has to finish by itself.
Fairness ==
  /\ WF_vars(Start)
  /\ WF_vars(Deadline)
  /\ \A t \in {"force1", "force2"} : WF_vars(ForceKill(t))
  /\ WF_vars(Reap) /\ WF_vars(LeaderGetsTerm) /\ WF_vars(HelperGetsTerm)
  /\ WF_vars(SpawnError) /\ WF_vars(Close)

Spec == Init /\ [][Next]_vars /\ Fairness

-----------------------------------------------------------------------------
\* Type invariant; the handle in forceKillTimer is of the last kill().
TypeOK ==
  /\ onTerm \in Leaders /\ kind \in Helpers
  /\ aborted \in BOOLEAN /\ cancelled \in BOOLEAN /\ timedOut \in BOOLEAN
  /\ reaped \in BOOLEAN
  /\ phase \in {"called", "running", "settled"}
  /\ leader \in {"none", "alive", "exited", "killed"}
  /\ helper \in {"none", "alive", "dead"}
  /\ termed \subseteq {"leader", "helper"}
  /\ timers \subseteq {"deadline", "force1", "force2"}
  /\ forceKill \in {"none", "force1", "force2"}
  /\ forceKill = "none" => timers \subseteq {"deadline"}

\* Whoever is to end is doomed.  In whatever order abort, deadline, signals, exits
\* and force-kill timers come, and although the handle of the first timer is
\* overwritten by the second: a leader that is alive after an abort or the deadline
\* has a SIGKILL coming, a running call takes an abort, and no call returns while
\* its leader is alive.
LeaderIsDoomed ==
  /\ leader = "alive" /\ (cancelled \/ timedOut) => timers \cap {"force1", "force2"} # {}
  /\ phase = "running" /\ aborted => cancelled
  /\ phase = "settled" => leader # "alive"

\* A call with a deadline always settles, however the leader takes a SIGTERM
\* and whatever combination of abort and deadline strikes.
AlwaysSettles == phase = "called" ~> phase = "settled"

\* "Run a subprocess without a shell and reliably terminate its process group":
\* once a call is cancelled or timed out, in the end no process of the group
\* is left and the call has returned.
GroupTerminated ==
  (cancelled \/ timedOut) ~> (phase = "settled" /\ Alive = {})
=============================================================================
