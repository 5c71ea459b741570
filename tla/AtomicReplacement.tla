------------------------- MODULE AtomicReplacement -------------------------
(***************************************************************************)
(* What a visual transaction promises about a set of files nobody else is  *)
(* writing (src/docs/architecture.md, "Filesystem transactions"): either   *)
(* the old files can all be had back or the new ones are all in place, at  *)
(* every moment and whatever stops it, and the reported outcome says       *)
(* which.                                                                  *)
(***************************************************************************)
VARIABLES
  oldKept,      \* every replaced file still exists under some name
  newInstalled, \* every generated file is at its destination
  outcome       \* "running" or what the caller is told

vars == <<oldKept, newInstalled, outcome>>

Init == oldKept = TRUE /\ newInstalled = FALSE /\ outcome = "running"

\* Files are put in place, taken back or, once all are in place, discarded.
Work ==
  /\ outcome = "running"
  /\ oldKept' \in BOOLEAN /\ newInstalled' \in BOOLEAN
  /\ oldKept' => oldKept
  /\ oldKept' \/ newInstalled'
  /\ outcome' = outcome

Succeed ==
  /\ outcome = "running" /\ newInstalled
  /\ outcome' = "success"
  /\ UNCHANGED <<oldKept, newInstalled>>

Fail ==
  /\ outcome = "running" /\ oldKept /\ ~newInstalled
  /\ outcome' = "error"
  /\ UNCHANGED <<oldKept, newInstalled>>

\* Stopped by a crash or by something that cannot be undone safely.
Stop ==
  /\ outcome = "running"
  /\ outcome' \in {"recovery", "crashed"}
  /\ UNCHANGED <<oldKept, newInstalled>>

Next == Work \/ Succeed \/ Fail \/ Stop

Spec == Init /\ [][Next]_vars
=============================================================================
