--------------------------- MODULE ImmutableStore ---------------------------
(***************************************************************************)
(* What src/visual/run-store.ts promises its callers: an entry is absent   *)
(* until one step makes it whole, and its content never changes again      *)
(* unless someone else alters the cache.                                   *)
(***************************************************************************)
VARIABLES
  present, \* the entries that have something at their name
  whole,   \* the entries that are there in full
  altered  \* the entries that someone else has changed

Init == present = {} /\ whole = {} /\ altered = {}

Publish ==
  /\ \E e \in present' \ present : present' = present \cup {e} /\ whole' = whole \cup {e}
  /\ UNCHANGED altered

Alter ==
  /\ \E e \in present \ altered : altered' = altered \cup {e}
  /\ UNCHANGED <<present, whole>>

Next == Publish \/ Alter

Spec == Init /\ [][Next]_<<present, whole, altered>>
=============================================================================
