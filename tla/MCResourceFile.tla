--------------------------- MODULE MCResourceFile ---------------------------
(* Three calls, two of them in one process: every kind with the hash of the *)
(* first version against a rival, then a call that expects what another      *)
(* program writes or nothing.                                                *)
EXTENDS ResourceFile

CONSTANTS c1, c2, c3

MCCalls == {c1, c2, c3}
MCHome == [c \in MCCalls |-> IF c = c1 THEN "server" ELSE "cli"]
Ask(kind, expects, content) == [kind |-> kind, expects |-> expects, content |-> content]
MCAsks == [c \in MCCalls |->
  CASE c = c1 -> {Ask("upsert", "old", "new"), Ask("build", "old", "new"),
                  Ask("attach", "old", "new"), Ask("delete", "old", None)}
    [] c = c2 -> {Ask("upsert", "old", "new"), Ask("delete", "old", None)}
    [] OTHER  -> {Ask("upsert", "other", "new"), Ask("upsert", None, "new")}]
=============================================================================
