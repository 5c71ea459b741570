---------------------------- MODULE MCPathLocks ----------------------------
(* Three calls over three overlapping paths, one of which all three want: a  *)
(* chain of calls can wait for each other, and the map entry of a path is    *)
(* deleted by one call while a second is in and a third arrives.             *)
EXTENDS PathLocks

CONSTANTS c1, c2, c3

MCCalls == {c1, c2, c3}
MCPaths == 1 .. 3
MCRank == [p \in MCPaths |-> p]
MCWants == [c \in MCCalls |->
  CASE c = c1 -> {1, 2} [] c = c2 -> {2, 3} [] OTHER -> {1, 2, 3}]
=============================================================================
