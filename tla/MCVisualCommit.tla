--------------------------- MODULE MCVisualCommit ---------------------------
(* Two processes; the packs are edited so that the compiled artifact changes *)
(* and so that it does not.                                                  *)
EXTENDS VisualCommit

CONSTANTS p1, p2, a, b

MCProcesses == {p1, p2}
MCSolo == {p1}
MCArtOf == [v \in 0 .. 2 |-> IF v = 2 THEN b ELSE a]
MCMaySolo == [p \in MCSolo |-> Operations]
MCMayPair == [p \in MCProcesses |->
  IF p = p1 THEN {"connect", "render", "capture", "commit"} ELSE {"capture", "commit"}]
MCOneArt == [v \in 0 .. 0 |-> a]
=============================================================================
