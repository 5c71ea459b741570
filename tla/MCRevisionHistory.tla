------------------------- MODULE MCRevisionHistory -------------------------
(* One process runs every operation, another a few of them beside it. *)
EXTENDS RevisionHistory

CONSTANTS p1, p2

MCProcesses == {p1, p2}
MCMay == [p \in MCProcesses |-> IF p = p1 THEN Operations ELSE {"import"}]
MCAlterable == {<<"revision", <<"spec">>>>}
MCMaxCalls == [p \in MCProcesses |-> IF p = p1 THEN 3 ELSE 1]
=============================================================================
