--------------------------- MODULE MCSemanticCache ---------------------------
(* Two requests with two questions in one process, restarted once under  *)
(* the same or another revision.                                           *)
EXTENDS SemanticCache, TLC

CONSTANTS p1, c1, c2, q1, q2, r1, r2

MCProcesses == {p1}
MCCallers == {c1, c2}
MCQuestions == {q1, q2}
MCRevisions == {r1, r2}
MCProcessOf == [c \in MCCallers |-> p1]
MCSlots == {}
=============================================================================
