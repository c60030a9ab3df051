--------------------------- MODULE MCQueryStaging ---------------------------
(* Two instances: a window of two ingestion batches and then another,      *)
(* beside a thread that embeds queries; and two threads that embed         *)
(* queries, in one process or in two, beside a batch of one document.      *)
EXTENDS QueryStaging, TLC

CONSTANTS p1, p2, c1, c2, q1, q2

TwoProcessSet == {p1, p2}
TwoCallers == {c1, c2}
TwoQuestions == {q1, q2}
OneCaller == {c1}
OneQuestion == {q1}
OneSlot == {0}
TwoSlots == {0, 1}

OneProcess == [c \in Callers |-> p1]
TwoProcesses == c1 :> p1 @@ c2 :> p2
=============================================================================
