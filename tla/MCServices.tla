------------------------------ MODULE MCServices ------------------------------
(* Two machines that share no state: the requests of two accounts; and       *)
(* requests of the reviewer demo, two of every kind, of two subjects or one, *)
(* on two processes or one with a single slot.  `machine` says which one is  *)
(* run; the other keeps one initial state.                                   *)
EXTENDS MCAccounts, DemoAdmission

CONSTANTS p1, p2, s1, s2

VARIABLE machine

MCProcesses == {p1, p2}
MCSubjects == {s1, s2}

\* Windows of "write" are full after one attempt, the others after one attempt
\* of a subject; "ai" has room for two a minute but one a day, so that its
\* second window is the one that fills.
MCOwn == [k \in Categories \X Kinds |-> IF k = <<"ai", "minute">> THEN 2 ELSE 1]
MCTotal == [k \in Categories \X Kinds |-> IF k[1] = "write" THEN 1 ELSE 2]

ServicesInit ==
  /\ machine \in {"accounts", "demo"}
  /\ Init /\ DemoInit
  /\ machine # "accounts" => users = [u \in Users |-> NoAccount]
  /\ machine # "demo" =>
       visit = [r \in Visits |-> [visit[r] EXCEPT !.process = p1, !.subject = s1, !.path = "ai"]]

ServicesNext ==
  /\ UNCHANGED machine
  /\ \/ machine = "accounts" /\ Next /\ UNCHANGED demoVars
     \/ machine = "demo" /\ DemoNext /\ UNCHANGED vars

ServicesSpec == ServicesInit /\ [][ServicesNext]_<<machine, vars, demoVars>>

\* The requests are the visits of the demo too.
AllSymmetry == Symmetry \union Permutations(MCProcesses) \union Permutations(MCSubjects)
===============================================================================
