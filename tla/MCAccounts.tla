---------------------------- MODULE MCAccounts ----------------------------
(* Two accounts, none, plain or administrator at first, two requests at a  *)
(* time and so many in all that one can sign in, change and sign out.  For *)
(* the last administrator: two administrators from the start.              *)
EXTENDS Accounts, TLC

CONSTANTS u1, u2, a, b

MCUsers == {u1, u2}
MCRequests == {a, b}
Symmetry == Permutations(MCUsers) \union Permutations(MCRequests)

TwoAdminsInit == Init /\ \A u \in Users : users[u] = Account("admin")
TwoAdminsSpec == TwoAdminsInit /\ [][Next]_vars
===========================================================================
