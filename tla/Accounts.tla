------------------------------ MODULE Accounts ------------------------------
(***************************************************************************)
(* app/account_database.py, the handlers of app/api/account_routes.py and  *)
(* of the administrator in app/api/routes.py, and scripts/manage_admin.py. *)
(*                                                                         *)
(* Every call to MongoDB is a step, and requests interleave at each: what  *)
(* a handler decides, it decides on the user document it read, and what it *)
(* writes, it writes to the document as it is by then.  A request may die  *)
(* between two calls.  A user is a document of users, so the email of a    *)
(* deleted account registers again as another user; the chat history of an *)
(* account is left out.                                                    *)
(***************************************************************************)
EXTENDS Integers, FiniteSets

CONSTANTS Users, Requests, NoUser,
          MaxStarts           \* bound: requests that get to their first write

ASSUME NoUserAssumption == NoUser \notin Users
ASSUME MaxStartsAssumption == MaxStarts \in Nat

VARIABLES
  users,                      \* collection users
  authSessions,               \* collection auth_sessions
  tokens,                     \* collection account_tokens
  req,                        \* what each request has read and does next
  changes,                    \* changes of each user that revoke its sessions
  owed,                       \* users whose revocation was cut short
  starts

userVars == <<users, changes>>
vars == <<users, authSessions, tokens, req, changes, owed, starts>>

Purposes == {"verify_email", "reset_password"}
Stages == {"idle", "token_delete", "token_insert", "verify", "password", "revoke",
           "insert", "resolve", "others", "erase", "erase_tokens", "erase_user",
           "write_status", "count", "write_role"}

\* to: the purpose, status or role to be written; admin, active: the role and
\* status that were read; session: the one presented; no: the request's number.
Idle == [stage |-> "idle", user |-> NoUser, to |-> "", admin |-> FALSE,
         active |-> FALSE, session |-> 0, no |-> 0]

Account(role) == [state |-> "live", role |-> role, status |-> "active",
                  verified |-> TRUE]
NoAccount == [state |-> "none", role |-> "user", status |-> "active",
              verified |-> FALSE]

Live(u) == users[u].state = "live"
UsableAdmins == {u \in Users : /\ Live(u) /\ users[u].role = "admin"
                               /\ users[u].status # "disabled"}
SessionsOf(u) == {s \in authSessions : s.user = u}

Init ==
  /\ users \in [Users -> {NoAccount, Account("user"), Account("admin")}]
  /\ authSessions = {} /\ tokens = {}
  /\ req = [r \in Requests |-> Idle]
  /\ changes = [u \in Users |-> 0]
  /\ owed = {} /\ starts = 0

\* A request begins at stage, about user u; later it goes on or ends.
Begin(r, next) == /\ req[r].stage = "idle"
                  /\ starts < MaxStarts
                  /\ starts' = starts + 1
                  /\ req' = [req EXCEPT ![r] = [next EXCEPT !.no = starts + 1]]
At(r, stage) == req[r].stage = stage /\ UNCHANGED starts
Continue(r, stage) == req' = [req EXCEPT ![r].stage = stage]
End(r) == req' = [req EXCEPT ![r] = Idle]
For(u, stage, to) == [Idle EXCEPT !.user = u, !.stage = stage, !.to = to]

-----------------------------------------------------------------------------
(* Registration, email verification, password reset                        *)

\* The unique index makes the second of two inserts read the first one.
Register(r, u) ==
  /\ users[u].state \in {"none", "live"}
  /\ ~users[u].verified
  /\ users' = IF Live(u) THEN users
              ELSE [users EXCEPT ![u] = [NoAccount EXCEPT !.state = "live"]]
  /\ Begin(r, For(u, "token_delete", "verify_email"))
  /\ UNCHANGED <<authSessions, tokens, changes, owed>>

Forgot(r, u) ==
  /\ Live(u) /\ users[u].verified
  /\ Begin(r, For(u, "token_delete", "reset_password"))
  /\ UNCHANGED <<userVars, authSessions, tokens, owed>>

\* create_account_token: the earlier tokens go, then the new one comes.
DeleteTokens(r) ==
  /\ At(r, "token_delete")
  /\ tokens' = {t \in tokens : t.user # req[r].user \/ t.purpose # req[r].to}
  /\ Continue(r, "token_insert")
  /\ UNCHANGED <<userVars, authSessions, owed>>

InsertToken(r) ==
  /\ At(r, "token_insert")
  /\ tokens' = tokens \union
       {[id |-> req[r].no, user |-> req[r].user, purpose |-> req[r].to]}
  /\ End(r)
  /\ UNCHANGED <<userVars, authSessions, owed>>

\* find_one_and_delete; an expired token is spent for nothing.
Consume(r, t) ==
  /\ tokens' = tokens \ {t}
  /\ \/ Begin(r, For(t.user, IF t.purpose = "verify_email" THEN "verify"
                             ELSE "password", ""))
     \/ req[r].stage = "idle" /\ UNCHANGED <<req, starts>>
  /\ UNCHANGED <<userVars, authSessions, owed>>

MarkVerified(r) ==
  /\ At(r, "verify")
  /\ LET u == req[r].user
     IN  users' = IF Live(u) THEN [users EXCEPT ![u].verified = TRUE] ELSE users
  /\ End(r)
  /\ UNCHANGED <<changes, authSessions, tokens, owed>>

\* update_password, first call; without a match it returns False.
SetPassword(r) ==
  /\ At(r, "password")
  /\ LET u == req[r].user
     IN  IF Live(u)
         THEN changes' = [changes EXCEPT ![u] = @ + 1] /\ Continue(r, "revoke")
         ELSE UNCHANGED changes /\ End(r)
  /\ UNCHANGED <<users, authSessions, tokens, owed>>

\* mutant: delete_one
RevokeAll_One(r) ==
  /\ At(r, "revoke")
  /\ \/ SessionsOf(req[r].user) = {} /\ UNCHANGED authSessions
     \/ \E s \in SessionsOf(req[r].user) : authSessions' = authSessions \ {s}
  /\ owed' = owed \ {req[r].user}
  /\ End(r)
  /\ UNCHANGED <<userVars, tokens>>

\* The delete_many that ends a password, status or role change.
RevokeAll(r) ==
  /\ At(r, "revoke")
  /\ authSessions' = authSessions \ SessionsOf(req[r].user)
  /\ owed' = owed \ {req[r].user}
  /\ End(r)
  /\ UNCHANGED <<userVars, tokens>>

-----------------------------------------------------------------------------
(* Sign-in and what a signed-in user does                                  *)

\* The user is read and the password verified.
Login(r, u) ==
  /\ Live(u) /\ users[u].verified /\ users[u].status = "active"
  /\ Begin(r, For(u, "insert", ""))
  /\ UNCHANGED <<userVars, authSessions, tokens, owed>>

\* mark_last_login changes nothing here.
InsertSession(r) ==
  /\ At(r, "insert")
  /\ LET u == req[r].user
     IN  authSessions' = authSessions \union
           {[id |-> req[r].no, user |-> u, since |-> changes[u]]}
  /\ End(r)
  /\ UNCHANGED <<userVars, tokens, owed>>

\* /logout deletes the presented session, the TTL index an expired one.
Logout(s) ==
  /\ authSessions' = authSessions \ {s}
  /\ UNCHANGED <<userVars, tokens, req, owed, starts>>

\* resolve_auth_session: the session, then its user.
ReadSession(r, s, op) ==
  /\ Begin(r, [For(s.user, "resolve", op) EXCEPT !.session = s.id])
  /\ UNCHANGED <<userVars, authSessions, tokens, owed>>

ReadSessionUser(r) ==
  /\ At(r, "resolve")
  /\ LET u == req[r].user
     IN  IF Live(u) /\ users[u].status = "active"
         THEN Continue(r, req[r].to) ELSE End(r)
  /\ UNCHANGED <<userVars, authSessions, tokens, owed>>

\* revoke-others keeps the presented session, revoke-by-id deletes one.
RevokeSome(r) ==
  /\ At(r, "others")
  /\ \/ authSessions' = {s \in authSessions :
                           s.user = req[r].user => s.id = req[r].session}
     \/ \E s \in SessionsOf(req[r].user) : authSessions' = authSessions \ {s}
  /\ End(r)
  /\ UNCHANGED <<userVars, tokens, owed>>

\* delete_account: the sessions, the tokens, (the history,) then the user.
EraseSessions(r) ==
  /\ At(r, "erase")
  /\ LET u == req[r].user
     IN  /\ authSessions' = authSessions \ SessionsOf(u)
         /\ changes' = [changes EXCEPT ![u] = @ + 1]
         /\ owed' = owed \ {u}
  /\ Continue(r, "erase_tokens")
  /\ UNCHANGED <<users, tokens>>

EraseTokens(r) ==
  /\ At(r, "erase_tokens")
  /\ tokens' = {t \in tokens : t.user # req[r].user}
  /\ Continue(r, "erase_user")
  /\ UNCHANGED <<userVars, authSessions, owed>>

EraseUser(r) ==
  /\ At(r, "erase_user")
  /\ LET u == req[r].user
     IN  users' = IF Live(u) THEN [users EXCEPT ![u].state = "gone"] ELSE users
  /\ End(r)
  /\ UNCHANGED <<changes, authSessions, tokens, owed>>

-----------------------------------------------------------------------------
(* Administration: status from the console, roles from the command line    *)

\* admin_revoke_user_sessions
ReadForRevocation(r, u) ==
  /\ Live(u)
  /\ Begin(r, For(u, "revoke", ""))
  /\ UNCHANGED <<userVars, authSessions, tokens, owed>>

\* set_user_status: an administrator is not disabled (ValueError).
ReadForStatus(r, u, status) ==
  /\ Live(u)
  /\ status = "disabled" => users[u].role # "admin"
  /\ Begin(r, For(u, "write_status", status))
  /\ UNCHANGED <<userVars, authSessions, tokens, owed>>

WriteStatus(r) ==
  /\ At(r, "write_status")
  /\ LET u == req[r].user
         off == req[r].to = "disabled"
     IN  /\ users' = IF Live(u) THEN [users EXCEPT ![u].status = req[r].to] ELSE users
         /\ changes' = IF Live(u) /\ off
                       THEN [changes EXCEPT ![u] = @ + 1] ELSE changes
         /\ IF off THEN Continue(r, "revoke") ELSE End(r)
  /\ UNCHANGED <<authSessions, tokens, owed>>

\* set_user_role reads the user; a revocation then counts.
ReadForRole(r, u, role) ==
  /\ Live(u)
  /\ LET admin == users[u].role = "admin"
     IN  Begin(r, [For(u, IF role = "user" /\ admin THEN "count" ELSE "write_role", role)
                     EXCEPT !.admin = admin, !.active = users[u].status = "active"])
  /\ UNCHANGED <<userVars, authSessions, tokens, owed>>

CountAdmins(r) ==
  /\ At(r, "count")
  /\ IF req[r].active /\ Cardinality(UsableAdmins) <= 1
     THEN End(r) ELSE Continue(r, "write_role")
  /\ UNCHANGED <<userVars, authSessions, tokens, owed>>

\* mutant: the update upserts the document that was read
WriteRole_Upsert(r) ==
  /\ At(r, "write_role")
  /\ users' = [users EXCEPT ![req[r].user].role = req[r].to,
                            ![req[r].user].state = "live"]
  /\ End(r)
  /\ UNCHANGED <<changes, authSessions, tokens, owed>>

WriteRole(r) ==
  /\ At(r, "write_role")
  /\ LET u == req[r].user
         off == req[r].to = "user" /\ req[r].admin
     IN  /\ users' = IF Live(u) THEN [users EXCEPT ![u].role = req[r].to] ELSE users
         /\ changes' = IF Live(u) /\ off
                       THEN [changes EXCEPT ![u] = @ + 1] ELSE changes
         /\ IF off THEN Continue(r, "revoke") ELSE End(r)
  /\ UNCHANGED <<authSessions, tokens, owed>>

\* The process dies, or a call to MongoDB raises, between two calls.
Crash(r) ==
  /\ req[r].stage # "idle"
  /\ owed' = IF req[r].stage = "revoke" THEN owed \union {req[r].user} ELSE owed
  /\ End(r)
  /\ UNCHANGED <<userVars, authSessions, tokens, starts>>

-----------------------------------------------------------------------------
TokenStep(r) == DeleteTokens(r) \/ InsertToken(r) \/ MarkVerified(r) \/ SetPassword(r)
SessionStep(r) == InsertSession(r) \/ ReadSessionUser(r) \/ RevokeSome(r) \/ RevokeAll(r)
EraseStep(r) == EraseSessions(r) \/ EraseTokens(r) \/ EraseUser(r)
AdminStep(r) == WriteStatus(r) \/ CountAdmins(r) \/ WriteRole(r)

Start(r) ==
  \/ \E u \in Users : Register(r, u) \/ Forgot(r, u) \/ Login(r, u)
                      \/ ReadForRevocation(r, u)
  \/ \E u \in Users, status \in {"active", "disabled"} : ReadForStatus(r, u, status)
  \/ \E u \in Users, role \in {"user", "admin"} : ReadForRole(r, u, role)
  \/ \E s \in authSessions, op \in {"others", "erase"} : ReadSession(r, s, op)
  \/ \E t \in tokens : Consume(r, t)

Next == \/ \E r \in Requests : \/ Start(r) \/ TokenStep(r) \/ SessionStep(r)
                               \/ EraseStep(r) \/ AdminStep(r) \/ Crash(r)
        \/ \E s \in authSessions : Logout(s)

Spec == Init /\ [][Next]_vars

-----------------------------------------------------------------------------
Targets == Purposes \union
  {"", "active", "disabled", "user", "admin", "others", "erase"}
RequestType == [stage : Stages, user : Users \union {NoUser}, to : Targets,
                admin : BOOLEAN, active : BOOLEAN,
                session : 0..MaxStarts, no : 0..MaxStarts]

\* What a request at each stage has with it.
Fits(q) ==
  /\ q.user = NoUser <=> q.stage = "idle"
  /\ q.stage # "idle" => q.no # 0
  /\ q.stage \in {"token_delete", "token_insert"} => q.to \in Purposes
  /\ q.stage = "resolve" => q.to \in {"others", "erase"}
  /\ q.stage = "write_status" => q.to \in {"active", "disabled"}
  /\ q.stage \in {"count", "write_role"} => q.to \in {"user", "admin"}

TypeOK ==
  /\ users \in [Users -> [state : {"none", "live", "gone"}, role : {"user", "admin"},
                          status : {"active", "disabled"}, verified : BOOLEAN]]
  /\ authSessions \subseteq [id : 1..MaxStarts, user : Users, since : Nat]
  /\ tokens \subseteq [id : 1..MaxStarts, user : Users, purpose : Purposes]
  /\ req \in [Requests -> RequestType]
  /\ \A r \in Requests : Fits(req[r])
  /\ changes \in [Users -> Nat]
  /\ owed \subseteq Users
  /\ starts \in 0..MaxStarts

\* A session opened before a change of its user that revokes sessions.
Outdated(s) == s.since < changes[s.user]
Revoking(u) == \E r \in Requests : req[r].stage = "revoke" /\ req[r].user = u

(* A password reset, a disabling, a demotion and a deletion end every      *)
(* session there was before them, whatever else runs meanwhile; only a     *)
(* request cut between the change and the revocation leaves one behind.    *)
RevocationComplete == \A s \in authSessions :
  Outdated(s) => Revoking(s.user) \/ s.user \in owed

(* README.md: disabling an account or resetting its password revokes the   *)
(* sessions there are.                                                     *)
ChangesRevoke == \A s \in authSessions : Outdated(s) => Revoking(s.user)

(* A deleted account stays deleted: no request that read it earlier brings *)
(* any of it back.                                                         *)
GoneStaysGone == [][\A u \in Users : users[u].state = "gone" => users'[u] = users[u]]_vars

(* The last active administrator is neither disabled nor demoted.          *)
LastAdminStays ==
  [][UsableAdmins # {} /\ UsableAdmins' = {} =>
       \E u \in Users : Live(u) /\ ~Live(u)']_vars
=============================================================================
