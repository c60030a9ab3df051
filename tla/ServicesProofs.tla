--------------------------- MODULE ServicesProofs ---------------------------
(***************************************************************************)
(* Proofs about Accounts and DemoAdmission, which share no state, for any  *)
(* number of users, processes and requests and any limits.                 *)
(*                                                                         *)
(* Accounts: the type invariant with RevocationComplete is inductive; a    *)
(* change that revokes sessions leaves its request at the revocation,      *)
(* which only the revocation itself or a crash ends.                       *)
(*                                                                         *)
(* DemoAdmission: the inductive invariant has four parts: the types, how   *)
(* far each request has paid for what its stage does (Progressed), the     *)
(* slots (SlotsCounted), and that the counters in the database bound the   *)
(* number of requests that hold the window (Covered), from which QuotaKept *)
(* comes.                                                                  *)
(***************************************************************************)
EXTENDS Accounts, DemoAdmission, FiniteSetTheorems, TLAPS

ReqOK == /\ req \in [Requests -> RequestType]
         /\ \A r \in Requests : Fits(req[r])
         /\ starts \in 0..MaxStarts

StoreOK ==
  /\ users \in [Users -> [state : {"none", "live", "gone"}, role : {"user", "admin"},
                          status : {"active", "disabled"}, verified : BOOLEAN]]
  /\ authSessions \subseteq [id : 1..MaxStarts, user : Users, since : Nat]
  /\ tokens \subseteq [id : 1..MaxStarts, user : Users, purpose : Purposes]
  /\ changes \in [Users -> Nat]
  /\ owed \subseteq Users

KeepsRevoking(U) == \A u \in U : Revoking(u) => Revoking(u)'

LEMMA TypeParts == TypeOK <=> ReqOK /\ StoreOK
BY DEF TypeOK, ReqOK, StoreOK

-----------------------------------------------------------------------------
(* What the three ways to move a request do to the requests.               *)
LEMMA BeginReq ==
  ASSUME ReqOK, NEW r \in Requests, NEW next \in RequestType, Begin(r, next),
         next.stage # "idle", Fits([next EXCEPT !.no = 1])
  PROVE  ReqOK' /\ KeepsRevoking(Users)
<1> DEFINE q == [next EXCEPT !.no = starts + 1]
<1>1. starts' = starts + 1 /\ starts + 1 \in 1..MaxStarts
  BY MaxStartsAssumption DEF Begin, ReqOK
<1>2. q \in RequestType /\ q.no # 0
  BY <1>1 DEF RequestType
<1>3. Fits(q)
  BY <1>2 DEF Fits, RequestType
<1>4. req' = [req EXCEPT ![r] = q]
  BY DEF Begin
<1>5. req' \in [Requests -> RequestType] /\ \A x \in Requests : Fits(req'[x])
  <2> HIDE DEF q
  <2> QED
    BY <1>2, <1>3, <1>4 DEF ReqOK
<1>6. ReqOK'
  BY <1>1, <1>5 DEF ReqOK, Fits
<1>7. \A x \in Requests : req[x].stage = "revoke" => req'[x] = req[x]
  <2> HIDE DEF q
  <2> QED
    BY <1>4 DEF Begin, ReqOK
<1> QED
  BY <1>6, <1>7 DEF KeepsRevoking, Revoking

LEMMA ContinueReq ==
  ASSUME ReqOK, NEW r \in Requests, NEW next \in Stages \ {"idle"},
         Continue(r, next), UNCHANGED starts,
         req[r].stage \notin {"idle", "revoke"},
         Fits([req[r] EXCEPT !.stage = next])
  PROVE  /\ ReqOK' /\ KeepsRevoking(Users)
         /\ next = "revoke" => \A u \in {req[r].user} : Revoking(u)'
<1>1. req[r] \in RequestType
  BY DEF ReqOK
<1>2. PICK q : q = [req[r] EXCEPT !.stage = next]
  OBVIOUS
<1>3. q \in RequestType /\ Fits(q) /\ q.stage = next /\ q.user = req[r].user
  BY <1>1, <1>2 DEF RequestType
<1>4. req' = [req EXCEPT ![r] = q]
  BY <1>2 DEF Continue
<1>5. req' \in [Requests -> RequestType] /\ \A x \in Requests : Fits(req'[x])
  BY <1>3, <1>4 DEF ReqOK
<1>6. ReqOK'
  BY <1>5 DEF ReqOK, Fits
<1>7. /\ req'[r] = q
      /\ \A x \in Requests : req[x].stage = "revoke" => req'[x] = req[x]
  BY <1>4 DEF ReqOK
<1> QED
  BY <1>3, <1>6, <1>7 DEF KeepsRevoking, Revoking

LEMMA EndReq ==
  ASSUME ReqOK, NEW r \in Requests, End(r), UNCHANGED starts
  PROVE  /\ ReqOK' /\ KeepsRevoking(Users \ {req[r].user})
         /\ req[r].stage # "revoke" => KeepsRevoking(Users)
<1>1. Idle \in RequestType /\ Fits(Idle)
  BY MaxStartsAssumption, NoUserAssumption
  DEF Idle, RequestType, Fits, Stages, Targets
<1>2. req' = [req EXCEPT ![r] = Idle]
  BY DEF End
<1>3. req' \in [Requests -> RequestType] /\ \A x \in Requests : Fits(req'[x])
  BY <1>1, <1>2 DEF ReqOK
<1>4. ReqOK'
  BY <1>3 DEF ReqOK, Fits
<1>5. \A x \in Requests \ {r} : req'[x] = req[x]
  BY <1>2 DEF ReqOK
<1> QED
  BY <1>4, <1>5 DEF KeepsRevoking, Revoking

(* A request that begins about a user, with the right target.              *)
LEMMA ForFits ==
  ASSUME NEW u \in Users, NEW stage \in Stages \ {"idle"}, NEW to \in Targets,
         stage \in {"token_delete", "token_insert"} => to \in Purposes,
         stage = "resolve" => to \in {"others", "erase"},
         stage = "write_status" => to \in {"active", "disabled"},
         stage \in {"count", "write_role"} => to \in {"user", "admin"}
  PROVE  /\ For(u, stage, to) \in RequestType
         /\ For(u, stage, to).stage # "idle"
         /\ Fits([For(u, stage, to) EXCEPT !.no = 1])
<1>1. u # NoUser
  BY NoUserAssumption
<1>2. 0 \in 0..MaxStarts
  BY MaxStartsAssumption
<1>3. Idle \in RequestType
  BY <1>2 DEF Idle, RequestType, Stages, Targets
<1>4. /\ For(u, stage, to) \in RequestType
      /\ For(u, stage, to).stage = stage
      /\ For(u, stage, to).user = u
      /\ For(u, stage, to).to = to
  BY <1>3 DEF For, RequestType
<1>5. PICK q : q = [For(u, stage, to) EXCEPT !.no = 1]
  OBVIOUS
<1>6. q.stage = stage /\ q.user = u /\ q.to = to /\ q.no = 1
  BY <1>4, <1>5 DEF RequestType
<1>7. Fits(q)
  BY <1>1, <1>6 DEF Fits
<1> QED
  BY <1>4, <1>5, <1>7

(* A busy request's user is a user, and its number a number.               *)
LEMMA BusyUser ==
  ASSUME ReqOK, NEW r \in Requests, req[r].stage # "idle"
  PROVE  /\ req[r] \in RequestType /\ Fits(req[r])
         /\ req[r].user \in Users /\ req[r].no \in 1..MaxStarts
<1>1. req[r] \in RequestType /\ Fits(req[r])
  BY DEF ReqOK
<1>2. req[r].user \in Users
  BY <1>1 DEF RequestType, Fits
<1>3. req[r].no \in 0..MaxStarts /\ req[r].no # 0
  BY <1>1 DEF RequestType, Fits
<1> QED
  BY <1>1, <1>2, <1>3, MaxStartsAssumption
-----------------------------------------------------------------------------
\* What every step has to keep, apart from the requests.
Kept == StoreOK' /\ RevocationComplete'

(* A step that leaves the sessions, their users' changes and what is owed  *)
(* alone keeps revocation complete as long as no revocation is dropped.    *)
LEMMA SameSessions ==
  ASSUME StoreOK, RevocationComplete, KeepsRevoking(Users),
         authSessions' \subseteq authSessions,
         UNCHANGED changes, owed \subseteq owed'
  PROVE  RevocationComplete'
BY DEF StoreOK, RevocationComplete, Outdated, KeepsRevoking

(* A change of one user's that leaves its request revoking.                *)
LEMMA OneChange ==
  ASSUME StoreOK, RevocationComplete, KeepsRevoking(Users), NEW u \in Users,
         Revoking(u)' \/ SessionsOf(u)' = {},
         changes' = [changes EXCEPT ![u] = @ + 1],
         authSessions' \subseteq authSessions, owed \ {u} \subseteq owed'
  PROVE  RevocationComplete' /\ changes' \in [Users -> Nat]
<1>1. changes \in [Users -> Nat]
  BY DEF StoreOK
<1>2. /\ changes' \in [Users -> Nat]
      /\ \A v \in Users \ {u} : changes'[v] = changes[v]
  BY <1>1
<1>3. ASSUME NEW s \in authSessions', Outdated(s)'
      PROVE  Revoking(s.user)' \/ s.user \in owed'
  <2>1. s \in authSessions /\ s.user \in Users
    BY <1>3 DEF StoreOK
  <2>2. CASE s.user = u
    <3>1. s \in SessionsOf(u)'
      BY <1>3, <2>2 DEF SessionsOf
    <3> QED
      BY <2>2, <3>1
  <2>3. CASE s.user # u
    <3>1. Outdated(s)
      BY <1>2, <1>3, <2>1, <2>3 DEF Outdated
    <3> QED
      BY <2>1, <2>3, <3>1 DEF RevocationComplete, KeepsRevoking
  <2> QED
    BY <2>2, <2>3
<1> QED
  BY <1>2, <1>3 DEF RevocationComplete

(* Beginning anything but a registration or a token changes no collection. *)
LEMMA StartStep ==
  ASSUME ReqOK, StoreOK, RevocationComplete, NEW r \in Requests, Start(r)
  PROVE  ReqOK' /\ Kept
<1> USE DEF Kept
<1>1. ASSUME ReqOK' /\ KeepsRevoking(Users), UNCHANGED <<userVars, owed>>,
             authSessions' = authSessions, tokens' \subseteq tokens
      PROVE  ReqOK' /\ Kept
  BY <1>1, SameSessions DEF StoreOK, userVars
<1>2. "" \in Targets /\ Purposes \subseteq Targets
      /\ {"active", "disabled", "user", "admin", "others", "erase"} \subseteq Targets
      /\ Purposes = {"verify_email", "reset_password"}
  BY DEF Targets, Purposes
<1>3. {"token_delete", "insert", "revoke", "write_status", "count", "write_role",
       "resolve", "verify", "password"} \subseteq Stages \ {"idle"}
  BY DEF Stages
<1>4. ASSUME NEW u \in Users, Register(r, u) PROVE ReqOK' /\ Kept
  <2>1. ReqOK' /\ KeepsRevoking(Users)
    BY <1>2, <1>3, <1>4, ForFits, BeginReq DEF Register
  <2>2. users' \in [Users -> [state : {"none", "live", "gone"}, role : {"user", "admin"},
                          status : {"active", "disabled"}, verified : BOOLEAN]]
    BY <1>4 DEF Register, StoreOK, NoAccount
  <2> QED
    BY <1>4, <2>1, <2>2, SameSessions DEF Register, StoreOK
<1>5. ASSUME NEW u \in Users, Forgot(r, u) PROVE ReqOK' /\ Kept
  BY <1>1, <1>2, <1>3, <1>5, ForFits, BeginReq DEF Forgot, userVars
<1>6. ASSUME NEW u \in Users, Login(r, u) PROVE ReqOK' /\ Kept
  BY <1>1, <1>2, <1>3, <1>6, ForFits, BeginReq DEF Login, userVars
<1>7. ASSUME NEW u \in Users, ReadForRevocation(r, u) PROVE ReqOK' /\ Kept
  BY <1>1, <1>2, <1>3, <1>7, ForFits, BeginReq DEF ReadForRevocation, userVars
<1>8. ASSUME NEW u \in Users, NEW status \in {"active", "disabled"},
             ReadForStatus(r, u, status)
      PROVE  ReqOK' /\ Kept
  BY <1>1, <1>2, <1>3, <1>8, ForFits, BeginReq DEF ReadForStatus, userVars
<1>9. ASSUME NEW u \in Users, NEW role \in {"user", "admin"}, ReadForRole(r, u, role)
      PROVE  ReqOK' /\ Kept
  <2>1. PICK stage \in {"count", "write_role"}, admin \in BOOLEAN, works \in BOOLEAN :
          Begin(r, [For(u, stage, role) EXCEPT !.admin = admin, !.active = works])
    BY <1>9 DEF ReadForRole
  <2> DEFINE f == For(u, stage, role)
             next == [f EXCEPT !.admin = admin, !.active = works]
  <2>2. /\ f \in RequestType /\ f.stage = stage
        /\ Fits([f EXCEPT !.no = 1])
    <3>1. /\ stage \in Stages \ {"idle"} /\ role \in Targets
          /\ stage \notin {"token_delete", "token_insert", "resolve", "write_status"}
      BY <1>2, <1>3
    <3>2. f \in RequestType /\ Fits([f EXCEPT !.no = 1])
      BY <3>1, ForFits
    <3>3. f.stage = stage
      BY DEF For, Idle
    <3> QED
      BY <3>2, <3>3
  <2>3. /\ next \in RequestType /\ next.stage # "idle"
        /\ Fits([next EXCEPT !.no = 1])
    BY <2>2 DEF RequestType, Fits
  <2>4. ReqOK' /\ KeepsRevoking(Users)
    BY <2>1, <2>3, BeginReq
  <2> QED
    BY <1>1, <1>9, <2>4 DEF ReadForRole, userVars
<1>10. ASSUME NEW s \in authSessions, NEW op \in {"others", "erase"},
              ReadSession(r, s, op)
       PROVE  ReqOK' /\ Kept
  <2>1. s.user \in Users /\ s.id \in 0..MaxStarts
    BY MaxStartsAssumption DEF StoreOK
  <2> DEFINE f == For(s.user, "resolve", op)
             next == [f EXCEPT !.session = s.id]
  <2>2. f \in RequestType /\ f.stage = "resolve" /\ Fits([f EXCEPT !.no = 1])
    BY <1>2, <1>3, <2>1, ForFits DEF For, Idle
  <2>3. /\ next \in RequestType /\ next.stage # "idle"
        /\ Fits([next EXCEPT !.no = 1])
    BY <2>1, <2>2 DEF RequestType, Fits
  <2>4. ReqOK' /\ KeepsRevoking(Users)
    BY <1>10, <2>3, BeginReq DEF ReadSession
  <2> QED
    BY <1>1, <1>10, <2>4 DEF ReadSession, userVars
<1>11. ASSUME NEW t \in tokens, Consume(r, t) PROVE ReqOK' /\ Kept
  <2>1. t.user \in Users
    BY DEF StoreOK
  <2>2. CASE UNCHANGED <<req, starts>>
    BY <1>1, <1>11, <2>2 DEF Consume, ReqOK, Fits, KeepsRevoking, Revoking
  <2>3. CASE \E stage \in {"verify", "password"} : Begin(r, For(t.user, stage, ""))
    BY <1>1, <1>2, <1>3, <1>11, <2>1, <2>3, ForFits, BeginReq DEF Consume
  <2> QED
    BY <1>11, <2>2, <2>3 DEF Consume
<1> QED
  BY <1>4, <1>5, <1>6, <1>7, <1>8, <1>9, <1>10, <1>11 DEF Start

-----------------------------------------------------------------------------
(* A step that goes on or ends at a stage other than the revocation.       *)
LEMMA TokenKeeps ==
  ASSUME ReqOK, StoreOK, RevocationComplete, NEW r \in Requests, TokenStep(r)
  PROVE  ReqOK' /\ Kept
<1> USE DEF Kept
<1>1. ASSUME DeleteTokens(r) PROVE ReqOK' /\ Kept
  <2>1. Fits([req[r] EXCEPT !.stage = "token_insert"])
    BY <1>1, BusyUser DEF DeleteTokens, At, Fits, RequestType
  <2>2. ReqOK' /\ KeepsRevoking(Users)
    BY <1>1, <2>1, ContinueReq DEF DeleteTokens, At, Stages
  <2> QED
    BY <1>1, <2>2, SameSessions DEF DeleteTokens, StoreOK, userVars
<1>2. ASSUME InsertToken(r) PROVE ReqOK' /\ Kept
  <2>1. ReqOK' /\ KeepsRevoking(Users)
    BY <1>2, EndReq DEF InsertToken, At
  <2>2. /\ req[r].user \in Users /\ req[r].no \in 1..MaxStarts
        /\ req[r].to \in Purposes
    BY <1>2, BusyUser DEF InsertToken, At, Fits
  <2>3. tokens' \subseteq [id : 1..MaxStarts, user : Users, purpose : Purposes]
    BY <1>2, <2>2 DEF InsertToken, StoreOK
  <2> QED
    BY <1>2, <2>1, <2>3, SameSessions DEF InsertToken, StoreOK, userVars
<1>3. ASSUME MarkVerified(r) PROVE ReqOK' /\ Kept
  <2>1. ReqOK' /\ KeepsRevoking(Users)
    BY <1>3, EndReq DEF MarkVerified, At
  <2> QED
    BY <1>3, <2>1, SameSessions DEF MarkVerified, StoreOK
<1>4. ASSUME SetPassword(r) PROVE ReqOK' /\ Kept
  <2>1. PICK u \in Users : u = req[r].user /\ At(r, "password")
    BY <1>4, BusyUser DEF SetPassword, At
  <2>2. ASSUME Live(u) PROVE ReqOK' /\ Kept
    <3>1. Fits([req[r] EXCEPT !.stage = "revoke"])
      BY <2>1, BusyUser DEF At, Fits, RequestType
    <3>2. ReqOK' /\ KeepsRevoking(Users) /\ Revoking(u)'
      BY <1>4, <2>1, <2>2, <3>1, ContinueReq DEF SetPassword, At, Stages
    <3> QED
      BY <1>4, <2>1, <2>2, <3>2, OneChange DEF SetPassword, StoreOK
  <2>3. ASSUME ~Live(u) PROVE ReqOK' /\ Kept
    <3>1. ReqOK' /\ KeepsRevoking(Users)
      BY <1>4, <2>1, <2>3, EndReq DEF SetPassword, At
    <3> QED
      BY <1>4, <2>1, <2>3, <3>1, SameSessions DEF SetPassword, StoreOK
  <2> QED
    BY <2>2, <2>3
<1> QED
  BY <1>1, <1>2, <1>3, <1>4 DEF TokenStep

LEMMA SessionKeeps ==
  ASSUME ReqOK, StoreOK, RevocationComplete, NEW r \in Requests, SessionStep(r)
  PROVE  ReqOK' /\ Kept
<1> USE DEF Kept
<1>1. ASSUME InsertSession(r) PROVE ReqOK' /\ Kept
  <2>1. ReqOK' /\ KeepsRevoking(Users)
    BY <1>1, EndReq DEF InsertSession, At
  <2>2. req[r].user \in Users /\ req[r].no \in 1..MaxStarts
    BY <1>1, BusyUser DEF InsertSession, At
  <2>3. PICK n : /\ n = [id |-> req[r].no, user |-> req[r].user,
                         since |-> changes[req[r].user]]
                 /\ authSessions' = authSessions \union {n}
    BY <1>1 DEF InsertSession
  <2>4. /\ n \in [id : 1..MaxStarts, user : Users, since : Nat]
        /\ n.since = changes[n.user]
    BY <2>2, <2>3 DEF StoreOK
  <2>5. StoreOK' /\ UNCHANGED <<changes, owed>>
    BY <1>1, <2>3, <2>4 DEF InsertSession, StoreOK, userVars
  <2>6. ASSUME NEW s \in authSessions', Outdated(s)'
        PROVE  Revoking(s.user)' \/ s.user \in owed'
    <3>1. s # n
      BY <2>4, <2>5, <2>6 DEF Outdated, StoreOK
    <3>2. s \in authSessions /\ Outdated(s) /\ s.user \in Users
      BY <2>3, <2>5, <2>6, <3>1 DEF Outdated, StoreOK
    <3> QED
      BY <2>1, <2>5, <3>2 DEF RevocationComplete, KeepsRevoking
  <2> QED
    BY <2>1, <2>5, <2>6 DEF RevocationComplete
<1>2. ASSUME ReadSessionUser(r) PROVE ReqOK' /\ Kept
  <2>1. At(r, "resolve") /\ req[r].to \in {"others", "erase"} /\ req[r] \in RequestType
    BY <1>2, BusyUser DEF ReadSessionUser, At, Fits
  <2>2. Fits([req[r] EXCEPT !.stage = req[r].to])
    BY <2>1, BusyUser DEF At, Fits, RequestType
  <2>3. ReqOK' /\ KeepsRevoking(Users)
    <3>1. CASE Continue(r, req[r].to)
      BY <2>1, <2>2, <3>1, ContinueReq DEF At, Stages
    <3>2. CASE End(r)
      BY <2>1, <3>2, EndReq DEF At
    <3> QED
      BY <1>2, <3>1, <3>2 DEF ReadSessionUser
  <2> QED
    BY <1>2, <2>3, SameSessions DEF ReadSessionUser, StoreOK, userVars
<1>3. ASSUME RevokeSome(r) PROVE ReqOK' /\ Kept
  <2>1. ReqOK' /\ KeepsRevoking(Users)
    BY <1>3, EndReq DEF RevokeSome, At
  <2>2. authSessions' \subseteq authSessions
    BY <1>3 DEF RevokeSome
  <2> QED
    BY <1>3, <2>1, <2>2, SameSessions DEF RevokeSome, StoreOK, userVars
<1>4. ASSUME RevokeAll(r) PROVE ReqOK' /\ Kept
  <2> DEFINE u == req[r].user
  <2>1. ReqOK' /\ KeepsRevoking(Users \ {u})
    BY <1>4, EndReq DEF RevokeAll, At
  <2>2. StoreOK' /\ UNCHANGED changes
    BY <1>4 DEF RevokeAll, StoreOK, userVars
  <2>3. /\ authSessions' = authSessions \ SessionsOf(u)
        /\ owed' = owed \ {u}
    BY <1>4 DEF RevokeAll
  <2>4. ASSUME NEW s \in authSessions', Outdated(s)'
        PROVE  Revoking(s.user)' \/ s.user \in owed'
    <3>1. s \in authSessions /\ s.user \in Users \ {u} /\ Outdated(s)
      BY <2>2, <2>3, <2>4 DEF SessionsOf, StoreOK, Outdated
    <3> QED
      BY <2>1, <2>3, <3>1 DEF RevocationComplete, KeepsRevoking
  <2> QED
    BY <2>1, <2>2, <2>4 DEF RevocationComplete
<1> QED
  BY <1>1, <1>2, <1>3, <1>4 DEF SessionStep

LEMMA EraseKeeps ==
  ASSUME ReqOK, StoreOK, RevocationComplete, NEW r \in Requests, EraseStep(r)
  PROVE  ReqOK' /\ Kept
<1> USE DEF Kept
<1>1. ASSUME EraseSessions(r) PROVE ReqOK' /\ Kept
  <2>1. PICK u \in Users :
          u = req[r].user /\ Fits([req[r] EXCEPT !.stage = "erase_tokens"])
    BY <1>1, BusyUser DEF EraseSessions, At, Fits, RequestType
  <2>2. ReqOK' /\ KeepsRevoking(Users)
    BY <1>1, <2>1, ContinueReq DEF EraseSessions, At, Stages
  <2>3. SessionsOf(u)' = {}
    BY <1>1, <2>1 DEF EraseSessions, SessionsOf
  <2> QED
    BY <1>1, <2>1, <2>2, <2>3, OneChange DEF EraseSessions, StoreOK
<1>2. ASSUME EraseTokens(r) PROVE ReqOK' /\ Kept
  <2>1. Fits([req[r] EXCEPT !.stage = "erase_user"])
    BY <1>2, BusyUser DEF EraseTokens, At, Fits, RequestType
  <2>2. ReqOK' /\ KeepsRevoking(Users)
    BY <1>2, <2>1, ContinueReq DEF EraseTokens, At, Stages
  <2> QED
    BY <1>2, <2>2, SameSessions DEF EraseTokens, StoreOK, userVars
<1>3. ASSUME EraseUser(r) PROVE ReqOK' /\ Kept
  <2>1. ReqOK' /\ KeepsRevoking(Users)
    BY <1>3, EndReq DEF EraseUser, At
  <2> QED
    BY <1>3, <2>1, SameSessions DEF EraseUser, StoreOK
<1> QED
  BY <1>1, <1>2, <1>3 DEF EraseStep

LEMMA AdminKeeps ==
  ASSUME ReqOK, StoreOK, RevocationComplete, NEW r \in Requests, AdminStep(r)
  PROVE  ReqOK' /\ Kept
<1> USE DEF Kept
<1>1. ASSUME At(r, "write_status") \/ At(r, "write_role"),
             users' \in [Users -> [state : {"none", "live", "gone"},
                                   role : {"user", "admin"},
                                   status : {"active", "disabled"},
                                   verified : BOOLEAN]],
             UNCHANGED <<authSessions, tokens, owed>>,
             \/ UNCHANGED changes /\ (Continue(r, "revoke") \/ End(r))
             \/ /\ changes' = [changes EXCEPT ![req[r].user] = @ + 1]
                /\ Continue(r, "revoke")
      PROVE  ReqOK' /\ Kept
  <2>1. PICK u \in Users :
          u = req[r].user /\ Fits([req[r] EXCEPT !.stage = "revoke"])
    BY <1>1, BusyUser DEF At, Fits, RequestType
  <2>2. ASSUME Continue(r, "revoke")
        PROVE  ReqOK' /\ KeepsRevoking(Users) /\ Revoking(u)'
    BY <1>1, <2>1, <2>2, ContinueReq DEF At, Stages
  <2>3. ASSUME End(r) PROVE ReqOK' /\ KeepsRevoking(Users)
    BY <1>1, <2>3, EndReq DEF At
  <2>4. CASE UNCHANGED changes /\ (Continue(r, "revoke") \/ End(r))
    BY <1>1, <2>2, <2>3, <2>4, SameSessions DEF StoreOK
  <2>5. CASE /\ changes' = [changes EXCEPT ![req[r].user] = @ + 1]
             /\ Continue(r, "revoke")
    BY <1>1, <2>1, <2>2, <2>5, OneChange DEF StoreOK
  <2> QED
    BY <1>1, <2>4, <2>5
<1>2. ASSUME WriteStatus(r) PROVE ReqOK' /\ Kept
  <2>1. req[r].to \in {"active", "disabled"}
    BY <1>2, BusyUser DEF WriteStatus, At, Fits
  <2>2. users' \in [Users -> [state : {"none", "live", "gone"},
                              role : {"user", "admin"},
                              status : {"active", "disabled"}, verified : BOOLEAN]]
    BY <1>2, <2>1 DEF WriteStatus, StoreOK
  <2>3. \/ UNCHANGED changes /\ (Continue(r, "revoke") \/ End(r))
        \/ /\ changes' = [changes EXCEPT ![req[r].user] = @ + 1]
           /\ Continue(r, "revoke")
    BY <1>2 DEF WriteStatus
  <2> QED
    BY <1>1, <1>2, <2>2, <2>3 DEF WriteStatus
<1>3. ASSUME CountAdmins(r) PROVE ReqOK' /\ Kept
  <2>1. Fits([req[r] EXCEPT !.stage = "write_role"])
    BY <1>3, BusyUser DEF CountAdmins, At, Fits, RequestType
  <2>2. ReqOK' /\ KeepsRevoking(Users)
    <3>1. CASE Continue(r, "write_role")
      BY <1>3, <2>1, <3>1, ContinueReq DEF CountAdmins, At, Stages
    <3>2. CASE End(r)
      BY <1>3, <3>2, EndReq DEF CountAdmins, At
    <3> QED
      BY <1>3, <3>1, <3>2 DEF CountAdmins
  <2> QED
    BY <1>3, <2>2, SameSessions DEF CountAdmins, StoreOK, userVars
<1>4. ASSUME WriteRole(r) PROVE ReqOK' /\ Kept
  <2>1. req[r].to \in {"user", "admin"}
    BY <1>4, BusyUser DEF WriteRole, At, Fits
  <2>2. users' \in [Users -> [state : {"none", "live", "gone"},
                              role : {"user", "admin"},
                              status : {"active", "disabled"}, verified : BOOLEAN]]
    BY <1>4, <2>1 DEF WriteRole, StoreOK
  <2>3. \/ UNCHANGED changes /\ (Continue(r, "revoke") \/ End(r))
        \/ /\ changes' = [changes EXCEPT ![req[r].user] = @ + 1]
           /\ Continue(r, "revoke")
    BY <1>4 DEF WriteRole
  <2> QED
    BY <1>1, <1>4, <2>2, <2>3 DEF WriteRole
<1> QED
  BY <1>2, <1>3, <1>4 DEF AdminStep

(* A crash at a revocation leaves its user owed one.                       *)
LEMMA CrashKeeps ==
  ASSUME ReqOK, StoreOK, RevocationComplete, NEW r \in Requests, Crash(r)
  PROVE  ReqOK' /\ Kept
<1> USE DEF Kept
<1>1. /\ ReqOK' /\ KeepsRevoking(Users \ {req[r].user})
      /\ req[r].stage # "revoke" => KeepsRevoking(Users)
  BY EndReq DEF Crash
<1>2. req[r].user \in Users
  BY BusyUser DEF Crash
<1>3. StoreOK' /\ UNCHANGED <<changes, authSessions>>
  BY <1>2 DEF Crash, StoreOK, userVars
<1>4. CASE req[r].stage # "revoke"
  BY <1>1, <1>3, <1>4, SameSessions DEF Crash
<1>5. CASE req[r].stage = "revoke"
  <2>1. owed' = owed \union {req[r].user}
    BY <1>5 DEF Crash
  <2>2. ASSUME NEW s \in authSessions', Outdated(s)'
        PROVE  Revoking(s.user)' \/ s.user \in owed'
    <3>1. s \in authSessions /\ s.user \in Users /\ Outdated(s)
      BY <1>3, <2>2 DEF StoreOK, Outdated
    <3> QED
      BY <1>1, <2>1, <3>1 DEF RevocationComplete, KeepsRevoking
  <2> QED
    BY <1>1, <1>3, <2>2 DEF RevocationComplete
<1> QED
  BY <1>4, <1>5

-----------------------------------------------------------------------------
(* The inductive invariant is the type invariant and the property itself.  *)
IInv == TypeOK /\ RevocationComplete

LEMMA InitIInv == Init => IInv
<1> SUFFICES ASSUME Init PROVE IInv
  OBVIOUS
<1>1. Idle \in RequestType /\ Fits(Idle)
  BY MaxStartsAssumption, NoUserAssumption
  DEF Idle, RequestType, Fits, Stages, Targets
<1>2. ReqOK
  BY <1>1, MaxStartsAssumption DEF Init, ReqOK
<1>3. StoreOK
  <2>1. {NoAccount, Account("user"), Account("admin")} \subseteq
          [state : {"none", "live", "gone"}, role : {"user", "admin"},
           status : {"active", "disabled"}, verified : BOOLEAN]
    BY DEF NoAccount, Account
  <2> QED
    BY <2>1 DEF Init, StoreOK
<1>4. RevocationComplete
  BY DEF Init, RevocationComplete
<1> QED
  BY <1>2, <1>3, <1>4, TypeParts DEF IInv

LEMMA NextIInv == IInv /\ [Next]_vars => IInv'
<1> SUFFICES ASSUME IInv, [Next]_vars PROVE IInv'
  OBVIOUS
<1>1. ReqOK /\ StoreOK /\ RevocationComplete
  BY TypeParts DEF IInv
<1>2. ASSUME NEW r \in Requests,
             \/ Start(r) \/ TokenStep(r) \/ SessionStep(r)
             \/ EraseStep(r) \/ AdminStep(r) \/ Crash(r)
      PROVE  ReqOK' /\ Kept
  BY <1>1, <1>2, StartStep, TokenKeeps, SessionKeeps, EraseKeeps, AdminKeeps,
     CrashKeeps
<1>3. ASSUME NEW s \in authSessions, Logout(s) PROVE ReqOK' /\ Kept
  BY <1>1, <1>3, SameSessions
  DEF Logout, userVars, ReqOK, StoreOK, Kept, Fits, KeepsRevoking, Revoking
<1>4. ASSUME UNCHANGED vars PROVE ReqOK' /\ Kept
  BY <1>1, <1>4
  DEF vars, ReqOK, StoreOK, Kept, Fits, RevocationComplete, Outdated, Revoking
<1>5. ReqOK' /\ Kept
  BY <1>2, <1>3, <1>4 DEF Next
<1> QED
  BY <1>5 DEF IInv, TypeOK, Kept, ReqOK, StoreOK

THEOREM AlwaysIInv == Spec => []IInv
BY InitIInv, NextIInv, PTL DEF Spec

(* Every collection and every request has its type in every reachable      *)
(* state, for any set of users and of concurrent requests.                 *)
THEOREM TypeCorrect == Spec => []TypeOK
<1>1. IInv => TypeOK
  BY DEF IInv
<1> QED
  BY <1>1, AlwaysIInv, PTL

(* Whatever the requests do between a change and its revocation, a session *)
(* older than the change is about to be revoked or was cut off by a crash. *)
THEOREM Revocation == Spec => []RevocationComplete
<1>1. IInv => RevocationComplete
  BY DEF IInv
<1> QED
  BY <1>1, AlwaysIInv, PTL

-----------------------------------------------------------------------------
(* No step touches an account that is gone: an update of a user's document *)
(* matches none, and a registration is of an account that never was.       *)
LEMMA GoneStep ==
  IInv /\ [Next]_vars =>
    [\A u \in Users : users[u].state = "gone" => users'[u] = users[u]]_vars
<1> SUFFICES ASSUME IInv, Next, NEW u \in Users, users[u].state = "gone"
             PROVE  users'[u] = users[u]
  BY DEF vars
<1>1. users[u].state \notin {"none", "live"} /\ ~Live(u)
  BY DEF Live
<1>2. users \in [Users -> [state : {"none", "live", "gone"}, role : {"user", "admin"},
                           status : {"active", "disabled"}, verified : BOOLEAN]]
  BY DEF IInv, TypeOK
<1>3. ASSUME NEW r \in Requests, Start(r) PROVE users'[u] = users[u]
  <2>1. ASSUME NEW v \in Users, Register(r, v) PROVE users'[u] = users[u]
    BY <1>1, <1>2, <2>1 DEF Register
  <2> QED
    BY <1>3, <2>1 DEF Start, Forgot, Login, ReadForRevocation, ReadForStatus,
       ReadForRole, ReadSession, Consume, userVars
<1>4. ASSUME NEW r \in Requests, TokenStep(r) PROVE users'[u] = users[u]
  BY <1>1, <1>2, <1>4
  DEF TokenStep, DeleteTokens, InsertToken, MarkVerified, SetPassword, userVars
<1>5. ASSUME NEW r \in Requests, SessionStep(r) PROVE users'[u] = users[u]
  BY <1>5
  DEF SessionStep, InsertSession, ReadSessionUser, RevokeSome, RevokeAll, userVars
<1>6. ASSUME NEW r \in Requests, EraseStep(r) PROVE users'[u] = users[u]
  BY <1>1, <1>2, <1>6
  DEF EraseStep, EraseSessions, EraseTokens, EraseUser, userVars
<1>7. ASSUME NEW r \in Requests, AdminStep(r) PROVE users'[u] = users[u]
  BY <1>1, <1>2, <1>7
  DEF AdminStep, WriteStatus, CountAdmins, WriteRole, userVars
<1>8. ASSUME NEW r \in Requests, Crash(r) PROVE users'[u] = users[u]
  BY <1>8 DEF Crash, userVars
<1> QED
  BY <1>3, <1>4, <1>5, <1>6, <1>7, <1>8 DEF Next, Logout, userVars

(* Deleting an account is for good, whatever was in flight when it went.   *)
THEOREM GoneForGood == Spec => GoneStaysGone
<1>1. IInv /\ [Next]_vars =>
        [\A u \in Users : users[u].state = "gone" => users'[u] = users[u]]_vars
  BY GoneStep
<1> QED
  BY <1>1, AlwaysIInv, PTL DEF Spec, GoneStaysGone

-----------------------------------------------------------------------------
(* DemoAdmission                                                           *)

Todos == {<<"day">>, <<"minute">>, <<"minute", "day">>}

MinuteHeld(q) == \E t \in 0..MaxNow : <<Category(q), "minute", t>> \in q.held

Progress(q) ==
  /\ q.stage \in {"reserve", "count"} =>
       /\ q.todo \in Todos
       /\ q.path # "protective"
       /\ q.todo = <<"day">> => MinuteHeld(q)
       /\ q.todo = <<"minute">> => q.admin /\ Category(q) # "auth"
  /\ q.stage = "count" => \E t \in 0..MaxNow : q.key = <<Category(q), Head(q.todo), t>>
  /\ q.stage \in {"gate", "body", "app"} /\ q.path # "protective" => Pays(q, Category(q))
  /\ q.stage = "ocr" => Pays(q, "ai")
  /\ q.ocr => /\ q.path = "upload"
              /\ q.stage \in {"reserve", "count", "ocr", "served", "refused"}
  /\ q.stage = "ocr" => q.ocr

Progressed == \A r \in Visits : Progress(visit[r])

UsageType == [Keys -> [there : BOOLEAN, count : Nat, subjects : [Subjects -> Nat]]]

Covered == \A key \in Keys :
  /\ Cardinality(Holders(key)) <= usage[key].count
  /\ usage[key].count <= Cap(Total, key)
  /\ \A s \in Subjects : /\ Cardinality(HoldersOf(key, s)) <= usage[key].subjects[s]
                         /\ usage[key].subjects[s] <= Cap(Own, key)

AdmissionInv == DemoTypeOK /\ Progressed /\ Counted /\ Covered

-----------------------------------------------------------------------------
(* Facts about data.                                                       *)
LEMMA TodoFacts ==
  ASSUME NEW todo \in Todos
  PROVE  /\ Head(todo) \in Kinds
         /\ Head(todo) = "day" <=> todo = <<"day">>
         /\ Len(todo) > 1 <=> todo = <<"minute", "day">>
         /\ Tail(todo) = IF todo = <<"minute", "day">> THEN <<"day">> ELSE <<>>
<1>1. CASE todo = <<"day">>
  BY <1>1 DEF Kinds
<1>2. CASE todo = <<"minute">>
  BY <1>2 DEF Kinds
<1>3. CASE todo = <<"minute", "day">>
  BY <1>3 DEF Kinds
<1> QED
  BY <1>1, <1>2, <1>3 DEF Todos

LEMMA DayInRange ==
  ASSUME NEW n \in Nat, NEW d \in Nat \ {0}
  PROVE  n \div d \in 0..n
  OBVIOUS

LEMMA KeyOfType ==
  ASSUME now \in 0..MaxNow, NEW category \in Categories, NEW kind \in Kinds
  PROVE  /\ KeyOf(category, kind) \in Keys
         /\ \E t \in 0..MaxNow : KeyOf(category, kind) = <<category, kind, t>>
<1>1. now \div MinutesPerDay \in 0..MaxNow
  BY DayInRange, NumbersAssumption
<1> QED
  BY <1>1, NumbersAssumption DEF KeyOf, Keys

LEMMA CapType ==
  ASSUME NEW key \in Keys
  PROVE  Cap(Own, key) \in Nat /\ Cap(Total, key) \in Nat
BY LimitsAssumption DEF Cap, Keys

LEMMA CategoryType == ASSUME NEW q PROVE Category(q) \in Categories
BY DEF Category, Categories

(* Sets of requests are finite.                                            *)
LEMMA Finite ==
  ASSUME NEW S \in SUBSET Visits
  PROVE  IsFiniteSet(S) /\ Cardinality(S) \in Nat
BY VisitsAssumption, FS_Subset, FS_CardinalityType

LEMMA Grows ==
  ASSUME NEW S \in SUBSET Visits, NEW T \in SUBSET Visits, NEW r, T \subseteq S \union {r}
  PROVE  Cardinality(T) <= Cardinality(S) + 1
<1>1. IsFiniteSet(S) /\ Cardinality(S) \in Nat /\ Cardinality(T) \in Nat
  BY Finite
<1>2. /\ IsFiniteSet(S \union {r})
      /\ Cardinality(S \union {r}) <= Cardinality(S) + 1
      /\ Cardinality(S \union {r}) \in Nat
  <2>1. /\ IsFiniteSet(S \union {r})
        /\ Cardinality(S \union {r}) = IF r \in S THEN Cardinality(S) ELSE Cardinality(S) + 1
    BY <1>1, FS_AddElement
  <2> QED
    BY <1>1, <2>1
<1>3. Cardinality(T) <= Cardinality(S \union {r})
  BY <1>2, FS_Subset
<1> QED
  BY <1>1, <1>2, <1>3

-----------------------------------------------------------------------------
(* One request moves.                                                      *)
Moves(r, q) == visit' = [visit EXCEPT ![r] = q]

LEMMA OneRequest ==
  ASSUME visit \in [Visits -> VisitType], NEW r \in Visits, NEW q,
         Moves(r, q), q \in VisitType
  PROVE  /\ visit' \in [Visits -> VisitType]
         /\ visit'[r] = q
         /\ \A x \in Visits \ {r} : visit'[x] = visit[x]
         /\ Progressed /\ Progress(q) => Progressed'
<1>1. /\ visit' \in [Visits -> VisitType]
      /\ visit'[r] = q
      /\ \A x \in Visits \ {r} : visit'[x] = visit[x]
  BY DEF Moves
<1>2. ASSUME Progressed, Progress(q) PROVE Progressed'
  <2> SUFFICES ASSUME NEW x \in Visits PROVE Progress(visit'[x])
    BY DEF Progressed
  <2> QED
    BY <1>1, <1>2 DEF Progressed
<1> QED
  BY <1>1, <1>2

(* Its slot stays as it is, *)
LEMMA SlotStays ==
  ASSUME Counted, NEW r \in Visits,
         \A x \in Visits \ {r} : visit'[x] = visit[x],
         visit'[r].process = visit[r].process,
         Occupies(visit'[r]) = Occupies(visit[r]),
         UNCHANGED active
  PROVE  Counted'
<1>1. \A p \in Processes : Occupants(p)' = Occupants(p)
  <2> SUFFICES ASSUME NEW p \in Processes, NEW x \in Visits
               PROVE  visit'[x].process = p /\ Occupies(visit'[x])
                        <=> visit[x].process = p /\ Occupies(visit[x])
    BY DEF Occupants
  <2> QED
    OBVIOUS
<1> QED
  BY <1>1 DEF Counted

(* or is given back, *)
LEMMA SlotReleased ==
  ASSUME DemoTypeOK, Counted, NEW r \in Visits, Release(r),
         \A x \in Visits \ {r} : visit'[x] = visit[x],
         visit'[r].process = visit[r].process,
         ~Occupies(visit'[r])
  PROVE  Counted' /\ active' \in [Processes -> 0..MaxBodies]
<1> DEFINE home == visit[r].process
<1>1. home \in Processes
  BY DEF DemoTypeOK, VisitType
<1>2. CASE ~Occupies(visit[r])
  <2>1. UNCHANGED active
    BY <1>2 DEF Release
  <2>2. Occupies(visit'[r]) = Occupies(visit[r])
    BY <1>2 DEF Occupies
  <2> QED
    BY <2>1, <2>2, SlotStays DEF DemoTypeOK
<1>3. CASE Occupies(visit[r])
  <2>1. active' = [active EXCEPT ![home] = @ - 1]
    BY <1>3 DEF Release
  <2>2. r \in Occupants(home)
    BY <1>3 DEF Occupants
  <2>3. Occupants(home)' = Occupants(home) \ {r}
    BY DEF Occupants
  <2>4. \A p \in Processes \ {home} : Occupants(p)' = Occupants(p)
    <3> SUFFICES ASSUME NEW p \in Processes \ {home}, NEW x \in Visits
                 PROVE  visit'[x].process = p /\ Occupies(visit'[x])
                          <=> visit[x].process = p /\ Occupies(visit[x])
      BY DEF Occupants
    <3> QED
      OBVIOUS
  <2>5. /\ IsFiniteSet(Occupants(home))
        /\ Cardinality(Occupants(home)) \in Nat
        /\ Cardinality(Occupants(home)') \in Nat
    BY <2>3, Finite DEF Occupants
  <2>6. Cardinality(Occupants(home)') = Cardinality(Occupants(home)) - 1
    BY <2>2, <2>3, <2>5, FS_RemoveElement
  <2>7. active[home] = Cardinality(Occupants(home))
    BY <1>1 DEF Counted
  <2>8. active' \in [Processes -> 0..MaxBodies]
    <3>1. active[home] \in 0..MaxBodies /\ active[home] - 1 \in Nat
      BY <1>1, <2>5, <2>6, <2>7 DEF DemoTypeOK
    <3>2. active[home] - 1 \in 0..MaxBodies
      BY <3>1, NumbersAssumption
    <3> QED
      BY <2>1, <3>2 DEF DemoTypeOK
  <2>9. \A p \in Processes : active'[p] = Cardinality(Occupants(p)')
    BY <1>1, <2>1, <2>4, <2>6, <2>7 DEF DemoTypeOK, Counted
  <2> QED
    BY <2>8, <2>9 DEF Counted
<1> QED
  BY <1>2, <1>3

(* or is taken.                                                            *)
LEMMA SlotTaken ==
  ASSUME DemoTypeOK, Counted, NEW r \in Visits,
         active[visit[r].process] < MaxBodies,
         active' = [active EXCEPT ![visit[r].process] = @ + 1],
         \A x \in Visits \ {r} : visit'[x] = visit[x],
         visit'[r].process = visit[r].process,
         ~Occupies(visit[r]), Occupies(visit'[r])
  PROVE  Counted' /\ active' \in [Processes -> 0..MaxBodies]
<1> DEFINE home == visit[r].process
<1>1. home \in Processes /\ active[home] \in 0..MaxBodies
  BY DEF DemoTypeOK, VisitType
<1>2. r \notin Occupants(home)
  BY DEF Occupants
<1>3. Occupants(home)' = Occupants(home) \union {r}
  BY DEF Occupants
<1>4. \A p \in Processes \ {home} : Occupants(p)' = Occupants(p)
  <2> SUFFICES ASSUME NEW p \in Processes \ {home}, NEW x \in Visits
               PROVE  visit'[x].process = p /\ Occupies(visit'[x])
                        <=> visit[x].process = p /\ Occupies(visit[x])
    BY DEF Occupants
  <2> QED
    OBVIOUS
<1>5. IsFiniteSet(Occupants(home))
  BY Finite DEF Occupants
<1>6. Cardinality(Occupants(home)') = Cardinality(Occupants(home)) + 1
  BY <1>2, <1>3, <1>5, FS_AddElement
<1>7. active[home] + 1 \in 0..MaxBodies
  BY <1>1, NumbersAssumption
<1>8. active' \in [Processes -> 0..MaxBodies]
  BY <1>7 DEF DemoTypeOK
<1>9. \A p \in Processes : active'[p] = Cardinality(Occupants(p)')
  BY <1>1, <1>4, <1>6 DEF DemoTypeOK, Counted
<1> QED
  BY <1>8, <1>9 DEF Counted

-----------------------------------------------------------------------------
(* The counters go on covering the holders when neither changes,           *)
SameCounts == \A key \in Keys : /\ usage'[key].count = usage[key].count
                                /\ usage'[key].subjects = usage[key].subjects
SameHeld == \A x \in Visits : /\ visit'[x].held = visit[x].held
                               /\ visit'[x].subject = visit[x].subject

LEMMA CoverStays ==
  ASSUME Covered, SameCounts, SameHeld
  PROVE  Covered'
<1>1. \A key \in Keys : Holders(key)' = Holders(key)
  BY DEF Holders, SameHeld
<1>2. \A key \in Keys, s \in Subjects : HoldersOf(key, s)' = HoldersOf(key, s)
  BY DEF Holders, HoldersOf, SameHeld
<1> QED
  BY <1>1, <1>2 DEF Covered, SameCounts

LEMMA CountRecord ==
  ASSUME NEW old \in [there : BOOLEAN, count : Nat, subjects : [Subjects -> Nat]],
         NEW sub \in [Subjects -> Nat], NEW u, u = [old EXCEPT !.count = @ + 1, !.subjects = sub]
  PROVE  /\ u \in [there : BOOLEAN, count : Nat, subjects : [Subjects -> Nat]]
         /\ u.count = old.count + 1
         /\ u.subjects = sub
<1>1. old.count \in Nat /\ old.count + 1 \in Nat
  OBVIOUS
<1>2. u.count = old.count + 1 /\ u.subjects = sub /\ u.there = old.there
  OBVIOUS
<1>3. u = [there |-> old.there, count |-> old.count + 1, subjects |-> sub]
  OBVIOUS
<1> QED
  BY <1>1, <1>2, <1>3

(* and when an open window is counted, whether or not its request hears.   *)
LEMMA CoverGrows ==
  ASSUME DemoTypeOK, Covered, NEW r \in Visits, NEW key \in Keys,
         Open(key, visit[r].subject), Increment(key, visit[r].subject),
         \A x \in Visits : visit'[x].subject = visit[x].subject,
         \A x \in Visits \ {r} : visit'[x].held = visit[x].held,
         visit'[r].held \subseteq visit[r].held \union {key}
  PROVE  Covered' /\ usage' \in UsageType
<1> DEFINE s == visit[r].subject
<1>1. s \in Subjects
  BY DEF DemoTypeOK, VisitType
<1>2. usage \in UsageType
  BY DEF DemoTypeOK, UsageType
<1>3. /\ usage' \in UsageType
      /\ usage'[key].count = usage[key].count + 1
      /\ usage'[key].subjects = [usage[key].subjects EXCEPT ![s] = @ + 1]
      /\ \A k \in Keys \ {key} : usage'[k] = usage[k]
  <2> DEFINE old == usage[key]
  <2>1. old \in [there : BOOLEAN, count : Nat, subjects : [Subjects -> Nat]]
    BY <1>2 DEF UsageType
  <2>2. PICK sub : sub = [old.subjects EXCEPT ![s] = @ + 1]
    OBVIOUS
  <2>3. sub \in [Subjects -> Nat]
    BY <1>1, <2>1, <2>2
  <2>4. PICK u : u = [old EXCEPT !.count = @ + 1, !.subjects = sub]
    OBVIOUS
  <2>5. /\ u \in [there : BOOLEAN, count : Nat, subjects : [Subjects -> Nat]]
        /\ u.count = old.count + 1
        /\ u.subjects = sub
    <3> HIDE DEF old, s
    <3> QED
      BY ONLY <2>1, <2>3, <2>4, CountRecord
  <2>6. usage' = [usage EXCEPT ![key] = u]
    BY <2>2, <2>4 DEF Increment
  <2> QED
    BY <1>2, <2>2, <2>5, <2>6 DEF UsageType
<1>4. ASSUME NEW k \in Keys \ {key}
      PROVE  /\ Holders(k)' \subseteq Holders(k)
             /\ \A t \in Subjects : HoldersOf(k, t)' \subseteq HoldersOf(k, t)
  BY DEF Holders, HoldersOf
<1>5. /\ Holders(key)' \subseteq Holders(key) \union {r}
      /\ HoldersOf(key, s)' \subseteq HoldersOf(key, s) \union {r}
      /\ \A t \in Subjects \ {s} : HoldersOf(key, t)' \subseteq HoldersOf(key, t)
  BY DEF Holders, HoldersOf
<1>6. \A k \in Keys : /\ Holders(k) \in SUBSET Visits
                      /\ Holders(k)' \in SUBSET Visits
                      /\ \A t \in Subjects : /\ HoldersOf(k, t) \in SUBSET Visits
                                             /\ HoldersOf(k, t)' \in SUBSET Visits
  BY DEF Holders, HoldersOf
<1>7. ASSUME NEW S \in SUBSET Visits, NEW T \in SUBSET Visits, T \subseteq S
      PROVE  Cardinality(T) <= Cardinality(S)
  BY <1>7, Finite, FS_Subset
<1>8. Cap(Own, key) \in Nat /\ Cap(Total, key) \in Nat
  BY CapType
<1>9. ASSUME NEW k \in Keys
      PROVE  /\ Cardinality(Holders(k)') <= usage'[k].count
             /\ usage'[k].count <= Cap(Total, k)
  <2>1. CASE k = key
    <3>1. Cardinality(Holders(key)') <= Cardinality(Holders(key)) + 1
      BY <1>5, <1>6, Grows
    <3>2. Cardinality(Holders(key)') \in Nat /\ Cardinality(Holders(key)) \in Nat
      BY <1>6, Finite
    <3>3. usage[key].count \in Nat
      BY <1>2 DEF UsageType
    <3> QED
      BY <1>3, <1>8, <2>1, <3>1, <3>2, <3>3 DEF Covered, Open
  <2>2. CASE k # key
    <3>1. Cardinality(Holders(k)') <= Cardinality(Holders(k))
      BY <1>4, <1>6, <1>7, <2>2
    <3>2. Cardinality(Holders(k)') \in Nat /\ Cardinality(Holders(k)) \in Nat
      BY <1>6, Finite
    <3>3. usage[k].count \in Nat
      BY <1>2 DEF UsageType
    <3> QED
      BY <1>3, <2>2, <3>1, <3>2, <3>3 DEF Covered
  <2> QED
    BY <2>1, <2>2
<1>10. ASSUME NEW k \in Keys, NEW t \in Subjects
       PROVE  /\ Cardinality(HoldersOf(k, t)') <= usage'[k].subjects[t]
              /\ usage'[k].subjects[t] <= Cap(Own, k)
  <2>1. /\ Cardinality(HoldersOf(k, t)') \in Nat
        /\ Cardinality(HoldersOf(k, t)) \in Nat
        /\ usage[k].subjects \in [Subjects -> Nat]
    BY <1>2, <1>6, Finite DEF UsageType
  <2>2. /\ Cardinality(HoldersOf(k, t)) <= usage[k].subjects[t]
        /\ usage[k].subjects[t] <= Cap(Own, k)
    BY DEF Covered
  <2>3. CASE k = key /\ t = s
    <3>1. Cardinality(HoldersOf(key, s)') <= Cardinality(HoldersOf(key, s)) + 1
      BY <1>1, <1>5, <1>6, Grows
    <3>2. usage'[key].subjects[s] = usage[key].subjects[s] + 1
      BY <1>1, <1>3, <2>1, <2>3
    <3>3. usage[key].subjects[s] < Cap(Own, key)
      BY DEF Open
    <3> QED
      BY <1>8, <2>1, <2>2, <2>3, <3>1, <3>2, <3>3
  <2>4. CASE ~(k = key /\ t = s)
    <3>1. Cardinality(HoldersOf(k, t)') <= Cardinality(HoldersOf(k, t))
      BY <1>4, <1>5, <1>6, <1>7, <2>4
    <3>2. usage'[k].subjects[t] = usage[k].subjects[t]
      BY <1>1, <1>3, <2>1, <2>4
    <3> QED
      BY <2>1, <2>2, <3>1, <3>2
  <2> QED
    BY <2>3, <2>4
<1> QED
  BY <1>3, <1>9, <1>10 DEF Covered

-----------------------------------------------------------------------------
(* Each action keeps the invariant.  Those that only change the stage of a *)
(* request need its new stage to be paid for.                              *)
LEMMA BecomeFacts ==
  ASSUME visit \in [Visits -> VisitType], Progressed, NEW r \in Visits,
         NEW stage \in DemoStages, Become(r, stage)
  PROVE  /\ visit' \in [Visits -> VisitType]
         /\ SameHeld
         /\ visit'[r] = [visit[r] EXCEPT !.stage = stage]
         /\ visit'[r].stage = stage
         /\ visit'[r].process = visit[r].process
         /\ visit'[r].path = visit[r].path
         /\ visit'[r].ocr = visit[r].ocr
         /\ visit'[r].admin = visit[r].admin
         /\ visit'[r].held = visit[r].held
         /\ \A x \in Visits \ {r} : visit'[x] = visit[x]
         /\ Progress(visit'[r]) => Progressed'
<1>1. PICK q : q = [visit[r] EXCEPT !.stage = stage]
  OBVIOUS
<1>2. visit[r] \in VisitType
  OBVIOUS
<1>3. /\ q \in VisitType
      /\ q.stage = stage /\ q.process = visit[r].process /\ q.path = visit[r].path
      /\ q.ocr = visit[r].ocr /\ q.admin = visit[r].admin /\ q.held = visit[r].held
      /\ q.subject = visit[r].subject
  BY <1>1, <1>2 DEF VisitType
<1>4. Moves(r, q)
  BY <1>1 DEF Become, Moves
<1>5. /\ visit' \in [Visits -> VisitType]
      /\ visit'[r] = q
      /\ \A x \in Visits \ {r} : visit'[x] = visit[x]
      /\ Progressed /\ Progress(q) => Progressed'
  BY <1>3, <1>4, OneRequest
<1>6. SameHeld
  BY <1>3, <1>5 DEF SameHeld
<1> QED
  BY <1>1, <1>3, <1>5, <1>6

(* Nothing is owed for a request that has ended.                           *)
LEMMA EndedIsPaid ==
  ASSUME NEW q, q.stage \in {"served", "refused"}, q.ocr => q.path = "upload"
  PROVE  Progress(q) /\ ~Occupies(q)
BY DEF Progress, Occupies

LEMMA EndStep ==
  ASSUME AdmissionInv, NEW r \in Visits, NEW stage \in {"served", "refused"},
         Become(r, stage), Release(r), UNCHANGED now
  PROVE  /\ visit' \in [Visits -> VisitType] /\ active' \in [Processes -> 0..MaxBodies]
         /\ now' \in 0..MaxNow /\ SameHeld /\ Progressed' /\ Counted'
         /\ \A x \in Visits \ {r} : visit'[x] = visit[x]
<1>1. stage \in DemoStages /\ visit \in [Visits -> VisitType] /\ now' \in 0..MaxNow
  BY DEF DemoStages, AdmissionInv, DemoTypeOK
<1>2. /\ visit' \in [Visits -> VisitType]
      /\ SameHeld
      /\ visit'[r].stage = stage
      /\ visit'[r].process = visit[r].process
      /\ visit'[r].path = visit[r].path
      /\ visit'[r].ocr = visit[r].ocr
      /\ \A x \in Visits \ {r} : visit'[x] = visit[x]
      /\ Progress(visit'[r]) => Progressed'
  BY <1>1, BecomeFacts DEF AdmissionInv
<1>3. Progress(visit[r])
  BY DEF AdmissionInv, Progressed
<1>4. visit'[r].ocr => visit'[r].path = "upload"
  BY <1>2, <1>3 DEF Progress
<1>5. Progress(visit'[r]) /\ ~Occupies(visit'[r])
  BY <1>2, <1>4, EndedIsPaid
<1>6. Counted' /\ active' \in [Processes -> 0..MaxBodies]
  BY <1>2, <1>5, SlotReleased DEF AdmissionInv
<1> QED
  BY <1>1, <1>2, <1>5, <1>6

LEMMA QuietEnd ==
  ASSUME AdmissionInv, NEW r \in Visits, NEW stage \in {"served", "refused"},
         Become(r, stage), Release(r), UNCHANGED <<usage, now>>
  PROVE  AdmissionInv'
<1>1. /\ visit' \in [Visits -> VisitType] /\ active' \in [Processes -> 0..MaxBodies]
      /\ now' \in 0..MaxNow /\ SameHeld /\ Progressed' /\ Counted'
  BY EndStep
<1>2. usage' \in UsageType /\ SameCounts
  BY DEF AdmissionInv, DemoTypeOK, UsageType, SameCounts
<1>3. Covered'
  BY <1>1, <1>2, CoverStays DEF AdmissionInv
<1> QED
  BY <1>1, <1>2, <1>3 DEF AdmissionInv, DemoTypeOK, UsageType

LEMMA InsertKeeps ==
  ASSUME DemoTypeOK, NEW key \in Keys, usage' = [usage EXCEPT ![key].there = TRUE]
  PROVE  usage' \in UsageType /\ SameCounts
<1>1. PICK u : u = [usage[key] EXCEPT !.there = TRUE]
  OBVIOUS
<1>2. usage[key] \in [there : BOOLEAN, count : Nat, subjects : [Subjects -> Nat]]
  BY DEF DemoTypeOK
<1>3. /\ u \in [there : BOOLEAN, count : Nat, subjects : [Subjects -> Nat]]
      /\ u.count = usage[key].count /\ u.subjects = usage[key].subjects
  BY <1>1, <1>2
<1>4. usage' = [usage EXCEPT ![key] = u]
  BY <1>1
<1> QED
  BY <1>3, <1>4 DEF DemoTypeOK, UsageType, SameCounts

LEMMA IdentifyStep == ASSUME AdmissionInv, NEW r \in Visits, Identify(r) PROVE AdmissionInv'
<1>1. PICK admin \in BOOLEAN :
        visit' = [visit EXCEPT ![r].admin = admin, ![r].todo = Budgets(visit[r].path, admin),
                           ![r].stage = IF Budgets(visit[r].path, admin) = <<>>
                                        THEN "gate" ELSE "reserve"]
  BY DEF Identify
<1> DEFINE todo == Budgets(visit[r].path, admin)
           stage == IF todo = <<>> THEN "gate" ELSE "reserve"
<1>2. PICK q : q = [visit[r] EXCEPT !.admin = admin, !.todo = todo, !.stage = stage]
  OBVIOUS
<1>3. visit[r] \in VisitType /\ visit[r].path \in Paths /\ Progress(visit[r])
  BY DEF AdmissionInv, DemoTypeOK, VisitType, Progressed
<1>4. /\ todo \in Todos \union {<<>>}
      /\ todo = <<>> <=> visit[r].path = "protective"
      /\ todo # <<"day">>
      /\ todo = <<"minute">> => admin /\ visit[r].path \notin {"auth", "verify"}
  BY DEF Budgets, Todos
<1>5. stage \in {"gate", "reserve"}
  OBVIOUS
<1>6. stage = "gate" <=> visit[r].path = "protective"
  BY <1>4
<1>7. /\ q \in VisitType
      /\ q.stage = stage /\ q.todo = todo /\ q.admin = admin
      /\ q.process = visit[r].process /\ q.path = visit[r].path /\ q.ocr = visit[r].ocr
      /\ q.held = visit[r].held /\ q.subject = visit[r].subject
  <2> HIDE DEF todo, stage
  <2> QED
    BY <1>2, <1>3, <1>4, <1>5 DEF VisitType, DemoStages, Todos
<1>8. visit[r].stage = "identify"
  BY DEF Identify, AtStage
<1>9. ~visit[r].ocr
  BY <1>3, <1>8 DEF Progress
<1>10. Category(q) = "auth" => q.path \in {"auth", "verify"}
  BY <1>7 DEF Category
<1>11. Progress(q)
  <2> HIDE DEF todo, stage
  <2> QED
    BY <1>4, <1>5, <1>6, <1>7, <1>9, <1>10 DEF Progress
<1>12. Moves(r, q)
  BY <1>1, <1>2 DEF Moves
<1>13. /\ visit' \in [Visits -> VisitType]
       /\ visit'[r] = q
       /\ \A x \in Visits \ {r} : visit'[x] = visit[x]
       /\ Progressed'
  BY <1>7, <1>11, <1>12, OneRequest DEF AdmissionInv, DemoTypeOK
<1>14. Occupies(q) = Occupies(visit[r])
  BY <1>5, <1>7, <1>8, <1>9 DEF Occupies
<1>15. Counted'
  BY <1>7, <1>13, <1>14, SlotStays DEF AdmissionInv, Identify
<1>16. SameHeld
  BY <1>7, <1>13 DEF SameHeld
<1>17. SameCounts
  BY DEF SameCounts, Identify
<1> QED
  BY <1>13, <1>15, <1>16, <1>17, CoverStays DEF AdmissionInv, DemoTypeOK, Identify

LEMMA InsertWindowStep == ASSUME AdmissionInv, NEW r \in Visits, InsertWindow(r) PROVE AdmissionInv'
<1> DEFINE key == KeyOf(Category(visit[r]), Head(visit[r].todo))
<1>1. visit[r] \in VisitType /\ visit[r].stage = "reserve" /\ Progress(visit[r])
  BY DEF AdmissionInv, DemoTypeOK, Progressed, InsertWindow, AtStage
<1>2. visit[r].todo \in Todos
  BY <1>1 DEF Progress
<1>3. /\ key \in Keys
      /\ \E t \in 0..MaxNow : key = <<Category(visit[r]), Head(visit[r].todo), t>>
  BY <1>2, TodoFacts, CategoryType, KeyOfType DEF AdmissionInv, DemoTypeOK
<1>4. PICK q : q = [visit[r] EXCEPT !.key = key, !.stage = "count"]
  OBVIOUS
<1>5. /\ q \in VisitType
      /\ q.stage = "count" /\ q.key = key /\ q.todo = visit[r].todo /\ q.admin = visit[r].admin
      /\ q.process = visit[r].process /\ q.path = visit[r].path /\ q.ocr = visit[r].ocr
      /\ q.held = visit[r].held /\ q.subject = visit[r].subject
  <2> HIDE DEF key
  <2> QED
    BY <1>1, <1>3, <1>4 DEF VisitType, DemoStages
<1>6. Category(q) = Category(visit[r])
  BY <1>5 DEF Category
<1>7. Progress(q)
  <2> HIDE DEF key
  <2> QED
    BY <1>1, <1>3, <1>5, <1>6 DEF Progress, MinuteHeld
<1>8. Moves(r, q)
  BY <1>4 DEF Moves, InsertWindow
<1>9. /\ visit' \in [Visits -> VisitType]
      /\ visit'[r] = q
      /\ \A x \in Visits \ {r} : visit'[x] = visit[x]
      /\ Progressed'
  BY <1>5, <1>7, <1>8, OneRequest DEF AdmissionInv, DemoTypeOK
<1>10. Occupies(q) = Occupies(visit[r])
  BY <1>1, <1>5 DEF Occupies
<1>11. Counted'
  BY <1>5, <1>9, <1>10, SlotStays DEF AdmissionInv, InsertWindow
<1>12. SameHeld
  BY <1>5, <1>9 DEF SameHeld
<1>13. usage' \in UsageType /\ SameCounts
  BY <1>3, InsertKeeps DEF AdmissionInv, InsertWindow
<1> QED
  BY <1>9, <1>11, <1>12, <1>13, CoverStays DEF AdmissionInv, DemoTypeOK, UsageType, InsertWindow

(* A request about to count knows its window.                              *)
LEMMA CountingKey ==
  ASSUME AdmissionInv, NEW r \in Visits, visit[r].stage = "count"
  PROVE  /\ visit[r].todo \in Todos
         /\ visit[r].key \in Keys
         /\ \E t \in 0..MaxNow : visit[r].key = <<Category(visit[r]), Head(visit[r].todo), t>>
<1>1. Progress(visit[r])
  BY DEF AdmissionInv, Progressed
<1>2. /\ visit[r].todo \in Todos
      /\ \E t \in 0..MaxNow : visit[r].key = <<Category(visit[r]), Head(visit[r].todo), t>>
  BY <1>1 DEF Progress
<1>3. Head(visit[r].todo) \in Kinds /\ Category(visit[r]) \in Categories
  BY <1>2, TodoFacts, CategoryType
<1> QED
  BY <1>2, <1>3 DEF Keys

LEMMA CountAttemptStep == ASSUME AdmissionInv, NEW r \in Visits, CountAttempt(r) PROVE AdmissionInv'
<1> DEFINE old == visit[r]
           key == old.key
           more == Len(old.todo) > 1
           stage == IF more THEN "reserve" ELSE IF old.ocr THEN "ocr" ELSE "gate"
<1>1. old \in VisitType /\ old.stage = "count" /\ Progress(old)
  BY DEF AdmissionInv, DemoTypeOK, Progressed, CountAttempt, AtStage
<1>2. /\ old.todo \in Todos
      /\ key \in Keys
      /\ \E t \in 0..MaxNow : key = <<Category(old), Head(old.todo), t>>
  BY <1>1, CountingKey
<1>3. /\ more <=> old.todo = <<"minute", "day">>
      /\ Tail(old.todo) = IF more THEN <<"day">> ELSE <<>>
      /\ Head(old.todo) = "day" <=> old.todo = <<"day">>
      /\ Head(old.todo) \in Kinds
  BY <1>2, TodoFacts
<1>4. PICK q : q = [old EXCEPT !.held = @ \union {key}, !.todo = Tail(@), !.stage = stage]
  OBVIOUS
<1>5. /\ q \in VisitType
      /\ q.stage = stage /\ q.todo = Tail(old.todo) /\ q.admin = old.admin
      /\ q.process = old.process /\ q.path = old.path /\ q.ocr = old.ocr
      /\ q.held = old.held \union {key} /\ q.subject = old.subject
  <2>1. stage \in DemoStages /\ Tail(old.todo) \in {<<>>, <<"day">>}
    BY <1>3 DEF DemoStages
  <2> HIDE DEF old, key, more, stage
  <2> QED
    BY <1>1, <1>2, <1>4, <2>1 DEF VisitType
<1>6. Category(q) = Category(old) /\ (q.ocr => Category(q) = "ai")
  <2>1. q.ocr => q.path = "upload"
    BY <1>1, <1>5 DEF Progress
  <2> QED
    BY <1>5, <2>1 DEF Category
<1>7. more => MinuteHeld(q)
  <2>1. more => \E t \in 0..MaxNow : key = <<Category(old), "minute", t>>
    BY <1>2, <1>3 DEF Kinds
  <2> QED
    BY <1>5, <1>6, <2>1 DEF MinuteHeld
<1>8. ~more => Pays(q, Category(q))
  <2> SUFFICES ASSUME ~more PROVE Pays(q, Category(q))
    OBVIOUS
  <2>1. CASE old.todo = <<"day">>
    <3>1. MinuteHeld(old)
      BY <1>1, <2>1 DEF Progress
    <3>2. \E t \in 0..MaxNow : key = <<Category(old), "day", t>>
      BY <1>2, <1>3, <2>1
    <3> QED
      BY <1>5, <1>6, <3>1, <3>2 DEF Pays, MinuteHeld
  <2>2. CASE old.todo = <<"minute">>
    <3>1. old.admin /\ Category(old) # "auth"
      BY <1>1, <2>2 DEF Progress
    <3>2. \E t \in 0..MaxNow : key = <<Category(old), "minute", t>>
      BY <1>2, <2>2
    <3> QED
      BY <1>5, <1>6, <3>1, <3>2 DEF Pays
  <2> QED
    BY <1>2, <1>3, <2>1, <2>2 DEF Todos
<1>9. Progress(q)
  <2>1. old.path # "protective" /\ (old.ocr => old.path = "upload")
    BY <1>1 DEF Progress
  <2>2. CASE more
    <3>1. q.stage = "reserve" /\ q.todo = <<"day">>
      BY <1>3, <1>5, <2>2
    <3>2. <<"day">> # <<"minute">> /\ <<"day">> \in Todos
      BY DEF Todos
    <3>3. q.stage = "reserve" /\ q.todo \in Todos /\ q.todo # <<"minute">>
      BY <3>1, <3>2
    <3>4. MinuteHeld(q) /\ q.path # "protective" /\ (q.ocr => q.path = "upload")
      BY <1>5, <1>7, <2>1, <2>2
    <3> QED
      BY <3>3, <3>4 DEF Progress
  <2>3. CASE ~more
    <3>1. q.stage = IF q.ocr THEN "ocr" ELSE "gate"
      BY <1>5, <2>3
    <3>2. Pays(q, Category(q))
      BY <1>8, <2>3
    <3> QED
      BY <1>5, <1>6, <2>1, <3>1, <3>2 DEF Progress
  <2> QED
    BY <2>2, <2>3
<1>10. Moves(r, q)
  BY <1>4 DEF Moves, CountAttempt
<1>11. /\ visit' \in [Visits -> VisitType]
       /\ visit'[r] = q
       /\ \A x \in Visits \ {r} : visit'[x] = visit[x]
       /\ Progressed'
  BY <1>5, <1>9, <1>10, OneRequest DEF AdmissionInv, DemoTypeOK
<1>12. Occupies(q) = Occupies(old)
  BY <1>1, <1>5 DEF Occupies
<1>13. Counted'
  BY <1>5, <1>11, <1>12, SlotStays DEF AdmissionInv, CountAttempt
<1>14. Covered' /\ usage' \in UsageType
  BY <1>2, <1>5, <1>11, CoverGrows DEF AdmissionInv, CountAttempt
<1> QED
  BY <1>11, <1>13, <1>14 DEF AdmissionInv, DemoTypeOK, UsageType, CountAttempt

LEMMA UnavailableStep == ASSUME AdmissionInv, NEW r \in Visits, Unavailable(r) PROVE AdmissionInv'
<1>1. Become(r, "refused") /\ Release(r) /\ UNCHANGED now
  BY DEF Unavailable
<1>2. /\ visit' \in [Visits -> VisitType] /\ active' \in [Processes -> 0..MaxBodies]
      /\ now' \in 0..MaxNow /\ SameHeld /\ Progressed' /\ Counted'
      /\ \A x \in Visits \ {r} : visit'[x] = visit[x]
  BY <1>1, EndStep
<1>3. CASE UNCHANGED usage
  BY <1>1, <1>3, QuietEnd
<1>4. CASE /\ AtStage(r, "reserve")
           /\ usage' = [usage EXCEPT
                ![KeyOf(Category(visit[r]), Head(visit[r].todo))].there = TRUE]
  <2>1. visit[r].todo \in Todos
    BY <1>4 DEF AdmissionInv, Progressed, Progress, AtStage
  <2>2. KeyOf(Category(visit[r]), Head(visit[r].todo)) \in Keys
    BY <2>1, TodoFacts, CategoryType, KeyOfType DEF AdmissionInv, DemoTypeOK
  <2>3. usage' \in UsageType /\ SameCounts
    BY <1>4, <2>2, InsertKeeps DEF AdmissionInv
  <2> QED
    BY <1>2, <2>3, CoverStays DEF AdmissionInv, DemoTypeOK, UsageType
<1>5. CASE /\ AtStage(r, "count")
           /\ Open(visit[r].key, visit[r].subject)
           /\ Increment(visit[r].key, visit[r].subject)
  <2>1. visit[r].key \in Keys
    BY <1>5, CountingKey DEF AtStage
  <2>2. Covered' /\ usage' \in UsageType
    BY <1>2, <1>5, <2>1, CoverGrows DEF AdmissionInv, SameHeld
  <2> QED
    BY <1>2, <2>2 DEF AdmissionInv, DemoTypeOK, UsageType
<1> QED
  BY <1>3, <1>4, <1>5 DEF Unavailable

(* Past the gate, with a slot or without, nothing more is owed.            *)
LEMMA PassStep ==
  ASSUME AdmissionInv, NEW r \in Visits, visit[r].stage \in {"gate", "body"},
         NEW stage \in {"body", "app"}, Become(r, stage)
  PROVE  /\ visit' \in [Visits -> VisitType] /\ SameHeld /\ Progressed'
         /\ visit'[r].stage = stage /\ visit'[r].process = visit[r].process
         /\ visit'[r].path = visit[r].path /\ visit'[r].ocr = visit[r].ocr
         /\ ~visit[r].ocr
         /\ \A x \in Visits \ {r} : visit'[x] = visit[x]
<1>1. stage \in DemoStages /\ visit \in [Visits -> VisitType] /\ Progress(visit[r])
  BY DEF DemoStages, AdmissionInv, DemoTypeOK, Progressed
<1>2. /\ visit' \in [Visits -> VisitType]
      /\ SameHeld
      /\ visit'[r].stage = stage
      /\ visit'[r].process = visit[r].process
      /\ visit'[r].path = visit[r].path
      /\ visit'[r].ocr = visit[r].ocr
      /\ visit'[r].admin = visit[r].admin
      /\ visit'[r].held = visit[r].held
      /\ \A x \in Visits \ {r} : visit'[x] = visit[x]
      /\ Progress(visit'[r]) => Progressed'
  BY <1>1, BecomeFacts DEF AdmissionInv
<1>3. ~visit[r].ocr /\ (visit[r].path # "protective" => Pays(visit[r], Category(visit[r])))
  BY <1>1 DEF Progress
<1>4. Category(visit'[r]) = Category(visit[r])
  BY <1>2 DEF Category
<1>5. visit'[r].path # "protective" => Pays(visit'[r], Category(visit'[r]))
  BY <1>2, <1>3, <1>4 DEF Pays
<1>6. Progress(visit'[r])
  BY <1>2, <1>3, <1>5 DEF Progress
<1> QED
  BY <1>2, <1>3, <1>6

LEMMA SameUsage ==
  ASSUME AdmissionInv, UNCHANGED usage, SameHeld
  PROVE  usage' \in UsageType /\ Covered'
<1>1. usage' \in UsageType /\ SameCounts
  BY DEF AdmissionInv, DemoTypeOK, UsageType, SameCounts
<1> QED
  BY <1>1, CoverStays DEF AdmissionInv

LEMMA AdmitStep == ASSUME AdmissionInv, NEW r \in Visits, Admit(r) PROVE AdmissionInv'
<1>1. visit[r].stage = "gate" /\ UNCHANGED <<usage, now>> /\ now' \in 0..MaxNow
  BY DEF Admit, AtStage, AdmissionInv, DemoTypeOK
<1>2. CASE visit[r].path = "verify" /\ Become(r, "app") /\ UNCHANGED active
  <2>1. /\ visit' \in [Visits -> VisitType] /\ SameHeld /\ Progressed'
        /\ visit'[r].stage = "app" /\ visit'[r].process = visit[r].process
        /\ visit'[r].path = visit[r].path
        /\ \A x \in Visits \ {r} : visit'[x] = visit[x]
    BY <1>1, <1>2, PassStep
  <2>2. Occupies(visit'[r]) = Occupies(visit[r])
    BY <1>2, <2>1 DEF Occupies
  <2>3. Counted'
    BY <1>2, <2>1, <2>2, SlotStays DEF AdmissionInv
  <2> QED
    BY <1>1, <1>2, <2>1, <2>3, SameUsage DEF AdmissionInv, DemoTypeOK, UsageType
<1>3. CASE /\ visit[r].path # "verify" /\ active[visit[r].process] < MaxBodies
           /\ Become(r, "body")
           /\ active' = [active EXCEPT ![visit[r].process] = @ + 1]
  <2>1. /\ visit' \in [Visits -> VisitType] /\ SameHeld /\ Progressed'
        /\ visit'[r].stage = "body" /\ visit'[r].process = visit[r].process
        /\ visit'[r].path = visit[r].path /\ ~visit[r].ocr
        /\ \A x \in Visits \ {r} : visit'[x] = visit[x]
    BY <1>1, <1>3, PassStep
  <2>2. Occupies(visit'[r]) /\ ~Occupies(visit[r])
    BY <1>1, <1>3, <2>1 DEF Occupies
  <2>3. Counted' /\ active' \in [Processes -> 0..MaxBodies]
    BY <1>3, <2>1, <2>2, SlotTaken DEF AdmissionInv
  <2> QED
    BY <1>1, <2>1, <2>3, SameUsage DEF AdmissionInv, DemoTypeOK, UsageType
<1>4. CASE Become(r, "refused") /\ UNCHANGED active
  <2>1. ~visit[r].ocr
    BY <1>1 DEF AdmissionInv, Progressed, Progress
  <2>2. Release(r)
    BY <1>1, <1>4, <2>1 DEF Release, Occupies
  <2> QED
    BY <1>1, <1>4, <2>2, QuietEnd
<1> QED
  BY <1>2, <1>3, <1>4 DEF Admit

LEMMA ReadBodyStep == ASSUME AdmissionInv, NEW r \in Visits, ReadBody(r) PROVE AdmissionInv'
<1>1. visit[r].stage = "body" /\ Become(r, "app") /\ UNCHANGED <<usage, active, now>>
  BY DEF ReadBody, AtStage
<1>2. /\ visit' \in [Visits -> VisitType] /\ SameHeld /\ Progressed'
      /\ visit'[r].stage = "app" /\ visit'[r].process = visit[r].process
      /\ visit'[r].path = visit[r].path
      /\ \A x \in Visits \ {r} : visit'[x] = visit[x]
  BY <1>1, PassStep
<1>3. Occupies(visit'[r]) = Occupies(visit[r])
  BY <1>1, <1>2 DEF Occupies
<1>4. Counted'
  BY <1>1, <1>2, <1>3, SlotStays DEF AdmissionInv
<1> QED
  BY <1>1, <1>2, <1>4, SameUsage DEF AdmissionInv, DemoTypeOK, UsageType

LEMMA StartOcrStep == ASSUME AdmissionInv, NEW r \in Visits, StartOcr(r) PROVE AdmissionInv'
<1>1. PICK admin \in BOOLEAN :
        visit' = [visit EXCEPT ![r].stage = "reserve", ![r].ocr = TRUE,
                           ![r].admin = admin, ![r].todo = Budgets("ai", admin)]
  BY DEF StartOcr
<1>2. PICK todo : todo = Budgets("ai", admin)
  OBVIOUS
<1>3. /\ todo \in Todos /\ todo # <<"day">>
      /\ todo = <<"minute">> => admin
  BY <1>2 DEF Budgets, Todos
<1>4. PICK q : q = [visit[r] EXCEPT !.stage = "reserve", !.ocr = TRUE,
                                  !.admin = admin, !.todo = todo]
  OBVIOUS
<1>5. visit[r] \in VisitType /\ visit[r].stage = "app" /\ visit[r].path = "upload"
  BY DEF AdmissionInv, DemoTypeOK, StartOcr, AtStage
<1>6. /\ q \in VisitType
      /\ q.stage = "reserve" /\ q.ocr /\ q.admin = admin /\ q.todo = todo
      /\ q.process = visit[r].process /\ q.path = visit[r].path
      /\ q.held = visit[r].held /\ q.subject = visit[r].subject
  BY <1>3, <1>4, <1>5 DEF VisitType, DemoStages, Todos
<1>7. Category(q) # "auth"
  BY <1>5, <1>6 DEF Category
<1>8. Progress(q)
  BY <1>3, <1>5, <1>6, <1>7 DEF Progress
<1>9. Moves(r, q)
  BY <1>1, <1>2, <1>4 DEF Moves
<1>10. /\ visit' \in [Visits -> VisitType]
       /\ visit'[r] = q
       /\ \A x \in Visits \ {r} : visit'[x] = visit[x]
       /\ Progressed'
  BY <1>6, <1>8, <1>9, OneRequest DEF AdmissionInv, DemoTypeOK
<1>11. Occupies(q) = Occupies(visit[r])
  BY <1>5, <1>6 DEF Occupies
<1>12. Counted'
  BY <1>6, <1>10, <1>11, SlotStays DEF AdmissionInv, StartOcr
<1>13. SameHeld
  BY <1>6, <1>10 DEF SameHeld
<1> QED
  BY <1>10, <1>12, <1>13, SameUsage DEF AdmissionInv, DemoTypeOK, UsageType, StartOcr

LEMMA RestartStep == ASSUME AdmissionInv, NEW p \in Processes, Restart(p) PROVE AdmissionInv'
<1> DEFINE dies(x) == visit[x].process = p /\ visit[x].stage \notin {"identify", "served"}
<1>1. \A x \in Visits : visit[x] \in VisitType /\ Progress(visit[x])
  BY DEF AdmissionInv, DemoTypeOK, Progressed
<1>2. ASSUME NEW x \in Visits
      PROVE  /\ visit'[x] \in VisitType /\ Progress(visit'[x])
             /\ visit'[x].process = visit[x].process
             /\ visit'[x].held = visit[x].held /\ visit'[x].subject = visit[x].subject
             /\ dies(x) => ~Occupies(visit'[x])
             /\ ~dies(x) => visit'[x] = visit[x]
  <2>1. CASE ~dies(x)
    BY <1>1, <2>1 DEF Restart
  <2>2. CASE dies(x)
    <3>1. PICK q : q = [visit[x] EXCEPT !.stage = "refused"]
      OBVIOUS
    <3>2. visit'[x] = q
      BY <2>2, <3>1 DEF Restart
    <3>3. /\ q \in VisitType /\ q.stage = "refused" /\ q.process = visit[x].process
          /\ q.held = visit[x].held /\ q.subject = visit[x].subject
          /\ q.ocr = visit[x].ocr /\ q.path = visit[x].path
      BY <1>1, <3>1 DEF VisitType, DemoStages
    <3>4. q.ocr => q.path = "upload"
      BY <1>1, <3>3 DEF Progress
    <3>5. Progress(q) /\ ~Occupies(q)
      BY <3>3, <3>4, EndedIsPaid
    <3> QED
      BY <2>2, <3>2, <3>3, <3>5
  <2> QED
    BY <2>1, <2>2
<1>3. visit' \in [Visits -> VisitType]
  <2>1. \A x \in Visits : visit'[x] \in VisitType
    BY <1>2
  <2> QED
    BY <2>1 DEF Restart
<1>4. Progressed' /\ SameHeld
  BY <1>2 DEF Progressed, SameHeld
<1>5. Occupants(p)' = {}
  <2> SUFFICES ASSUME NEW x \in Visits, visit'[x].process = p, Occupies(visit'[x])
               PROVE  FALSE
    BY DEF Occupants
  <2>1. visit[x].process = p /\ ~dies(x) /\ visit'[x] = visit[x]
    BY <1>2
  <2>2. visit[x].stage \in {"identify", "served"} /\ Occupies(visit[x])
    BY <2>1
  <2> QED
    BY <2>2 DEF Occupies
<1>6. \A o \in Processes \ {p} : Occupants(o)' = Occupants(o)
  <2> SUFFICES ASSUME NEW o \in Processes \ {p}, NEW x \in Visits
               PROVE  visit'[x].process = o /\ Occupies(visit'[x])
                        <=> visit[x].process = o /\ Occupies(visit[x])
    BY DEF Occupants
  <2>1. CASE visit[x].process = o
    <3>1. visit'[x] = visit[x]
      BY <1>2, <2>1
    <3> QED
      BY <3>1
  <2>2. CASE visit[x].process # o
    BY <1>2, <2>2
  <2> QED
    BY <2>1, <2>2
<1>7. active' = [active EXCEPT ![p] = 0]
  BY DEF Restart
<1>8. active' \in [Processes -> 0..MaxBodies]
  <2>1. 0 \in 0..MaxBodies
    BY NumbersAssumption
  <2> QED
    BY <1>7, <2>1 DEF AdmissionInv, DemoTypeOK
<1>9. Counted'
  <2>1. \A o \in Processes : active'[o] = Cardinality(Occupants(o)')
    BY <1>5, <1>6, <1>7, FS_EmptySet DEF AdmissionInv, DemoTypeOK, Counted
  <2> QED
    BY <2>1 DEF Counted
<1> QED
  BY <1>3, <1>4, <1>8, <1>9, SameUsage DEF AdmissionInv, DemoTypeOK, UsageType, Restart

(* Neither time nor a stutter concerns anybody's slot or payment.          *)
LEMMA StillStep ==
  ASSUME AdmissionInv, UNCHANGED <<usage, active, visit>>, now' \in 0..MaxNow
  PROVE  AdmissionInv'
<1>1. Progressed' /\ SameHeld
  BY DEF AdmissionInv, Progressed, SameHeld
<1>2. Counted'
  BY DEF AdmissionInv, Counted, Occupants
<1> QED
  BY <1>1, <1>2, SameUsage DEF AdmissionInv, DemoTypeOK, UsageType

-----------------------------------------------------------------------------
LEMMA InitHolds == DemoInit => AdmissionInv
<1> SUFFICES ASSUME DemoInit PROVE AdmissionInv
  OBVIOUS
<1>1. usage \in UsageType /\ now \in 0..MaxNow /\ active \in [Processes -> 0..MaxBodies]
  BY NumbersAssumption DEF DemoInit, UsageType
<1>2. ASSUME NEW r \in Visits
      PROVE  /\ visit[r] \in VisitType /\ visit[r].stage = "identify"
             /\ ~visit[r].ocr /\ visit[r].held = {}
  BY DEF DemoInit, VisitType, DemoStages
<1>3. visit \in [Visits -> VisitType]
  <2>1. \A r \in Visits : visit[r] \in VisitType
    BY <1>2
  <2> QED
    BY <2>1 DEF DemoInit
<1>4. Progressed
  <2> SUFFICES ASSUME NEW r \in Visits PROVE Progress(visit[r])
    BY DEF Progressed
  <2> QED
    BY <1>2 DEF Progress
<1>5. Counted
  <2>1. \A p \in Processes : Occupants(p) = {}
    BY <1>2 DEF Occupants, Occupies
  <2> QED
    BY <2>1, FS_EmptySet DEF Counted, DemoInit
<1>6. Covered
  <2> SUFFICES ASSUME NEW key \in Keys
               PROVE  /\ Cardinality(Holders(key)) <= usage[key].count
                      /\ usage[key].count <= Cap(Total, key)
                      /\ \A s \in Subjects :
                           /\ Cardinality(HoldersOf(key, s)) <= usage[key].subjects[s]
                           /\ usage[key].subjects[s] <= Cap(Own, key)
    BY DEF Covered
  <2>1. Holders(key) = {} /\ \A s \in Subjects : HoldersOf(key, s) = {}
    BY <1>2 DEF Holders, HoldersOf
  <2>2. usage[key].count = 0 /\ \A s \in Subjects : usage[key].subjects[s] = 0
    BY DEF DemoInit
  <2> QED
    BY <2>1, <2>2, CapType, FS_EmptySet
<1> QED
  BY <1>1, <1>3, <1>4, <1>5, <1>6 DEF AdmissionInv, DemoTypeOK, UsageType

LEMMA StepKeeps == AdmissionInv /\ [DemoNext]_demoVars => AdmissionInv'
<1> SUFFICES ASSUME AdmissionInv, [DemoNext]_demoVars PROVE AdmissionInv'
  OBVIOUS
<1>1. ASSUME NEW r \in Visits, RequestStep(r) PROVE AdmissionInv'
  <2>1. CASE Identify(r)
    BY <2>1, IdentifyStep
  <2>2. CASE InsertWindow(r)
    BY <2>2, InsertWindowStep
  <2>3. CASE CountAttempt(r)
    BY <2>3, CountAttemptStep
  <2>4. CASE OverQuota(r)
    BY <2>4, QuietEnd DEF OverQuota
  <2>5. CASE Unavailable(r)
    BY <2>5, UnavailableStep
  <2>6. CASE Admit(r)
    BY <2>6, AdmitStep
  <2>7. CASE ReadBody(r)
    BY <2>7, ReadBodyStep
  <2>8. CASE BodyFails(r)
    BY <2>8, QuietEnd DEF BodyFails
  <2>9. CASE StartOcr(r)
    BY <2>9, StartOcrStep
  <2>10. CASE Finish(r)
    BY <2>10, QuietEnd DEF Finish
  <2> QED
    BY <1>1, <2>1, <2>2, <2>3, <2>4, <2>5, <2>6, <2>7, <2>8, <2>9, <2>10 DEF RequestStep
<1>2. ASSUME NEW p \in Processes, Restart(p) PROVE AdmissionInv'
  BY <1>2, RestartStep
<1>3. CASE Tick
  <2>1. now' \in 0..MaxNow /\ UNCHANGED <<usage, active, visit>>
    BY <1>3, NumbersAssumption DEF Tick, AdmissionInv, DemoTypeOK
  <2> QED
    BY <2>1, StillStep
<1>4. CASE UNCHANGED demoVars
  <2>1. now' \in 0..MaxNow /\ UNCHANGED <<usage, active, visit>>
    BY <1>4 DEF demoVars, AdmissionInv, DemoTypeOK
  <2> QED
    BY <2>1, StillStep
<1> QED
  BY <1>1, <1>2, <1>3, <1>4 DEF DemoNext

LEMMA Inductive == DemoSpec => []AdmissionInv
BY InitHolds, StepKeeps, PTL DEF DemoSpec

(* Every variable of DemoAdmission keeps its type, and no process ever     *)
(* serves more bodies than its limit.                                      *)
THEOREM AdmissionTypeCorrect == DemoSpec => []DemoTypeOK
<1>1. AdmissionInv => DemoTypeOK
  BY DEF AdmissionInv
<1> QED
  BY <1>1, Inductive, PTL

(* active_bodies counts exactly the requests that occupy a slot.           *)
THEOREM NoSlotLeaks == DemoSpec => []SlotsCounted
<1>1. AdmissionInv => SlotsCounted
  BY DEF AdmissionInv, DemoTypeOK, Counted, SlotsCounted
<1> QED
  BY <1>1, Inductive, PTL

(* No window admits more than its limits: the conditional update keeps the *)
(* counter within them, and the counter covers every request that holds    *)
(* the window.                                                             *)
THEOREM Quotas == DemoSpec => []QuotaKept
<1>1. AdmissionInv => QuotaKept
  <2> SUFFICES ASSUME AdmissionInv, NEW key \in Keys
               PROVE  /\ Cardinality(Holders(key)) <= Cap(Total, key)
                      /\ \A s \in Subjects :
                           Cardinality(HoldersOf(key, s)) <= Cap(Own, key)
    BY DEF QuotaKept
  <2>1. /\ Cardinality(Holders(key)) <= usage[key].count
        /\ usage[key].count <= Cap(Total, key)
        /\ \A s \in Subjects : /\ Cardinality(HoldersOf(key, s)) <= usage[key].subjects[s]
                               /\ usage[key].subjects[s] <= Cap(Own, key)
    BY DEF AdmissionInv, Covered
  <2>2. /\ usage[key].count \in Nat
        /\ \A s \in Subjects : usage[key].subjects[s] \in Nat
    BY DEF AdmissionInv, DemoTypeOK
  <2>3. Cap(Own, key) \in Nat /\ Cap(Total, key) \in Nat
    BY CapType
  <2>4. /\ Cardinality(Holders(key)) \in Nat
        /\ \A s \in Subjects : Cardinality(HoldersOf(key, s)) \in Nat
    BY Finite DEF Holders, HoldersOf
  <2> QED
    BY <2>1, <2>2, <2>3, <2>4
<1> QED
  BY <1>1, Inductive, PTL

(* Nothing passes the gate, and no OCR starts, that has not paid.          *)
THEOREM PaidFor == DemoSpec => []WorkIsPaid
<1>1. AdmissionInv => WorkIsPaid
  BY DEF AdmissionInv, Progressed, Progress, WorkIsPaid
<1> QED
  BY <1>1, Inductive, PTL
=============================================================================
