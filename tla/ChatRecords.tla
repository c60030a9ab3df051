----------------------------- MODULE ChatRecords -----------------------------
(***************************************************************************)
(* What becomes of the rows of a chat: app/database.py under the session,  *)
(* feedback and evaluation handlers of app/api/routes.py, the claim at     *)
(* sign-in and the erasure of app/account_database.py, the judge of        *)
(* app/services/evaluator.py and its quota.                                *)
(*                                                                         *)
(* A session is named by the chat that opened it, an interaction by its    *)
(* chat.  Requests other than chats are jobs.  Each call to MongoDB is a   *)
(* step; a failed write of a session or a log is swallowed, any other ends *)
(* its request.  The process keeps the quota and the gate of the judge and *)
(* loses them with its requests when it restarts.  `reserved` is no state  *)
(* of the program: it has the reservations this process has given.         *)
(***************************************************************************)
EXTENDS Integers, FiniteSets

CONSTANTS Requesters,     \* <<client, user or NoUser>>: a browser, signed in or not
          Traces,         \* trace ids, one a chat
          Jobs, NoUser, NoChat,
          ClientLimit, GlobalLimit,       \* PUBLIC_RAGAS_*_DAILY_LIMIT
          MaxStarts, MaxDays, MaxRestarts \* bounds

ASSUME RecordsAssumption == /\ ClientLimit \in Nat /\ GlobalLimit \in Nat
                            /\ MaxStarts \in Nat /\ MaxDays \in Nat \ {0}
                            /\ MaxRestarts \in Nat

VARIABLES
  sessions,       \* collection chat_sessions
  logs,           \* collection evaluation_logs, by chat
  asked,          \* how far each chat is, for whom and in which session
  job,            \* each other request
  quota,          \* DailyRagasQuota: its day and its counters
  reserved,       \* what it has answered TRUE to
  day, restarts

recordVars == <<sessions, logs, asked, job, quota, reserved, day, restarts>>

Browsers == {w[1] : w \in Requesters}
Owners == {w[2] : w \in Requesters} \union {NoUser}
Nobody == <<NoUser, NoUser>>

NotAsked == [stage |-> "new", who |-> Nobody, session |-> NoChat]
NewJob == [stage |-> "new", kind |-> "none", who |-> Nobody, about |-> NoChat]
NothingReserved(today) == [day |-> today, all |-> 0, of |-> [c \in Browsers |-> 0]]
NoLog == [user |-> NoUser, client |-> NoUser, session |-> NoChat,
          evidence |-> FALSE, judged |-> FALSE, rated |-> FALSE]

Logged(t) == logs[t] # NoLog
Begun == Cardinality({t \in Traces : asked[t].stage # "new"})
         + Cardinality({j \in Jobs : job[j].stage # "new"})

\* The filter of every query: the user if there is one, else the client.
Owns(who, row) == IF who[2] # NoUser THEN row.user = who[2] ELSE row.client = who[1]

RecordsInit ==
  /\ sessions = {} /\ quota = NothingReserved(0) /\ reserved = {}
  /\ logs = [t \in Traces |-> NoLog]
  /\ asked = [t \in Traces |-> NotAsked]
  /\ job = [j \in Jobs |-> NewJob]
  /\ day = 1 /\ restarts = 0

-----------------------------------------------------------------------------
(* The rows a chat writes                                                  *)

AskIn(t, w, s) ==
  /\ asked[t].stage = "new" /\ Begun < MaxStarts
  /\ s = t \/ \E x \in sessions : x.id = s
  /\ asked' = [asked EXCEPT ![t] = [who |-> w, session |-> s,
                                    stage |-> IF s = t THEN "open" ELSE "generating"]]
  /\ UNCHANGED <<sessions, logs, job, quota, reserved, day, restarts>>

ChatOver(t) == asked' = [asked EXCEPT ![t] = [NotAsked EXCEPT !.stage = "over"]]

\* create_session, from /chat or from new_session, which nothing follows.
CreateSession(t) ==
  /\ asked[t].stage = "open"
  /\ \/ sessions' = sessions \union {[id |-> t, client |-> asked[t].who[1],
                                      user |-> asked[t].who[2]]}
     \/ UNCHANGED sessions
  /\ \/ asked' = [asked EXCEPT ![t].stage = "generating"]
     \/ ChatOver(t)
  /\ UNCHANGED <<logs, job, quota, reserved, day, restarts>>

\* log_interaction replaces by trace id; the identity is that of the request.
WriteLog(t) ==
  /\ asked[t].stage = "generating"
  /\ \/ \E found \in BOOLEAN :
          logs' = [logs EXCEPT ![t] =
                     [NoLog EXCEPT !.client = asked[t].who[1], !.user = asked[t].who[2],
                                   !.session = asked[t].session, !.evidence = found]]
     \/ UNCHANGED logs
  /\ ChatOver(t)
  /\ UNCHANGED <<sessions, job, quota, reserved, day, restarts>>

-----------------------------------------------------------------------------
(* What owners do to them                                                  *)

onlyRows == <<asked, quota, reserved, day, restarts>>
JobAt(j, kind, stage) == job[j].kind = kind /\ job[j].stage = stage
JobGoes(j, stage) == job' = [job EXCEPT ![j].stage = stage]
JobEnds(j) == job' = [job EXCEPT ![j] = [NewJob EXCEPT !.stage = "done"]]

BeginJob(j, kind, w, t) ==
  /\ job[j].stage = "new" /\ Begun < MaxStarts
  /\ job' = [job EXCEPT ![j] = [stage |-> "first", kind |-> kind, who |-> w, about |-> t]]
  /\ UNCHANGED <<sessions, logs, onlyRows>>

\* delete_session: the session, then its interactions.
DeleteSession(j) ==
  /\ JobAt(j, "delete", "first")
  /\ sessions' = {x \in sessions : ~(x.id = job[j].about /\ Owns(job[j].who, x))}
  /\ JobGoes(j, "second")
  /\ UNCHANGED <<logs, onlyRows>>

DeleteMessages(j) ==
  /\ JobAt(j, "delete", "second")
  /\ logs' = [t \in Traces |-> IF logs[t].session = job[j].about /\ Owns(job[j].who, logs[t])
                              THEN NoLog ELSE logs[t]]
  /\ JobEnds(j)
  /\ UNCHANGED <<sessions, onlyRows>>

\* delete_account_history, and the same calls within delete_account.
EraseSessions(j) ==
  /\ JobAt(j, "erase", "first")
  /\ sessions' = {x \in sessions : x.user # job[j].who[2]}
  /\ JobGoes(j, "second")
  /\ UNCHANGED <<logs, onlyRows>>

EraseMessages(j) ==
  /\ JobAt(j, "erase", "second")
  /\ logs' = [t \in Traces |-> IF logs[t].user = job[j].who[2] THEN NoLog ELSE logs[t]]
  /\ JobEnds(j)
  /\ UNCHANGED <<sessions, onlyRows>>

\* mutant: the filter loses user_id: None
Unclaimed_Any(row, client) == row.client = client
Unclaimed(row, client) == row.client = client /\ row.user = NoUser

\* claim_anonymous_history, the last calls of the sign-in of its user.
ClaimSessions(j) ==
  /\ JobAt(j, "claim", "first")
  /\ sessions' = {IF Unclaimed(x, job[j].who[1]) THEN [x EXCEPT !.user = job[j].who[2]]
                  ELSE x : x \in sessions}
  /\ JobGoes(j, "second")
  /\ UNCHANGED <<logs, onlyRows>>

ClaimMessages(j) ==
  /\ JobAt(j, "claim", "second")
  /\ logs' = [t \in Traces |-> IF Logged(t) /\ Unclaimed(logs[t], job[j].who[1])
                              THEN [logs[t] EXCEPT !.user = job[j].who[2]]
                              ELSE logs[t]]
  /\ JobEnds(j)
  /\ UNCHANGED <<sessions, onlyRows>>

\* update_feedback
UpdateFeedback(t, w) ==
  /\ Logged(t) /\ Owns(w, logs[t])
  /\ logs' = [logs EXCEPT ![t].rated = TRUE]
  /\ UNCHANGED <<sessions, job, onlyRows>>

-----------------------------------------------------------------------------
(* public_evaluation                                                       *)

\* reserve: the first call of a day clears the counters.
Counters == IF quota.day = day THEN quota ELSE NothingReserved(day)

\* mutant: off by one
Reservable_OneMore(c) == Counters.of[c] <= ClientLimit /\ Counters.all <= GlobalLimit

Reservable(c) == Counters.of[c] < ClientLimit /\ Counters.all < GlobalLimit

Reserve(j) ==
  LET c == job[j].who[1]
  IN  IF Reservable(c)
      THEN /\ quota' = [Counters EXCEPT !.all = @ + 1, !.of[c] = @ + 1]
           /\ reserved' = reserved \union {[job |-> j, client |-> c, day |-> day]}
           /\ JobGoes(j, "queue")
      ELSE quota' = Counters /\ UNCHANGED reserved /\ JobEnds(j)

\* The interaction is read; what follows up to the semaphore awaits nothing.
ReadForJudge(j) ==
  /\ JobAt(j, "judge", "first")
  /\ LET t == job[j].about
     IN  IF /\ Logged(t) /\ Owns(job[j].who, logs[t])
            /\ ~logs[t].judged /\ logs[t].evidence
         THEN Reserve(j)
         ELSE UNCHANGED <<quota, reserved>> /\ JobEnds(j)
  /\ UNCHANGED <<sessions, logs, asked, day, restarts>>

\* _public_ragas_semaphore
EnterJudge(j) ==
  /\ JobAt(j, "judge", "queue")
  /\ \A k \in Jobs : job[k].stage # "judging"
  /\ JobGoes(j, "judging")
  /\ UNCHANGED <<sessions, logs, onlyRows>>

\* mutant: the update upserts
RecordScore_Upsert(j) ==
  /\ JobAt(j, "judge", "judging")
  /\ logs' = [logs EXCEPT ![job[j].about].judged = TRUE]
  /\ JobEnds(j)
  /\ UNCHANGED <<sessions, onlyRows>>

\* run_llm_as_judge and update_evaluation: a score or an error, executed
\* either way, unless the update itself fails.
RecordScore(j) ==
  /\ JobAt(j, "judge", "judging")
  /\ LET t == job[j].about
     IN  \/ logs' = IF Logged(t) THEN [logs EXCEPT ![t].judged = TRUE] ELSE logs
         \/ UNCHANGED logs
  /\ JobEnds(j)
  /\ UNCHANGED <<sessions, onlyRows>>

-----------------------------------------------------------------------------
(* The TTL indexes, failing calls, time                                    *)

ExpireSession(x) ==
  /\ sessions' = sessions \ {x}
  /\ UNCHANGED <<logs, job, onlyRows>>

ExpireLog(t) ==
  /\ Logged(t)
  /\ logs' = [logs EXCEPT ![t] = NoLog]
  /\ UNCHANGED <<sessions, job, onlyRows>>

FailJob(j) ==
  /\ job[j].stage \in {"first", "second"}
  /\ JobEnds(j)
  /\ UNCHANGED <<sessions, logs, onlyRows>>

NextDay ==
  /\ day < MaxDays
  /\ day' = day + 1
  /\ UNCHANGED <<sessions, logs, asked, job, quota, reserved, restarts>>

RestartServer ==
  /\ restarts < MaxRestarts
  /\ restarts' = restarts + 1
  /\ quota' = NothingReserved(0) /\ reserved' = {}
  /\ asked' = [t \in Traces |-> IF asked[t].stage = "new" THEN NotAsked
                               ELSE [NotAsked EXCEPT !.stage = "over"]]
  /\ job' = [j \in Jobs |-> IF job[j].stage = "new" THEN NewJob
                            ELSE [NewJob EXCEPT !.stage = "done"]]
  /\ UNCHANGED <<sessions, logs, day>>

-----------------------------------------------------------------------------
JobStep(j) ==
  \/ DeleteSession(j) \/ DeleteMessages(j) \/ EraseSessions(j) \/ EraseMessages(j)
  \/ ClaimSessions(j) \/ ClaimMessages(j)
  \/ ReadForJudge(j) \/ EnterJudge(j) \/ RecordScore(j) \/ FailJob(j)

Arrive(w) ==
  \/ \E t \in Traces : UpdateFeedback(t, w) \/ \E s \in Traces : AskIn(t, w, s)
  \/ \E j \in Jobs, t \in Traces, kind \in {"delete", "judge"} : BeginJob(j, kind, w, t)
  \/ \E j \in Jobs, kind \in {"claim", "erase"} :
       w[2] # NoUser /\ BeginJob(j, kind, w, NoChat)

RecordsNext ==
  \/ \E w \in Requesters : Arrive(w)
  \/ \E t \in Traces : CreateSession(t) \/ WriteLog(t) \/ ExpireLog(t)
  \/ \E j \in Jobs : JobStep(j)
  \/ \E x \in sessions : ExpireSession(x)
  \/ NextDay \/ RestartServer

RecordsSpec == RecordsInit /\ [][RecordsNext]_recordVars

-----------------------------------------------------------------------------
RecordsTypeOK ==
  /\ sessions \subseteq [id : Traces, client : Browsers, user : Owners]
  /\ logs \in [Traces -> [user : Owners, client : Browsers \union {NoUser},
                         session : Traces \union {NoChat},
                         evidence : BOOLEAN, judged : BOOLEAN, rated : BOOLEAN]]
  /\ asked \in [Traces -> [stage : {"new", "open", "generating", "over"},
                          who : Requesters \union {Nobody},
                          session : Traces \union {NoChat}]]
  /\ job \in [Jobs -> [stage : {"new", "first", "second", "queue", "judging", "done"},
                       kind : {"none", "delete", "erase", "claim", "judge"},
                       who : Requesters \union {Nobody},
                       about : Traces \union {NoChat}]]
  /\ quota \in [day : 0..MaxDays, all : 0..GlobalLimit, of : [Browsers -> 0..ClientLimit]]
  /\ reserved \subseteq [job : Jobs, client : Browsers, day : 1..MaxDays]
  /\ day \in 1..MaxDays /\ restarts \in 0..MaxRestarts

LogsKept == \A t \in Traces :
  /\ asked[t].stage = "over" /\ ~Logged(t) => logs'[t] = NoLog
  /\ logs[t].user # NoUser /\ logs'[t] # NoLog => logs'[t].user = logs[t].user
SessionsKept == \A x \in sessions : x.user # NoUser =>
  \A y \in sessions' : y.id = x.id => y.user = x.user

(* A deleted, erased or expired interaction stays away: the feedback and   *)
(* the score of requests that read it before do not bring any of it back.  *)
(* And a row that a user owns is never handed to another, by whichever     *)
(* sign-ins of one browser come one after the other or at once.            *)
RowsKept == [][LogsKept /\ SessionsKept]_recordVars

(* One judge runs at a time, each that runs or queues has a reservation of *)
(* its own, and those a process has given in a day are within the limit of *)
(* each client and of the system: whatever queues while others reserve,    *)
(* over whichever midnights, and whatever becomes of the interaction.      *)
JudgeBudget ==
  /\ \A j, k \in Jobs : job[j].stage = "judging" /\ job[k].stage = "judging" => j = k
  /\ \A j \in Jobs : job[j].stage \in {"queue", "judging"} =>
       \E r \in reserved : r.job = j /\ r.client = job[j].who[1]
  /\ \A d \in 1..MaxDays :
       /\ Cardinality({r \in reserved : r.day = d}) <= GlobalLimit
       /\ \A c \in Browsers :
            Cardinality({r \in reserved : r.day = d /\ r.client = c}) <= ClientLimit
=============================================================================
