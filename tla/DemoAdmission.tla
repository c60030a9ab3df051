--------------------------- MODULE DemoAdmission ---------------------------
(***************************************************************************)
(* app/services/reviewer_demo.py: in demo mode a middleware admits a       *)
(* request before its body is read.  It identifies the user, reserves an   *)
(* attempt in a minute window and a day window kept in MongoDB and shared  *)
(* by all processes, and holds one of the few body slots of its process    *)
(* until the application has answered.  An upload that asks for OCR        *)
(* reserves a second time, from inside the application.                    *)
(*                                                                         *)
(* Reads pass the middleware untouched and are left out, all but           *)
(* /verify-email, which pays like the other sign-in pages without a body.  *)
(***************************************************************************)
EXTENDS Integers, Sequences, FiniteSets

CONSTANTS Processes, Visits,
          Subjects,            \* hashed user ids and client addresses
          Paths,               \* which kinds of requests are made
          Own, Total,          \* limits of a category and kind of window
          MaxBodies,           \* active_bodies allowed in a process: 2
          MinutesPerDay,
          MaxNow               \* bound: minutes that pass

Categories == {"auth", "ai", "write"}
Kinds == {"minute", "day"}

ASSUME PathsAssumption ==
  Paths \subseteq {"auth", "verify", "ai", "write", "upload", "protective"}
ASSUME LimitsAssumption == /\ Own \in [Categories \X Kinds -> Nat]
                           /\ Total \in [Categories \X Kinds -> Nat]
ASSUME NumbersAssumption == /\ MaxBodies \in Nat
                            /\ MinutesPerDay \in Nat \ {0}
                            /\ MaxNow \in Nat
ASSUME VisitsAssumption == IsFiniteSet(Visits)

VARIABLES
  usage,                       \* collection demo_usage
  active,                      \* active_bodies of each process
  visit,                       \* each request, from arrival to answer
  now                          \* minutes

demoVars == <<usage, active, visit, now>>

Keys == Categories \X Kinds \X (0..MaxNow)
Cap(caps, key) == caps[<<key[1], key[2]>>]

\* The category a request pays in: from inside the upload, OCR pays as "ai".
Category(q) == CASE q.path \in {"auth", "verify"} -> "auth"
                 [] q.path = "ai" \/ q.ocr -> "ai"
                 [] OTHER -> "write"

\* Privacy and session controls never pay; an administrator pays no day.
Budgets(path, admin) ==
  CASE path = "protective" -> <<>>
    [] path \in {"auth", "verify"} -> <<"minute", "day">>
    [] OTHER -> IF admin THEN <<"minute">> ELSE <<"minute", "day">>

\* The window a reservation made now falls in.
KeyOf(category, kind) ==
  <<category, kind, IF kind = "minute" THEN now ELSE now \div MinutesPerDay>>

\* todo: kinds of windows still to be reserved; key: the window being
\* reserved; held: windows reserved so far; ocr: inside the upload, for OCR.
DemoStages == {"identify", "reserve", "count", "gate", "body", "app", "ocr",
               "served", "refused"}
VisitType ==
  [stage : DemoStages, process : Processes, subject : Subjects, path : Paths,
   admin : BOOLEAN, ocr : BOOLEAN, todo : {<<>>, <<"day">>, <<"minute">>, <<"minute", "day">>},
   key : Keys \union {<<>>}, held : SUBSET Keys]

DemoInit ==
  /\ usage = [key \in Keys |->
                [there |-> FALSE, count |-> 0, subjects |-> [s \in Subjects |-> 0]]]
  /\ active = [p \in Processes |-> 0]
  /\ visit \in [Visits ->
       [stage : {"identify"}, process : Processes, subject : Subjects, path : Paths,
        admin : {FALSE}, ocr : {FALSE}, todo : {<<>>}, key : {<<>>}, held : {{}}]]
  /\ now = 0

AtStage(r, stage) == visit[r].stage = stage
Become(r, stage) == visit' = [visit EXCEPT ![r].stage = stage]

\* Between receiving its body and its answer a request occupies a slot.
Occupies(q) == /\ q.path # "verify"
               /\ \/ q.stage \in {"body", "app", "ocr"}
                  \/ q.ocr /\ q.stage \in {"reserve", "count"}

Release(r) == active' = IF Occupies(visit[r])
                        THEN [active EXCEPT ![visit[r].process] = @ - 1]
                        ELSE active

-----------------------------------------------------------------------------
\* A sign-in page is paid for by its address, anything else by its user.
Identify(r) ==
  /\ AtStage(r, "identify")
  /\ \E admin \in BOOLEAN :
       LET todo == Budgets(visit[r].path, admin)
       IN  visit' = [visit EXCEPT ![r].admin = admin, ![r].todo = todo,
                                ![r].stage = IF todo = <<>> THEN "gate" ELSE "reserve"]
  /\ UNCHANGED <<usage, active, now>>

\* reserve_demo_budget, first call: the record of the window is there.
InsertWindow(r) ==
  /\ AtStage(r, "reserve")
  /\ LET key == KeyOf(Category(visit[r]), Head(visit[r].todo))
     IN  /\ usage' = [usage EXCEPT ![key].there = TRUE]
         /\ visit' = [visit EXCEPT ![r].key = key, ![r].stage = "count"]
  /\ UNCHANGED <<active, now>>

\* mutant: $lte instead of $lt
Open_OneMore(key, s) == /\ usage[key].there
                        /\ usage[key].count <= Cap(Total, key)
                        /\ usage[key].subjects[s] <= Cap(Own, key)

Open(key, s) == /\ usage[key].there
                /\ usage[key].count < Cap(Total, key)
                /\ usage[key].subjects[s] < Cap(Own, key)

Increment(key, s) == usage' = [usage EXCEPT ![key].count = @ + 1,
                                            ![key].subjects[s] = @ + 1]

\* Second call: the conditional update; then the next window, if any.
CountAttempt(r) ==
  /\ AtStage(r, "count")
  /\ Open(visit[r].key, visit[r].subject)
  /\ Increment(visit[r].key, visit[r].subject)
  /\ visit' = [visit EXCEPT ![r].held = @ \union {visit[r].key}, ![r].todo = Tail(@),
                          ![r].stage = IF Len(visit[r].todo) > 1 THEN "reserve"
                                       ELSE IF visit[r].ocr THEN "ocr" ELSE "gate"]
  /\ UNCHANGED <<active, now>>

\* The window is full: 429, the windows reserved before stay reserved.
OverQuota(r) ==
  /\ AtStage(r, "count")
  /\ ~Open(visit[r].key, visit[r].subject)
  /\ Become(r, "refused")
  /\ Release(r)
  /\ UNCHANGED <<usage, now>>

\* mutant: an error of the store lets the request pass
Unavailable_Open(r) ==
  /\ visit[r].stage \in {"reserve", "count"}
  /\ Become(r, IF visit[r].ocr THEN "ocr" ELSE "gate")
  /\ UNCHANGED <<usage, active, now>>

\* No user, or a call that raises or takes three seconds: 401 or 503.  What
\* was asked of the store may have been done.
Unavailable(r) ==
  /\ visit[r].stage \in {"identify", "reserve", "count"}
  /\ visit[r].path \in {"auth", "verify"} => ~AtStage(r, "identify")
  /\ Become(r, "refused")
  /\ Release(r)
  /\ \/ UNCHANGED usage
     \/ /\ AtStage(r, "reserve")
        /\ usage' = [usage EXCEPT ![KeyOf(Category(visit[r]), Head(visit[r].todo))].there = TRUE]
     \/ /\ AtStage(r, "count")
        /\ Open(visit[r].key, visit[r].subject)
        /\ Increment(visit[r].key, visit[r].subject)
  /\ UNCHANGED now

-----------------------------------------------------------------------------
\* A body slot, or 503; /verify-email needs none.
Admit(r) ==
  /\ AtStage(r, "gate")
  /\ LET p == visit[r].process
     IN  \/ /\ visit[r].path = "verify"
            /\ Become(r, "app") /\ UNCHANGED active
         \/ /\ visit[r].path # "verify" /\ active[p] < MaxBodies
            /\ Become(r, "body") /\ active' = [active EXCEPT ![p] = @ + 1]
         \/ /\ visit[r].path # "verify" /\ active[p] >= MaxBodies
            /\ Become(r, "refused") /\ UNCHANGED active
  /\ UNCHANGED <<usage, now>>

ReadBody(r) == /\ AtStage(r, "body")
               /\ Become(r, "app")
               /\ UNCHANGED <<usage, active, now>>

\* mutant: a disconnect returns outside try .. finally
BodyFails_Leaks(r) == /\ AtStage(r, "body")
                      /\ Become(r, "refused")
                      /\ UNCHANGED <<usage, active, now>>

\* The client disconnects, sends too much, or takes fifteen seconds.
BodyFails(r) == /\ AtStage(r, "body")
                /\ Become(r, "refused")
                /\ Release(r)
                /\ UNCHANGED <<usage, now>>

\* workspace_document_upload with ocr_enabled reads the user once more.
StartOcr(r) ==
  /\ AtStage(r, "app")
  /\ visit[r].path = "upload"
  /\ \E admin \in BOOLEAN :
       visit' = [visit EXCEPT ![r].stage = "reserve", ![r].ocr = TRUE,
                            ![r].admin = admin, ![r].todo = Budgets("ai", admin)]
  /\ UNCHANGED <<usage, active, now>>

\* The application has answered, or raised.
Finish(r) ==
  /\ visit[r].stage \in {"app", "ocr"}
  /\ Become(r, "served")
  /\ Release(r)
  /\ UNCHANGED <<usage, now>>

\* The process dies; what it had reserved stays reserved.  A request still at
\* "identify" may not have arrived yet.
Restart(p) ==
  /\ \E r \in Visits : visit[r].process = p /\ Occupies(visit[r])
  /\ active' = [active EXCEPT ![p] = 0]
  /\ visit' = [r \in Visits |->
       IF visit[r].process = p /\ visit[r].stage \notin {"identify", "served"}
       THEN [visit[r] EXCEPT !.stage = "refused"] ELSE visit[r]]
  /\ UNCHANGED <<usage, now>>

Tick == now < MaxNow /\ now' = now + 1 /\ UNCHANGED <<usage, active, visit>>

RequestStep(r) ==
  \/ Identify(r) \/ InsertWindow(r) \/ CountAttempt(r) \/ OverQuota(r)
  \/ Unavailable(r) \/ Admit(r) \/ ReadBody(r) \/ BodyFails(r)
  \/ StartOcr(r) \/ Finish(r)

DemoNext == \/ \E r \in Visits : RequestStep(r)
            \/ \E p \in Processes : Restart(p)
            \/ Tick

DemoSpec == DemoInit /\ [][DemoNext]_demoVars

-----------------------------------------------------------------------------
(* The type of every variable; a process never serves more bodies at once  *)
(* than its limit.                                                         *)
DemoTypeOK ==
  /\ usage \in [Keys -> [there : BOOLEAN, count : Nat, subjects : [Subjects -> Nat]]]
  /\ active \in [Processes -> 0..MaxBodies]
  /\ visit \in [Visits -> VisitType]
  /\ now \in 0..MaxNow

Occupants(p) == {r \in Visits : visit[r].process = p /\ Occupies(visit[r])}

Counted == \A p \in Processes : active[p] = Cardinality(Occupants(p))

(* active_bodies is the number of requests between their body and their    *)
(* answer, whichever of the refusals, failures and nested reservations     *)
(* ended or interrupted them: no slot leaks, none is given back twice and  *)
(* no more requests than the limit are served at once (__call__).          *)
SlotsCounted == Counted /\ \A p \in Processes : Cardinality(Occupants(p)) <= MaxBodies

Holders(key) == {r \in Visits : key \in visit[r].held}
HoldersOf(key, s) == {r \in Holders(key) : visit[r].subject = s}

(* However the requests of all processes interleave, die or are refused    *)
(* later, no window ever admits more attempts than its shared limit, nor   *)
(* more of one subject than its own.                                       *)
QuotaKept == \A key \in Keys :
  /\ Cardinality(Holders(key)) <= Cap(Total, key)
  /\ \A s \in Subjects : Cardinality(HoldersOf(key, s)) <= Cap(Own, key)

Pays(q, category) ==
  /\ \E t \in 0..MaxNow : <<category, "minute", t>> \in q.held
  /\ \/ q.admin /\ category # "auth"
     \/ \E t \in 0..MaxNow : <<category, "day", t>> \in q.held

(* Work is paid for before it begins: past the gate a request that is not  *)
(* protective holds a minute window and a day window of its category, the  *)
(* day waived only for an administrator, and OCR holds the same of "ai";   *)
(* an unreachable store never lets anything through.                       *)
WorkIsPaid == \A r \in Visits : LET q == visit[r] IN
  /\ q.stage \in {"gate", "body", "app"} /\ q.path # "protective" => Pays(q, Category(q))
  /\ q.stage = "ocr" => Pays(q, "ai")
=============================================================================
