------------------------------- MODULE ChatFlow -------------------------------
(***************************************************************************)
(* The handler of /chat in app/api/routes.py, the progress it shows        *)
(* (app/services/chat_progress.py) and the outcome it logs.  Every await   *)
(* of the handler ends a step.  Providers, guardrails and the cache answer *)
(* as they like; who owns the rows is ChatRecords'.                        *)
(***************************************************************************)
EXTENDS Integers, Sequences, Collections

CONSTANTS Chats,
          MaxEntries,     \* of the progress registry
          MaxCuts     \* bound

ASSUME FlowAssumption == MaxEntries \in Nat \ {0} /\ MaxCuts \in Nat

VARIABLES
  chat,           \* each /chat request
  logged,         \* status in the interaction log
  progress,       \* ChatProgressRegistry, oldest start first
  answerCache,    \* chats whose answer went to the semantic cache
  cuts

flowVars == <<chat, logged, progress, answerCache, cuts>>

\* nemo asks for the checks, scoped narrows the question to one document.
Scopes == {"plain", "nemo", "scoped", "nemo_scoped"}
Checked(t) == chat[t].scope \in {"nemo", "nemo_scoped"}
Scoped(t) == chat[t].scope \in {"scoped", "nemo_scoped"}
Outcomes == {"ok", "no_evidence", "blocked_input", "blocked_output",
             "technical_error", "cache_hit"}
Running == {"open", "input", "cache", "answer", "output", "persist", "respond", "save"}

NewChat == [stage |-> "new", scope |-> "plain", evidence |-> FALSE, status |-> "ok"]

FlowInit == /\ chat = [t \in Chats |-> NewChat]
            /\ logged = [t \in Chats |-> "none"]
            /\ progress = <<>> /\ answerCache = {} /\ cuts = 0

Now(t, stage) == chat[t].stage = stage
Goto(t, stage) == chat' = [chat EXCEPT ![t].stage = stage]
Settle(t, status) == chat' = [chat EXCEPT ![t].stage = "persist", ![t].status = status]
onlyChat == <<logged, progress, answerCache, cuts>>

-----------------------------------------------------------------------------
(* ChatProgressRegistry                                                    *)

\* start: the newest entry is last, the oldest are evicted.
StartedProgress(t) ==
  LET all == Append(progress, [chat |-> t, status |-> "running"])
  IN  IF Len(all) > MaxEntries THEN Tail(all) ELSE all

\* complete: nothing, if the entry was evicted or pruned.
CompletedProgress(t, status) ==
  [i \in DOMAIN progress |-> IF progress[i].chat = t
                             THEN [progress[i] EXCEPT !.status = status]
                             ELSE progress[i]]

\* _prune: an entry without an update for ten minutes.
PruneProgress(i) ==
  /\ progress' = SeqExt!RemoveAt(progress, i)
  /\ UNCHANGED <<chat, logged, answerCache, cuts>>

-----------------------------------------------------------------------------

\* A chat without a session opens one first.
Ask(t, scope, opens) ==
  /\ Now(t, "new")
  /\ chat' = [chat EXCEPT ![t].scope = scope,
                          ![t].stage = IF opens THEN "open" ELSE "input"]
  /\ progress' = StartedProgress(t)
  /\ UNCHANGED <<logged, answerCache, cuts>>

CreateFirst(t) == Now(t, "open") /\ Goto(t, "input") /\ UNCHANGED onlyChat

\* Unavailable, rejected, or approved; off unless asked for.
InputGuardrail(t) ==
  /\ Now(t, "input")
  /\ \/ Checked(t) /\ \E s \in {"technical_error", "blocked_input"} : Settle(t, s)
     \/ Goto(t, IF chat[t].scope = "plain" THEN "cache" ELSE "answer")
  /\ UNCHANGED onlyChat

\* check_semantic_cache: a hit brings its evidence.
CheckCache(t) ==
  /\ Now(t, "cache")
  /\ \/ chat' = [chat EXCEPT ![t].stage = "persist", ![t].status = "cache_hit",
                             ![t].evidence = TRUE]
     \/ Goto(t, "answer")
  /\ UNCHANGED onlyChat

\* run_advanced_rag: an error without contexts, a generation that failed over
\* what was retrieved, or an answer with or without evidence.
Answer(t) ==
  /\ Now(t, "answer")
  /\ \E found \in BOOLEAN :
       chat' = [chat EXCEPT ![t].evidence = found, ![t].stage = "output"]
       \/ chat' = [chat EXCEPT ![t].evidence = found, ![t].stage = "persist",
                               ![t].status = "technical_error"]
  /\ UNCHANGED onlyChat

\* Without evidence a rejected answer is no_evidence still.
OutputGuardrail(t) ==
  /\ Now(t, "output")
  /\ \/ Checked(t) /\ Settle(t, "technical_error")
     \/ ~chat[t].evidence /\ Settle(t, "no_evidence")
     \/ chat[t].evidence /\ Checked(t) /\ Settle(t, "blocked_output")
     \/ chat[t].evidence /\ Settle(t, "ok")
  /\ UNCHANGED onlyChat

\* persist_interaction; a failed write is swallowed.
Persist(t) ==
  /\ Now(t, "persist")
  /\ \/ logged' = [logged EXCEPT ![t] = chat[t].status]
     \/ UNCHANGED logged
  /\ Goto(t, "respond")
  /\ UNCHANGED <<progress, answerCache, cuts>>

\* mutant: a scoped answer is cached too
ToBeCached_Scoped(t) == chat[t].status = "ok" /\ chat[t].evidence
ToBeCached(t) == chat[t].status = "ok" /\ chat[t].evidence /\ ~Scoped(t)

\* mutant: the registry is completed before the log is written
Respond_Early(t) ==
  /\ Now(t, "persist")
  /\ progress' = CompletedProgress(t, "ok")
  /\ Goto(t, IF ToBeCached(t) THEN "save" ELSE "done")
  /\ UNCHANGED <<logged, answerCache, cuts>>

\* complete and the response; a background task saves the answer after it.
Respond(t) ==
  /\ Now(t, "respond")
  /\ progress' = CompletedProgress(t, chat[t].status)
  /\ Goto(t, IF ToBeCached(t) THEN "save" ELSE "done")
  /\ UNCHANGED <<logged, answerCache, cuts>>

SaveAnswer(t) ==
  /\ Now(t, "save")
  /\ \/ answerCache' = answerCache \union {t}
     \/ UNCHANGED answerCache
  /\ Goto(t, "done")
  /\ UNCHANGED <<logged, progress, cuts>>

\* The process restarts and loses its requests and its registry.
CutChats ==
  /\ cuts < MaxCuts
  /\ cuts' = cuts + 1
  /\ progress' = <<>>
  /\ chat' = [t \in Chats |-> IF chat[t].stage \in Running
                              THEN [chat[t] EXCEPT !.stage = "cut"] ELSE chat[t]]
  /\ UNCHANGED <<logged, answerCache>>

-----------------------------------------------------------------------------
ChatStep(t) ==
  \/ CreateFirst(t) \/ InputGuardrail(t) \/ CheckCache(t) \/ Answer(t)
  \/ OutputGuardrail(t) \/ Persist(t) \/ Respond(t) \/ SaveAnswer(t)

FlowNext ==
  \/ \E t \in Chats : \/ ChatStep(t)
                      \/ \E scope \in Scopes, opens \in BOOLEAN : Ask(t, scope, opens)
  \/ \E i \in DOMAIN progress : PruneProgress(i)
  \/ CutChats

FlowSpec == FlowInit /\ [][FlowNext]_flowVars

-----------------------------------------------------------------------------
FlowTypeOK ==
  /\ chat \in [Chats -> [stage : Running \union {"new", "done", "cut"}, scope : Scopes,
                         evidence : BOOLEAN, status : Outcomes]]
  /\ logged \in [Chats -> Outcomes \union {"none"}]
  /\ progress \in Seq([chat : Chats, status : Outcomes \union {"running"}])
  /\ Len(progress) <= MaxEntries
  /\ answerCache \subseteq Chats
  /\ cuts \in 0..MaxCuts

(* The log, the progress a browser polls and the stored answers tell the   *)
(* same story of a chat: progress completes only after the write of the    *)
(* log and with the status it had, an answered chat has evidence, and only *)
(* an approved answer over evidence that was not narrowed to one document  *)
(* is stored for other questions, whatever is evicted or cut meanwhile.    *)
OneOutcome ==
  /\ \A i \in DOMAIN progress : progress[i].status # "running" =>
       LET t == progress[i].chat
       IN  /\ progress[i].status = chat[t].status
           /\ logged[t] \in {"none", progress[i].status}
           /\ chat[t].stage \in {"save", "done"}
  /\ \A t \in Chats :
       /\ logged[t] \in {"ok", "cache_hit"} => chat[t].evidence
       /\ logged[t] \in {"blocked_input", "blocked_output"} => Checked(t)
       /\ t \in answerCache => chat[t].status = "ok" /\ chat[t].evidence /\ ~Scoped(t)
=============================================================================
