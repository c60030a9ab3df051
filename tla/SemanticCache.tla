---------------------------- MODULE SemanticCache ----------------------------
(***************************************************************************)
(* app/services/semantic_cache.py as /chat uses it: a question is embedded *)
(* through the shared staging point, the nearest stored entry of the same  *)
(* revision answers it, and otherwise the pipeline's answer is stored, by  *)
(* a background task that embeds the question a second time.               *)
(***************************************************************************)
EXTENDS QueryStaging

CONSTANTS Revisions,      \* dataset and pipeline revision of a deployment
          NoEntry,
          MaxDeploys      \* bound: restarts of a process under any revision

ASSUME DeploysAssumption == MaxDeploys \in Nat

VARIABLES cache,          \* vector each stored entry was upserted with
          req,            \* /chat request of each caller
          revision,       \* revision each process runs
          deploys

cacheVars == <<cache, req, revision, deploys>>
vars == <<stagingVars, cacheVars>>

Entries == Questions \X Revisions

\* document_id narrows a request to one document; nemo_enabled asks for checks.
Modes == {"plain", "nemo", "scoped"}

NewRequest == [stage |-> "new", q |-> NoText, mode |-> "plain", hit |-> NoEntry]

RevisionOf(c) == revision[ProcessOf[c]]

Init == /\ StagingInit
        /\ cache = [e \in Entries |-> NoText]
        /\ req = [c \in Callers |-> NewRequest]
        /\ revision \in [Processes -> Revisions]
        /\ deploys = 0

\* The input guardrail has passed; nemo and scoped requests skip the cache.
Ask(c, q, m) ==
  /\ req[c].stage = "new"
  /\ req' = [req EXCEPT ![c].q = q, ![c].mode = m,
                        ![c].stage = IF m = "plain" THEN "check" ELSE "generate"]
  /\ IF m = "plain" THEN Call(c, q) ELSE UNCHANGED stagingVars
  /\ UNCHANGED <<cache, revision, deploys>>

\* The embedding has been used: the thread is free again.
TakeVector(c) == /\ call' = [call EXCEPT ![c] = NoCall]
                 /\ UNCHANGED <<storeVars, lockedBy, batch, round, resets>>

\* mutant: no similarity threshold
Matches_AnyVector(c) ==
  {e \in Entries : e[2] = RevisionOf(c) /\ cache[e] # NoText}

\* cache_revision_filter, and a score of 0.96 or more: the same vector.
Matches(c) == {e \in Entries : e[2] = RevisionOf(c) /\ cache[e] = call[c].vector}

Hit(c) == /\ req[c].stage = "check"
          /\ call[c].stage = "returned"
          /\ \E e \in Matches(c) :
               req' = [req EXCEPT ![c].stage = "done", ![c].hit = e]
          /\ TakeVector(c)
          /\ UNCHANGED <<cache, revision, deploys>>

\* No match; or a failed embedding or query, and an entry whose checks fail or
\* that is not visible yet: every exception of check_semantic_cache is a miss.
Miss(c) == /\ req[c].stage = "check"
           /\ call[c].stage \in {"returned", "failed"}
           /\ req' = [req EXCEPT ![c].stage = "generate"]
           /\ TakeVector(c)
           /\ UNCHANGED <<cache, revision, deploys>>

\* Only an answer with status ok and evidence, not scoped, is to be saved.
Generate(c) ==
  /\ req[c].stage = "generate"
  /\ \E status \in {"ok", "not_ok"} :
       req' = [req EXCEPT ![c].stage =
                 IF status = "ok" /\ req[c].mode # "scoped" THEN "save" ELSE "done"]
  /\ UNCHANGED <<stagingVars, cache, revision, deploys>>

StartSave(c) ==
  /\ req[c].stage = "save"
  /\ Call(c, req[c].q)
  /\ req' = [req EXCEPT ![c].stage = "saving"]
  /\ UNCHANGED <<cache, revision, deploys>>

\* The point id is made from the question and the revision, so saving the
\* same question again replaces its entry.
Save(c) ==
  /\ req[c].stage = "saving"
  /\ call[c].stage = "returned"
  /\ cache' = [cache EXCEPT ![<<req[c].q, RevisionOf(c)>>] = call[c].vector]
  /\ req' = [req EXCEPT ![c].stage = "done"]
  /\ TakeVector(c)
  /\ UNCHANGED <<revision, deploys>>

\* A failed embedding or upsert is logged and dropped.
DropSave(c) ==
  /\ req[c].stage = "saving"
  /\ call[c].stage \in {"returned", "failed"}
  /\ req' = [req EXCEPT ![c].stage = "done"]
  /\ TakeVector(c)
  /\ UNCHANGED <<cache, revision, deploys>>

\* A process restarts under some revision; its threads and its lock are gone,
\* an upsert one of them was waiting for may be in flight.
Redeploy(p, r) ==
  /\ deploys < MaxDeploys
  /\ deploys' = deploys + 1
  /\ revision' = [revision EXCEPT ![p] = r]
  /\ LET gone == {c \in Callers : ProcessOf[c] = p}
     IN  /\ call' = [c \in Callers |-> IF c \in gone THEN NoCall ELSE call[c]]
         /\ req' = [c \in Callers |-> IF c \in gone /\ req[c].stage # "new"
                                      THEN [req[c] EXCEPT !.stage = "done"]
                                      ELSE req[c]]
         /\ \/ UNCHANGED stray
            \/ \E c \in gone : /\ call[c].stage = "holding"
                              /\ stray' = QueryWrite(call[c].text)
  /\ lockedBy' = [lockedBy EXCEPT ![p] = {}]
  /\ UNCHANGED <<staged, strayed, batch, round, resets, cache>>

RequestStep(c) == \/ Hit(c) \/ Miss(c) \/ Generate(c)
                  \/ StartSave(c) \/ Save(c) \/ DropSave(c)

Embedding(c) == EmbedStep(c) /\ UNCHANGED cacheVars

Next == \/ \E c \in Callers, q \in Questions, m \in Modes : Ask(c, q, m)
        \/ \E c \in Callers : RequestStep(c) \/ Embedding(c)
        \/ \E p \in Processes, r \in Revisions : Redeploy(p, r)
        \/ (ResetStaging \/ StrayLands) /\ UNCHANGED cacheVars

Spec == Init /\ [][Next]_vars

\* The event loop and the thread pool run every started request.
FairSpec == /\ Spec
            /\ \A c \in Callers : WF_vars(RequestStep(c)) /\ WF_vars(Embedding(c))

-----------------------------------------------------------------------------
TypeOK == /\ StagingTypeOK
          /\ cache \in [Entries -> Questions \union {NoText}]
          /\ req \in [Callers ->
                [stage : {"new", "check", "generate", "save", "saving", "done"},
                 q : Questions \union {NoText},
                 mode : Modes,
                 hit : Entries \union {NoEntry}]]
          /\ revision \in [Processes -> Revisions]
          /\ deploys \in 0..MaxDeploys

\* No timed-out upsert has reached the query point late.
NoStray == QueryPoint \notin strayed

(* An answer is stored under the vector of its own question, and an answer *)
(* served from the cache was generated for the same question.              *)
HitAnswersQuestion == NoStray =>
  /\ \A e \in Entries : cache[e] \in {NoText, e[1]}
  /\ \A c \in Callers : req[c].hit # NoEntry => req[c].hit[1] = req[c].q

(* Every question that was asked is answered, whatever the cache does: no  *)
(* thread waits for ever for the staging lock.                             *)
EveryQuestionAnswered ==
  \A c \in Callers : req[c].stage # "new" ~> req[c].stage = "done"
=============================================================================
