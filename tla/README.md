# VietLex: specifications and proofs

VietLex is a legal question-answering service for Vietnamese law: a FastAPI
server (chat, accounts, research workspaces, an administration console), an
ingestion pipeline that fills a Pinecone index from a Hugging Face corpus, and
batch commands that index, evaluate and label.  This directory holds TLA+ models
of the parts in which order, failure and concurrency decide whether the system is
right, TLC runs over small instances, and TLAPS proofs for all instances.

Definitions carry the names the source uses (`completed`, `authSessions`,
`RevokeAll`); `PROJECT.json` maps each of them to the lines it stands for, lists
the runs, and lists the hazards the properties are for.

## Inventory

### Full ingestion and its checkpoint
`app/ingestion/hf_pipeline.py`, `checkpoint.py`, `pinecone_store.py`.

* State: SQLite tables `batches`, `failures`, `metrics`, keyed by the dataset
  revision; the JSON report; the Pinecone index and its vectors.
* Operations: `run_full` reads the checkpoint once, refuses another batch size,
  checks the index, resets or creates it, records `pinecone_initialized`, uploads
  windows of concurrent batches, settles each outcome in order, waits for the
  vector count, refuses the report when failures are audited, writes it.
* Hard: a crash at every point; a partly applied upsert; some batches of a
  window failing; batch numbers that mean documents only under one batch size;
  an index that vanishes under a checkpoint.
* Correct when: what the checkpoint skips is in the index; the audit names
  exactly what is not completed; the report is never written over a gap;
  rerunning ends.

### Embedding through Qdrant staging points
`app/ingestion/qdrant_inference.py`.

* State: one small Qdrant collection, shared by the server and the ingestion
  command; a lock in each process.
* Operations: Qdrant computes an embedding as a side effect of an upsert, so to
  embed a text is to upsert it and read the point back.  Queries use one point
  under the lock; ingestion batches use the points of their window slot.
* Hard: two calls with a shared point between them; several processes; upserts
  that time out and are applied later; slots reused by the next window; a reset.
* Correct when: the vector returned is of the text asked.

### Semantic cache
`app/services/semantic_cache.py`, called by `/chat` in `app/api/routes.py`.

* State: a Pinecone namespace; entries keyed by question and revision, holding
  the vector computed when they were saved.
* Operations: look up the nearest entry of the running revision before
  retrieval; save in a background task after the answer.
* Hard: a question is embedded twice, at different times; entries outlive a
  deployment; every exception is a miss.
* Correct when: an entry is stored under its own question's vector, a hit
  answers the question asked, every question ends.  (That a hit is of the revision
  deployed is the filter of the lookup itself; no interleaving can break it.)

### Accounts, sessions and administration
`app/account_database.py`, `app/api/account_routes.py`, the administrator's
handlers of `app/api/routes.py`, `scripts/manage_admin.py`.

* State: MongoDB collections `users`, `auth_sessions`, `account_tokens`.
* Operations: register, verify, request and do a password reset, sign in and
  out, revoke sessions, delete the account; disable, enable, grant, demote.
* Hard: every operation is a read and some writes in different collections,
  with no transaction; requests interleave at each of them.
* Correct when: a change that revokes leaves no older session; a deleted account
  stays deleted; an active administrator remains.

### Reviewer demo admission
`app/services/reviewer_demo.py`, and the OCR branch of the upload in
`app/api/workspace_routes.py`.

* State: MongoDB collection `demo_usage`, one record per category and window,
  shared by all processes; `active_bodies` in each process.
* Operations: identify the user, reserve the minute and then the day, take a body
  slot, read the body, run the application, give the slot back; an upload with
  OCR reserves again from inside the application.
* Hard: processes meet at the limit of a window; a reservation may count and its
  answer be lost; many ways out between taking a slot and giving it back.
* Correct when: no window admits more than its limits, no work is unpaid, every
  slot taken is returned exactly once.

### Chat, conversations and public evaluation
`app/api/routes.py`, `app/database.py`, `app/services/chat_progress.py`,
`public_evaluation.py`, `evaluator.py`.

* State: MongoDB collections `chat_sessions` and `evaluation_logs`; in each
  process the progress registry, the daily quota and the judge's semaphore.
* Operations: the handler of `/chat` goes from the input guardrail over cache,
  pipeline and output guardrail to the log, the progress and a background save;
  sessions are deleted, erased and claimed at sign-in; feedback and scores are
  written to an interaction; a score reserves quota and waits for the judge.
* Hard: every await lets other requests in; failed writes of sessions and logs
  are swallowed; rows vanish or change owner between a read and its write; the
  registry evicts running chats; requests pass the quota before they queue.
* Correct when: log, progress and cache tell one story of a chat; a row that is
  gone stays gone and a user's row never changes hands; the judge stays in budget.

### Retrieval, reranking and generation
`app/services/rag_pipeline.py`, `retrieval.py`, `structural_retrieval.py`,
`vertex_qdrant_retrieval.py`, `v3_article_expansion.py`, `remote_reranker.py`,
`direct_llm.py`, `provider_runtime.py`.

* State: none per question but its locals; the providers' cooldowns; the
  reranker's staging collection in Qdrant, its circuit and its cleanup time.
* Operations: rewrite, several retrievers at once, fusion, deduplication,
  budgets, reranking (once or twice), expansion, generation with fallbacks.
* Hard: each source can fail, each has its own fallback; limits are enforced by
  different code on each path; a timed-out reranking runs on in its thread.
* Correct when: evidence shown as complete is; what the model reads is within the
  limits; requests over the shared staging collection do not disturb each other.

### Research workspaces and analyses
`app/research_database.py`, `app/api/workspace_routes.py` and the analysis, report,
review, redline and source routes of `app/api` with their services.

* State: one MongoDB document a workspace: uploaded documents, pinned evidence,
  saved analyses with their reviews; and the interaction log of each request.
* Operations: upload (with OCR), remove, pin, unpin, ten kinds of analysis, full
  document review in batches, reports and their versions, reviews of evidence and
  findings, claim at sign-in, expiry.
* Hard: an analysis works for as long as a provider takes on a workspace it read
  before; one conditional update decides whether it still counts; the log is
  written first and corrected after; lists are bounded and drop their oldest.
* Correct when: no analysis is left without its documents; log and workspace
  agree; no decision and no completed batch is lost.

### Legal registry and effect reviews
`app/legal_registry_database.py`, `app/services/legal_registry.py`, `legal_effect.py`.

* State: the collection `legal_effect_registry`, one row per published review.
* Operations: publish (once), withdraw, compute a document's status and interval.
* Hard: two computations of one answer, over dates at their boundaries, partial
  scopes, and reviews withdrawn and published again.
* Correct when: the status of a day and the interval shown agree.

### Structural upload and the chain of pilot commands
`run_structural_index_pilot.py`, `app/ingestion/structural_upload.py`,
`structural_checkpoint.py`, `structural_pilot.py`, `app/evaluation/artifact_io.py`,
`structural_model_probe.py`.

* State: the Qdrant collection, its points and `hnsw_config.m`; the SQLite ledger
  `committed_batches`; the plan and the receipt of each command, files that are
  written once.
* Operations: plan, create (or adopt an empty collection), probe, upload,
  finalize, verify.  The upload imports the probe's receipt, preflights one
  upsert, cuts the pending records into waves of concurrent batches, commits a
  receipt per batch, adapts batch size and workers, reports; finalize counts the
  points, switches HNSW on, polls until the collection is green.
* Hard: one batch of a wave failing; two commands cutting the same records into
  different batches; points acknowledged before they are applied; kills between
  upsert and commit and inside the write of the report; two plans, one collection.
* Correct when: the ledger is never ahead of Qdrant and counts a record once; a
  report means the whole manifest; HNSW is on only over all of it; reruns end; a
  receipt that passed vouches for exactly the plan's records once all is applied.

### Vertex migration
`app/ingestion/vertex_qdrant_migration.py`, `run_vertex_qdrant_migration.py`.

* State: a Qdrant collection and a checkpoint file, named by settings.
* Operations: choose documents by legal type in turn, cut them into records,
  create or validate the collection, skip what the file lists, upsert, append.
* Hard: the file is bound to settings, not to the collection; commands share
  either or both; kills between the upsert and the line in the file.
* Correct when: a command that reports has all it planned in the collection.

### Content store and title index
`app/ingestion/content_store.py`, `legal_fts.py`.

* State: the SQLite content store; the title index, live, building or compacting.
* Operations: prepare the store, build or resume the index, seal, compact, rename.
* Hard: builds of hours resumed after a kill, over a store that may have changed,
  in files whose names two builds share, with the journal in memory.
* Correct when: an index that is used has every document and its title.

### Full texts and the search of phrases
`app/ingestion/supabase_full_doc.py`, `run_supabase_full_doc_upload.py`,
`scripts/build_qdrant_full_doc_index.py`, `app/services/qdrant_full_doc_body_search.py`.

* State: the Supabase table, the Qdrant collection, a checkpoint file of either command.
* Operations: copy the content store or a list of it to the table, the table to the
  collection, verify the collection, find phrases in it and show rows of the table.
* Hard: both commands resume after the last id they copied, whatever changed below it;
  nothing is deleted; two commands run side by side.
* Correct when: a list that was copied is there; a verified index finds every document.

### Pinecone pilot
`run_pinecone_structural_pilot.py`, `app/ingestion/structural_pinecone.py`,
`run_pinecone_structural_canary.py`.

* State: plan, upload, verify and canary files; the SQLite checkpoint; one namespace.
* Operations: audit; upload waves of batches in threads; verify a count and samples;
  ask the canary questions.
* Hard: a batch given up may be there; a kill between upsert and commit; records of
  other plans in the namespace.
* Correct when: what was verified is exactly what was planned.

### Offline evaluation and adjudication
`app/evaluation/*.py`, `run_eval_suite.py`, `run_retrieval_eval.py`,
`run_answer_eval.py`, `run_gold_adjudication.py`.

* State: files only: dataset, gold sidecars, immutable run directories, the
  suite's checkpoint, queues, decisions, previews.
* Operations: measure; evaluate retrieval, reranking and answers, bound to
  earlier runs through a gate; run, kill and resume the golden suite; queue,
  review, preview and promote gold labels.
* Hard: files edited between commands and between the reads of one; concurrent
  runs on one file; measures over evidence at three levels.
* Correct when: the measures mean what their names say, an answer is judged on
  gated evidence of its own question, a report has only its own rows, labels
  change only as reviewed.

### Parts not modelled
Official source search and readers, the document browser, the administration
console, the application shell and one-off scripts:
`PROJECT.json` lists each with its reason.

### How the parts interact
`/chat` calls the cache, which calls `embed_query` on the staging point; the
same point is used by retrieval and by the probe of `run_full`; the slots beside
it by the windows of `run_full`.  `SemanticCache` therefore extends
`QueryStaging`.  `run_full` calls the checkpoint and Pinecone; `FullIngestion`
holds all three because what matters is the order of their transactions.  An
account's requests meet only in MongoDB, so `Accounts` is one module over the
three collections; a sign-in's last calls, the claim of anonymous history, touch
the chat's collections instead and are in `ChatRecords`.  The handler of `/chat`
(`ChatFlow`) sees the pipeline as one call with a few outcomes, which is what
`Retrieval` tells of it; `Retrieval` sees the reranker as any order or a failure,
which is what `RerankStaging` shows it to be.  A workspace shares with the chat
the collection of interactions, of which it writes its own.  The demo's middleware
stands before every handler and shares nothing with them but the reservations an
OCR upload makes, which `DemoAdmission` includes.  The structural upload's batches
are `StructuralUpload`; `PilotChain` takes the sending and the commit of a batch as
one step, its application as another, and has all the commands instead.  What the upload has in common with `run_full` is the promise
`AckLedger` states.  `EvaluationRuns` extends `EvaluationMetrics`, whose recalls
the gate reads.

## Modules

| Module | What it is |
|---|---|
| `AckLedger` | What any upload checkpoint promises: items acknowledged only while a live target holds them, no fresh target under a ledger that is not empty. |
| `FullIngestion` | `run_full` with its checkpoint and index; implements `AckLedger`. |
| `StructuralUpload` | Upload commands, their ledger, report and collection, and finalize; implements `AckLedger`. |
| `PilotChain` | All structural commands of several operators, on one collection. |
| `QueryStaging` | Staging points, query lock, ingestion batches. |
| `SemanticCache` | `/chat` over the cache, on top of `QueryStaging`. |
| `Accounts` | Users, sessions, tokens, one action per MongoDB call. |
| `DemoAdmission` | Demo requests from identification to answer, their windows and slots. |
| `ChatFlow` | The handler of `/chat`, its progress and its outcome. |
| `ChatRecords` | Sessions and interactions under every request that writes them; the judge and its quota. |
| `Retrieval` | One question through retrievers, fusion, reranking, expansion and providers. |
| `RerankStaging` | Reranking requests, their threads and the staging collection. |
| `Workspaces` | One workspace under uploads, pins, analyses, reviews, claim and expiry. |
| `LegalRegistry` | Published reviews, and the view computed from them. |
| `VertexMigration` | Migration commands, the collection and the checkpoint files. |
| `FullDocuments` | The copies of full texts, their verification and the search of phrases. |
| `PineconePilot` | The pilot's commands on one namespace. |
| `LexicalIndex` | Content store and title index under builds and crashes. |
| `EvaluationMetrics` | The measures of retrieval and answers. |
| `EvaluationRuns` | Evaluation commands, their gate and artifacts. |
| `EvaluationSuite` | The golden suite, its checkpoint and report. |
| `GoldAdjudication` | Queues, decisions, previews and promotions of gold labels. |
| `Collections` | The library's operators on sequences and sets under names of their own, so that modules with proofs can be extended side by side. |
| `FullIngestionProofs`, `StructuralUploadProofs` | Inductive invariants and theorems of these two modules. |
| `QueryStagingProofs` | Of `QueryStaging`, `SemanticCache` and `RerankStaging`. |
| `ServicesProofs` | Of `Accounts` and `DemoAdmission`. |
| `ChatProofs` | Of `ChatFlow`, `ChatRecords` and `Retrieval`. |
| `ResearchProofs` | Of `Workspaces` and `LegalRegistry`. |
| `CopiesProofs` | Of `FullDocuments`, `LexicalIndex` and `PineconePilot`. |
| `OfflineProofs` | Of `PilotChain`, `EvaluationMetrics`, `EvaluationRuns`, `EvaluationSuite`, `GoldAdjudication` and `VertexMigration`. |
| `MC...` | Instances for TLC.  `MCServices`, `MCChat`, `MCResearch`, `MCCopies` and `MCOffline` hold several machines that share no state: a variable `machine`, chosen at the start, says which one moves. |

Operators named after another with a suffix (`Start_AnySize`, `Acquire_Unlocked`)
are sensitivity variants: the definition with a plausible slip in it.  Nothing
uses them; with one in the place of its original the property it is paired with
in `PROJECT.json` fails, which is how we know that the property can fail.

### From state and actions to code

* **FullIngestion.** Durable variables are tables or metrics of the checkpoint,
  volatile ones are locals of `run_full`, and `pc` is where it is.  One action per
  SQLite transaction (`RecordFailure`, `ClearFailures`, `MarkCompleted`, ...) and
  per remote call that changes something.  Documents are numbered in the order
  of iteration; `BatchOf` is the numbering `iter_numbered_batches` gives them.
  `skip` and `fresh` are read once, as in the code.  `Die` covers a kill and every
  exception that leaves `run_full`; what was in flight may land then, because
  `gather` does not cancel the siblings of the coroutine that raised.
* **QueryStaging.** A vector is represented by the text it embeds, so "the right
  vector" is equality.  `Call`, `Acquire`, `UpsertQuery`, `RetrieveQuery` follow
  `embed_query`; `TransientFailure` is one failed attempt of `_retry_qdrant`, after
  which the upsert did nothing, was applied, or is still in flight (`stray`).
  `strayed` records the points a stray upsert has reached.
* **SemanticCache.** One request per caller.  A score of 0.96 or more is taken as
  equal vectors: near-duplicate questions are one question.  `Generate` is the
  whole pipeline, with the two outcomes the caller tells apart; the pipeline's
  own query embeddings are left out (they take the same path as the cache's).
* **Accounts.** A request is a record of what its handler has read and the stage
  it is at; each stage is one MongoDB call.  `changes` counts the changes of a user
  that owe a revocation and a session carries the count it was opened under:
  history variables, used by no guard.  `owed` names users whose revocation a
  crash cut.  Expiry of a session or token is its removal, which `Logout` and
  `Consume` also do.
* **DemoAdmission.** A visit is chosen with its process, subject and kind of path;
  each stage ends at a call to MongoDB, a message of the body, or the answer.
  `InsertWindow` and `CountAttempt`/`OverQuota` are the two calls of
  `reserve_demo_budget`; `Unavailable` is every 401 and 503 of the identification
  and the reservations, with what was asked of the store done or not.  `held` is
  the set of windows a visit has reserved, a history variable.  Time is in
  minutes; a window's key is fixed when its reservation begins.
* **ChatFlow.** One action per await of the handler, from `Ask` to `SaveAnswer`; a
  chat carries its scope, the status the handler will log and whether evidence was
  found.  `progress` is the ordered dictionary of the registry, `CutChats` a
  restart.  Guardrails, cache and pipeline answer as they like.
* **ChatRecords.** A session is named by the chat that opened it and an interaction
  by its chat, as one `trace_id` has one row.  `asked` is how far each chat is,
  `job` each other request; every stage is one MongoDB call.  `quota` is the day and the
  counters of `DailyRagasQuota`, `reserved` what it answered yes to: a history variable.
  `day` turns at any time, a restart empties the process.
* **Retrieval.** A chunk is its identity, its document and its tokens.  Each lane
  (structural, full corpus, Vertex) reads its sources in one step, because nothing
  it does between them is seen outside, and is reranked in another; lanes
  interleave.  A read returns one of a few lists or fails; fusion, deduplication,
  interleaving and budgets are computed as the code does, item by item, with functions
  of the position (`first[i]` is what the loop has after i items).  `cooling` are the
  providers whose limiter refuses.
* **RerankStaging.** A request is what `rerank` awaits, an attempt the thread that
  `to_thread` runs; `TimedOut` ends the first and not the second.  `late` are upserts
  that Qdrant has yet to apply, `left` attempts whose points only a sweep deletes:
  a history variable.  A point is old (`Age`) when a sweep's filter by time finds it.
* **Workspaces.** `work[r]` is what a handler has read and does next.  A handler's
  single `update_one` with its filter is one step (`Save`/`Refuse`, `StoreDocument`,
  `Pin`, `Decide`); what it computed before is in `work`.  Where the filter repeats
  all that was read, read and update are one step (`RemoveDocument`, `Unpin`).
  `Left` is what `$filter` and `$pull` leave of a list: the entries at the positions
  kept, in their order.
  The kinds of analysis differ by what they require and log: the operators from
  `ContractReview` to `ReportVersion`.
* **LegalRegistry.** A review asserts one event about the document looked at.
  `EffectStatus`, `EffectiveFrom`, `EffectiveTo` are the two computations.
* **StructuralUpload.** A batch is the set of its records, because their contents
  are fixed by the manifest the checkpoint is bound to.  `job[p]` holds the locals of
  an upload command and `wave` its batches, one slot per worker; each of them
  succeeds, is retried or fails on its own, and `WaveSettled` is the end of
  `as_completed`.  `NextWave` is `islice` over what `iter_pending` has left;
  `CommitReceipt` is one transaction of `commit_receipt`, `CommitConflict` its
  refusal.  Receipts are sorted by record id, which is a hash: any order is
  allowed.  `durable` is what Qdrant has accepted and `visible` what
  `get_collection` counts; an upsert answers "completed" (both) or "acknowledged"
  (`Apply` follows).  A failed or killed call may have been applied.
  `FinalizeFails` is an exception, which leaves a receipt, or a kill, which does
  not; the next finalize then finds HNSW on.
* **PilotChain.** A command runs one stage after the other and each call to Qdrant or
  file written is a step, except that a check and the call it lets through are one.  An upsert counts for the code once it is acknowledged:
  `accepted` grows with it, `points`, which counts and reads show, only as
  `ApplyPoints` goes on, in any part and at any time.  `receipts` are immutable, with
  two history fields: the records the collection held when it was read back, and
  whether it was `behind` what it had accepted.  `source` and `corpus` are what every
  command compares with its plan's hashes.
* **VertexMigration.** `planned` is the list of records of `Diverse` documents, which
  `RowOffered` adds row by row, one document of each type, as `zip_longest` does;
  `ledger[f]` what a file is bound to and lists.  A point carries the model that
  embedded it.  A collection dropped outside marks files that list something as
  `doubtful`, a history field.
* **LexicalIndex.** `named` says which file stands behind each name, so that a
  process goes on in a file that another renamed or deleted.  A row carries the
  revision of the store it was read from, a history field.  `CrashBuild` may leave
  any part of a batch.
* **FullDocuments.** A text is the set of its phrases and stands for its SHA-256.  A
  request to Supabase or Qdrant is a step and a failed one may have been applied; the
  coverage check's two requests are one.  `verified` is the last verification that
  passed, forgotten when a text of the table changes, and `steady` whether it ran over
  unchanging texts: history variables.  Counts of uploaded rows, limit and offset of
  a search are left out.
* **PineconePilot.** A record has the version of the text it was last upserted with.
  `flying` and `done` are the batches of a wave, `torn` an upload that read other
  records than it had checked, `held` what the namespace held when it was counted:
  the last two are history fields.  An acknowledged record is counted at once.
* **EvaluationMetrics.** Pure operators; the machine lets a ranked list, or an answer
  and its reference, grow by one element a step, so all short lists are measured.
  `LcsRow` is a row of the table `dp`; `LongestCommon` is what it is compared with, the
  definition of a longest common subsequence.
* **EvaluationRuns.** `files` are the dataset, sidecar and audit summary that `Edit`
  replaces; a run carries the versions it `read`, `hashed` and evaluated at, and the
  artifacts it has written.  The tasks of one command share nothing but their result
  map, so all cases are one step.  The gate compares what `round()` left of its measures.
  The directory bound is that of a retrieval or rerank run; that of an answer run, which
  `validate_retrieval_run` would take too, is left out.
* **EvaluationSuite.** A row carries the fingerprint and the run it was evaluated
  under.  `writers` are the processes with the one temporary file open; a rename
  then leaves the rows of any of them, or a torn file.
* **GoldAdjudication.** Labels are a function of evidence; `LoadSources` is where a
  command reads dataset and sidecar, `Preview` and `Promote` where it uses them.

## Runs

| Run | Instance | Shows |
|---|---|---|
| `ingest_full` | 5 documents, batch sizes 2 and 3, windows of 2, 3 faults | `CompletedDurable`, `AuditExact`, `ReportSound`, refinement of `AckLedger`, `EventuallyReported` |
| `staging_replicas` | 2 processes, 2 questions | **fails**: the lock does not reach across processes |
| `staging_timeout` | 1 process, 2 threads | **fails**: a timed-out upsert applied late gives the next query the wrong vector |
| `cache` | 2 requests, 2 questions, 2 revisions, a restart, a reset, retries | vectors read are right, hits are right, every question is answered |
| `services` | two machines: 2 users, 2 requests at a time, 4 requests; 2 demo requests of every kind, 2 subjects, 2 processes, 1 slot, 2 minutes of a day | revocation is complete, deletion is final; slots are counted, quotas kept, work paid for |
| `accounts_crash` | the accounts of `services` | **fails**: a crash between the change and the revocation leaves sessions |
| `accounts_admins` | the same, two administrators at first | **fails**: two demotions each count two and leave none |
| `upload` | 2 upload commands, 6 records of which 2 are the probe's, batches of 1 or 2, 2 workers, 2 faults, 1 report path, 2 receipts | ledger, report and HNSW agree with Qdrant, no receipt is lost, reruns end; refinement of `AckLedger` |
| `chat` | four machines: 2 chats, 1 registry entry, a restart; 2 chats of 2 browsers and 2 accounts beside 2 other requests, 3 starts, 2 days; a question over 4 chunks of 2 documents in 5 settings; 3 rerankings of 2 rerankers | `OneOutcome`, `RowsKept`, `JudgeBudget`, `EvidenceBounded`, `FailuresShow`, `StagingApart` |
| `research` | two machines: a workspace of 2 documents, 1 law, 1 piece of evidence, 1 analysis under 2 requests; 3 reviews of every kind over 3 days | `AnalysesHaveDocuments`, `LogTellsSave`, `EditsKept`, `ViewAgrees` |
| `copies` | two machines: 3 documents in 2 editions, 2 operators, 4 commands; 3 records in 2 corpora and 2 texts, 2 operators, 4 commands | `ListUploaded`, `PhraseSearchExact`, `VerifiedNamespace` |
| `offline` | eight machines: staging, pilot, measures, commands, suite, gold, vertex, index | `BatchVectorsOwn`, `PassedVouches`, `MetricsExact`, `JudgedOnGatedEvidence`, `ReportsOwnRows`, `GoldAsReviewed`, `MigratedWhole`, `ReadyIsWhole` |

The four failing runs are disagreements between the code and what a comment or
document says of it; `PROJECT.json` quotes the lines.

### What the newer properties say

* `OneOutcome`: log, progress and stored answer agree, whatever is evicted or cut;
  an answered chat had evidence; a narrowed answer is never stored for others.
* `RowsKept`: feedback and scores do not bring a deleted interaction back, a row a
  user owns is not handed to another by any sign-ins.
* `JudgeBudget`: one judge at a time, on a reservation of its own, and those a process
  gives in a day within both limits, over midnights too.
* `EvidenceBounded`, `FailuresShow`: the final limits hold on every path; evidence
  reported as complete comes from a search in which no required part failed.
* `StagingApart`: an order from Qdrant ranks the request's own documents, as many as
  asked; points that stay behind are of lost attempts that a sweep removes.
* `AnalysesHaveDocuments`, `LogTellsSave`, `EditsKept`: see the module; the first is
  about analyses saved with the documents they name.
* `PassedVouches`: a finalize or verify that passed saw exactly its plan's records,
  unless points were still to be applied and another plan's made up the number; and
  Qdrant has accepted every record of a complete upload.
* `MigratedWhole`: a report means the whole, balanced plan is in the collection,
  unless the collection was deleted under the file.
* `ReadyIsWhole`: a usable index has every document and title, if its rows were read
  from a store of the revision the setting names.
* `ListUploaded`: an upload of a list that ended well has every document of it in the
  table that every edition of the store had.
* `PhraseSearchExact`: while the texts verified are those of the table, an unfiltered
  search finds every document with the phrase.
* `VerifiedNamespace`: a verification that passed saw exactly the plan's records.
* `MetricsExact`, `ReportsOwnRows`, `GoldAsReviewed`: the evaluation measures what it
  says, on what was reviewed, for the run it names.
* `JudgedOnGatedEvidence`: what a judge reads comes from a run that passed the gate, and
  passing means what the plans ask: no case failed or came back empty, and every gold
  document of a scored case is among the first `FinalLimit` candidates.

### Bounds and why they are enough

* `ingest_full`: with five documents both batch sizes give a short last batch and
  more than one window; three faults allow a failed upsert, a crash in the
  resumed run and the loss of the index in one behaviour.
* `cache`: two questions and two threads are the least that can mix vectors; two
  revisions and one restart let an entry outlive the deployment that saved it.
* `services`, accounts: two users suffice for "the last administrator", four requests for
  sign-in, change and a racing request.  Initially any user may be missing, plain
  or an administrator, so a long history is not needed to reach an
  interesting state.  Users and requests are symmetric, and no property of these
  runs is a liveness property.
* `services`, demo: a race for a window or a slot is between two requests, so two requests
  with windows and slots of size one reach every limit; the "ai" minute has room
  for two where its day has not, so that the second reservation is the one
  refused.  The proofs cover the real limits.
* `upload`: four records are pending, so a command sends a wave of two single
  records and, having grown, one batch of two, which is not how a command that
  did not grow cuts them.  Two faults allow a transient error with its retry, two
  retries and a shrink, a batch that fails beside a kill, a torn report.  The
  contract's 64 to 256 records a batch become 1 to 2, the three healthy waves
  before growth one; the proofs take any values.
* `chat`: a registry of one entry evicts at the second chat; two accounts sign in
  in one browser, which is the least that could hand a row over; limits of one
  make every second request for a score the refused one, and three starts are a
  chat and two other requests, or the two chats and one.  Two documents with two
  chunks, one of two tokens, reach the limit of chunks, of tokens and the share of
  a document; one of them is stale.  Reranking has two tries for all requests and
  one loss: two requests once, or one with a time-out and its next attempt.
  Accounts and jobs are symmetric.
* `research`: a removal between a read and a save needs two requests; bounds of one
  analysis and one piece of evidence make the oldest drop at once.  A workspace may
  start with what earlier requests left.  For the registry, three days put a review
  before, on and after the day of another.
* `copies`: four commands are an upload, a build, a rebuild of the store or another
  upload, and the verification between or after them; pages of two rows, so that three
  documents take two; five commands were run once, without a violation.  Pinecone: of three records the first and
  last are looked up and the corpora differ in the middle one; waves of two batches of
  one record; plans may have been audited and a stray record be there at the start.
* `offline`: two windows of two slots of two points for staging, a short last batch;
  for the pilot two plans that share one record, of which one probes only that and the
  other all it has, and seven commands: enough for one whole chain beside another plan's
  create and probe, whose late point a finalize and a verify then count in place of one
  of their own; for the commands one edit, two cases of which one
  is unverified in the first sidecar; two suites of two runs in all; two queues, previews and
  promotions in a chain; three migrations over two files with one drop; three index
  files and three commands that build, prepare or change the setting.  Operators are
  symmetric.

`CHECK_DEADLOCK FALSE` is set where the bound on requests, rounds, restarts, commands
or paths ends the behaviours; `ingest_full` checks deadlock.

### Fairness

* `FullIngestion!FairSpec`: weak fairness of the running process and of starting
  it again, which is what the runbook's Resume section has the operator do.  No
  fairness of faults or of a particular batch size.  After the bounded faults the
  checkpoint fills, or its index is gone and the run refuses to go on.
* `SemanticCache!FairSpec`: weak fairness of each started request and of its
  embedding thread: the event loop and the thread pool run what is runnable.
  `threading.Lock` is not fair, but each caller makes finitely many embeddings, so
  weak fairness of each caller is enough.
* `StructuralUpload!FairSpec`: weak fairness of each running upload command (a
  Qdrant call answers or times out, and the loop goes on) and of starting it
  again, which the operator does with the same arguments.  Nothing is assumed of
  `Apply`, of finalize or of a particular outcome.  `EventuallyUploaded` excepts the one
  case in which reruns cannot help: a kill inside `write_immutable_json` leaves a
  file at the path, and `_run_upload` refuses a path that exists.
* The other modules are checked for safety only: their commands and requests may
  stop anywhere, which is what their properties have to survive.

## Proofs

| Theorem | Says |
|---|---|
| `FullIngestionProofs!TypeCorrect`, `Durability`, `AuditExactness` | the invariants of `ingest_full` for every corpus, set of batch sizes, window and number of faults |
| `FullIngestionProofs!ReportSoundness` | the action property `ReportSound` |
| `FullIngestionProofs!Refinement` | `Spec => Ledger!LedgerSpec` |
| `StructuralUploadProofs!TypeCorrect`, `LedgerExactness` | the invariants of `upload` for every manifest, probe, contract and number of commands and faults; `LedgerExact` is `NoDoubleCount` and `ReportSound` |
| `StructuralUploadProofs!ActivationSound`, `ReceiptsSafe` | its action properties |
| `StructuralUploadProofs!Refinement` | `ImplementsLedger`, that is `Spec => Ledger!LedgerSpec` |
| `QueryStagingProofs!OneProcessQueries` | `SerializedVectorOwn` for any number of threads, slots, resets and retries, when all callers are in one process |
| `QueryStagingProofs!BatchesOwn` | `BatchVectorsOwn` for any number of processes, slots, texts, retries and resets |
| `QueryStagingProofs!OneProcessHits`, `OneProcessEmbeddings`, `CacheTypeCorrect` | the invariants of `cache`; the first two when all callers are in one process |
| `QueryStagingProofs!StagingKeptApart` | `StagingApart` for any number of rerankers, requests, attempts, restarts and sweeps and all limits |
| `ServicesProofs!TypeCorrect`, `Revocation`, `GoneForGood` | the properties of the accounts for every number of users and requests |
| `ServicesProofs!AdmissionTypeCorrect`, `NoSlotLeaks`, `Quotas`, `PaidFor` | the properties of the demo for every number of processes, requests and subjects and all limits |
| `ChatProofs!FlowTypeCorrect`, `OneStory` | types and `OneOutcome` for any number of chats and restarts and any size of the registry |
| `ChatProofs!KeptRows` | `RowsKept` for any browsers, accounts, chats and requests |
| `ChatProofs!JudgeWithinBudget` | `JudgeBudget` for all limits and any requests, days and restarts |
| `ChatProofs!EvidenceWithinBounds` | `EvidenceBounded` for any indexes, lists, rerankers and limits |
| `ChatProofs!FailuresTold` | `FailuresShow` for any indexes, lists, rerankers, limits and providers |
| `ResearchProofs!AnalysesDepend`, `LogsTell`, `EditsStay` | the properties of the workspace for any requests, documents and sources and all bounds on its lists |
| `ResearchProofs!ViewsAgree` | `ViewAgrees` for all events and dates and any order of reviews |
| `CopiesProofs!ListsUploaded`, `PhraseSearchesExact` | `ListUploaded` and `PhraseSearchExact` for any editions, lists, page sizes and commands |
| `CopiesProofs!ReadyIndexes` | `ReadyIsWhole` for any stores, builders, files and batch sizes |
| `CopiesProofs!VerifiedExactly` | `VerifiedNamespace` for any corpora, wave sizes and commands |
| `OfflineProofs!ChainTypeCorrect`, `ChainVouches` | types and `PassedVouches` for any operators, plans, records, commands and delays |
| `OfflineProofs!OwnReports` | `ReportsOwnRows` for any suites, datasets, configurations and runs |
| `OfflineProofs!GatedJudgements` | `JudgedOnGatedEvidence` for any commands, cases, labels and retrievals: what passing the gate means, and that it lasts |
| `OfflineProofs!ReviewedGold` | `GoldAsReviewed` for any evidence, candidates, commands and chain of promotions |
| `OfflineProofs!ListedHeld` | `ListedIsHeld`, the first part of `MigratedWhole`, for any commands, settings, documents, files and deletions |
| `OfflineProofs!MigrationWhole` | the whole of `MigratedWhole`: for any legal types, documents, exclusions, limits and commands |
| `OfflineProofs!ExactMeasures` | `MetricsExact` for any gold evidence, candidates and texts of any length |

**FullIngestion.** `CompletedDurable` is not inductive: it needs that a run's batch
size is the recorded one once a batch is completed (`SizeAgrees`), that a run that
may still reset the index has completed nothing (`Preparing`), that an outcome
"uploaded" or "cleared" has its documents in the index and, when cleared, outside
the audit (`WindowSound`), and that every batch not completed is ahead, in the
window or has set `errors` (`Accounted`), which gives `ReportSound`.  `IInv` is
their conjunction; the proof has a lemma per conjunct and a step per action.  The
arithmetic is in four lemmas on `BatchOf`.  Assumed: the four named assumptions on
the constants.

**StructuralUpload.** `LedgerExact` has two halves.  `CountedOnce` is inductive with the
types, since `commit_receipt` compares with every committed batch in the
transaction that inserts.  `ReportedComplete` needs more than the report: that a running
command holds every record the ledger does not, in `pending` or in its wave
(`NothingDropped`; a raised wave ends the command, which is why this survives a
failed batch), so that an empty `pending` means a full ledger.  `LedgerSound` ties
every batch state to Qdrant: what is acknowledged in a slot or committed has been
accepted; it gives the refinement.  `Activating` says that between the count and
`update_collection` all records stay visible.  The counting lemmas (a subset of the
records that has as many members is all of them) cite the library.  Assumed: the
five named assumptions on the constants.

**QueryStaging.** `LockSound` says that a caller past `Acquire` is the sole holder of
its process's lock; with `SingleProcess` it is then the only caller between upsert
and retrieve, and `QueryPointOwn` says that the point holds its text as long as no
stray upsert reached it.  `SingleProcess` is an assumption of the theorem, and
`staging_replicas` shows that it is needed, `staging_timeout` that the condition on
strays is.  Batches need neither: `BatchPointApart` says that no two slots share a
point, so between upsert and read each point of a batch holds its own text or nothing,
unless a stray reached it (`WrittenOwn`).

**SemanticCache.** Every step of it is a step of the staging collection, frees a caller
that has its vector, or restarts a process, and `QueryInv` survives all three
(`CacheInv`).  `RequestBound` adds that the embedding a request waits for is of its own
question.  Then what is stored and what is looked up are both of the text they stand
for, which is `HitAnswersQuestion`.

**RerankStaging.** No lock: what keeps requests apart is that each attempt of each
request has points of its own.  `RerankInv` follows one attempt (`AttemptApart`): before
it stages, nothing of it is in the collection or under way, also when the request has
been answered long since and its thread runs on; when it asks for the order it has all
of its points and none is old enough for a sweep; when its thread ends, what is left of
it is known to be lost.

**Accounts.** `TypeOK /\ RevocationComplete` is inductive as it stands, given that
the type invariant says what a request at each stage has with it (`Fits`).

**DemoAdmission.** `QuotaKept` speaks of requests, the code compares counters:
`Covered` says that each counter bounds the number of its holders (a lost answer
counts without a holder) and stays within its limit.  `SlotsCounted` is inductive
given the types; `Progressed` says how far a request at each stage has paid, and
that only an upload, already holding its slot, is inside OCR.  Cardinalities use
the library's theorems on finite sets.  Assumed: that the set of requests is
finite, and that limits and bounds are natural numbers.

**Chat.** `FlowInv` adds to the types what a chat at each stage has settled
(`ChatSettled`: the status it will log is earned, the log is missing or has that
status, only an approved chat over evidence that was not narrowed is saved)
and what an entry of the registry may show (`ProgressSettled`: another status than
"running" only of a chat that has responded).  `RowsInv` says that a chat that has
not ended has no row, that a session is there only after its chat opened it, and
that a session's id names one row: without the last, a claim of one row could be
read as a change of another.

For the judge, `CountersExact` says that the counters are the numbers of reservations of
their day and that there is none of a later day, `WithinLimits` that this holds the
limits on every day, and `JobsPaid` that a job reserves once, since whoever has a
reservation is past the check; cardinalities cite the library.

**Retrieval.** `SearchInv` says of each lane that one which failed or found nothing shows
nothing, and that one which reports itself whole has lost no source, but for the two the
full corpus may leave out; the outcome of a merge then shows what either lane lost.

`EvidenceInv` bounds what each lane shows and what they come to: within the final limits
on length, tokens and share of a document and without repetition, but for the v3
collection, which is bounded in length alone, as its expansion fills articles up
afterwards.  Every path ends in a selection or passes on a list that has been selected;
that a selection is within its limits after each item (`BoundedWithin`), and that
fusion, deduplication, interleaving and a reranker's order give lists of chunks that
repeat nothing (`AddedList`, `AlternateList`, `RankingList`), are lemmas about the list
operators.
Assumed: `RetrievalAssumption`, that is positive limits, tokens in every chunk, and
that a source lists a point once.

**Lists made position by position.** A loop over a list is a recursive function of the
position.  That such a function exists for a list of any length is `Unrolled`: the
values up to n can always be continued by one.  What it computes is then shown by
induction over the positions (`Induction`), which rests on the numbers being well
founded and is a lemma about sets of numbers, so no operator is instantiated.  The
proofs of `EvidenceBounded`, `MigratedWhole` and `MetricsExact` use these two lemmas
for every loop.

**Workspaces.** An invariant of what handlers remember: an entry of `analyses` has an id
that no other has, of a request that is over (`AnalysesSound`), with its documents and
the log it claims; a request's log fits its stage (`LogFits`); and a decision under way
has seen an older version of the review, or the very one there is (`SeenFits`), which is
why a version that did not change means a review that did not.  Progress has one entry
an input (`ProgressSound`).  Lists are cut to their newest entries and filtered: the
lemmas `NewestOf` and `LeftOf` say where each entry that stays has been.  Assumed:
`WorkspaceAssumption`.

**LegalRegistry.** `ViewAgrees` follows from the reviews being events: the last status
event of a day decides the status, and the interval is a maximum and a minimum of dates.
That these exist for any set of dates is the well-foundedness of finite sets
(`LeastDay`, `LastDay`).  Assumed: days and dates are natural numbers, and the four kinds
of event that `legal_effect.py` admits.

**The copies.** All three compare counts, and a count that agrees says little by itself.
`ListInv`: a command has copied its list up to where it is, over every edition the store
had meanwhile.  `SearchInv`: a verification under way has counted only points whose text
is the table's, and no build holds a page older than the texts verified; so an equal
count means all documents.  `IndexInv`: no file says that it has more documents than it
has, and nobody else is on a file that is being compacted.  `PineconeInv`: what a
checkpoint lists is in the namespace and, unless the upload read another corpus, of its
plan; what a finished upload counted is then the whole plan, and an equal count leaves
room for nothing else.

**PilotChain.** `ChainInv`: Qdrant has accepted the records of a probe that passed, of a
ledger and of a complete upload (`ProbedHeld`, `CommittedHeld`, `CompleteHeld`); what
is applied was accepted (`AppliedAccepted`), and what was accepted is a record of a plan
that adopted the empty collection (`AcceptedAdopted`); a command past its checks can
vouch for what they saw (`CommandsBound`).  An equal count over a collection that has
applied a whole plan means that it holds nothing else; if a record is missing, some
point is of another plan, and not all was applied (`CountedVouches`).  So with one plan,
or once all is applied, a sample and a count vouch for the whole.  It needs that no
command ever deletes a point.

**EvaluationSuite.** `SuiteInv` says that a checkpoint, torn or not, holds rows whose
question belongs to their own fingerprint, that a running suite has each of its
questions either done or to do, and that a row it took over is valid under its
fingerprint.

**EvaluationRuns.** A run that another is bound to has written its results, and its rows
change no more (`BoundHeld`), whoever edits the files: the gate that was passed when it
was bound is passed still, and an answer's candidates are those rows.  What the gate
says of them is a matter of sums: the recall of a case is at most 1 and is 1 only if each
document was found (`RecallIs`), a ratio of sums is 1 only if each of its ratios is
(`SumsAgree`, `MicroIs`, by induction over the size of a set, since the sum follows a
choice), and of fewer than `Rounding` documents one that is missing shows
(`GateFindsGold`), as does one failure of as many cases (`GateFindsFailures`).  Assumed:
`RunsAssumption`, that is finitely many cases, and gold in lists.

**GoldAdjudication.** `GoldInv`: queues, decisions and sidecars are only appended to; a
verified label was so at first or was put where it has its reference (`SoundLabel`); a
promotion was built from the sidecar of its queue and its decisions (`Built`).  A normal
queue has no more cases than a batch, because no two cases have the same turn.  Assumed:
`AdjudicationAssumption`, that is finite sets, and ids with different digests.

**VertexMigration.** `MigrationInv`: every point is of a model that a file is bound to
(`ModelsAreBound`); a file is bound before it lists anything, never to something else
afterwards, and lists only what is there (`LedgerHeld`); a command past `OpenLedger` has
its file bound to what it was set to, and the batch whose answer it has is there
(`CommandHeld`).  A file that is `doubtful` is excused from then on.

`PlansHeld` gives the rest of `MigratedWhole`: what a running command has planned is the
plan of its settings, and each record of it is listed or pending, so that nothing
pending means all listed, whoever else writes to the file.  That a plan has the first
and the last chunk of a document is arithmetic (`SpreadEnds`: the rounded places begin
at 0 and end at the last).  That the choice is balanced comes from `Sampled`, which is
kept by every offer: until the limit is reached the sample holds all that was offered,
and whatever it holds it also holds of every earlier row; two types therefore differ by
one row and by what was excluded (`IsBalanced`).  Assumed: `MigrationAssumption`, that is
positive limits, a file for each setting, distinct types, finitely many exclusions, a
chunk in every document that is not flawed, and that the store lists a document once,
under one type.

**EvaluationMetrics.** The state says only that the lists are lists; the work is in the
operators.  `RanksAre`: a gold item is taken at most once, and the i-th rank taken is at
least i, so no gain exceeds the ideal one.  `FirstFound`, `FullRecall`, `AllFound` and
`NoneLost` relate first rank, recalls, required items and the loss per stage, from the
nesting of the levels.  `LcsIsLongest`: each entry of `dp` is the length of a longest
list left of two beginnings (`Longest`), because such a list either ends in both last
tokens, and the rest is left of the beginnings without them, or misses one of the two
(`SharedSplit`); `LcsIsCommon`: what is left of both in order is common without regard to
it.  Assumed: `MetricsAssumption`, that is gold in finite lists, placed in a document
and of one of the three levels.

Only model-checked: the three liveness properties `EventuallyReported`,
`EventuallyUploaded` and `EveryQuestionAnswered`, since the prover has no fairness.
Every safety invariant and action property that a passing run checks is proved.  The
failing runs are TLC's by nature.

## What the code promises less than the docs

Seen while modelling, beside the four failing runs.  The models have these steps;
the properties are stated so that they hold with them.

* A chat in flight writes its interaction after its session was deleted or the
  account's history erased (`docs/CURRENT_ARCHITECTURE.md:274`), and a claim misses what
  an anonymous chat in flight writes later.  `RowsKept` therefore speaks of chats that are over.
* Answers over selected evidence, comparisons and obligation matrices are saved without
  naming the documents their evidence came from, and survive the removal of those
  (`docs/CURRENT_ARCHITECTURE.md:34`); a clause pin can land after its document was removed.
* Unpin and pin start the version of a review again at zero, so a review of the
  earlier pin may land on the later one.  `EditsKept` is about findings and batches.
* Two scores of one interaction may both pass the executed check, and each runs the
  judge; the quota belongs to one process and a restart forgets it (`README.md:224`).
* A hybrid index that failed goes unreported where nothing is left after reranking
  ("no_candidate") or where the other lane found the evidence
  (`docs/CURRENT_ARCHITECTURE.md:265`); `FailuresShow` names the exception.
* A rewriting may be the text of a provider failure.
* The reranker's limit of staged points is checked once per cleanup interval, its
  refusal is retried, and the retry skips the check; of two rerankers that create the
  collection at once the loser fails.
* A registry document repealed with only a future start shows "repealed" and no end;
  `ViewAgrees` requires an end only of a document that had started.
* A `create` that dies before its payload indexes leaves a collection no later create
  adopts; a second plan that had adopted the empty collection may upload after the
  first was verified.
* Finalize and verify read a count and a few samples, while the upload was content with
  "acknowledged": with points still to be applied and a second plan in the collection
  they may pass on one of its records in place of a missing one.  `PassedVouches` names
  both conditions.
* A migration's record ids carry no model: two contracts of one vector size overwrite
  each other's points while both files list them; a file survives its collection.
* Only the setting names the dataset of an index: one built before `prepare` of another
  revision of as many documents is ready, and a title of another revision that a torn batch
  left makes up in the count for one that is missing; a torn batch leaves a file that every later
  build resumes and fails on until it is deleted by hand.
* The gate checks neither the gold sidecar nor the profile of the run it binds, and can
  pass on one scored case; a failed output guardrail overwrites a retrieval error;
  the dataset is hashed apart from being read.  `JudgedOnGatedEvidence` excepts the last.
* The plans ask a document recall of 1.0 and no failure
  (`docs/superpowers/plans/2026-08-11-vietlex-structural-recall-hardening.md:18`), but the
  gate reads measures rounded to four places: with 20,000 gold documents, or more than
  20,000 cases, it may pass over one.  `JudgedOnGatedEvidence` is bounded by `Rounding`.
* The upload without a list resumes from the file a list left (`--checkpoint` has one
  default) and passes over every document below the last id; a build of the phrase
  index never copies a row that came below its last id until the file is removed.
* The verification compares texts only: a point may keep an older type or authority and
  a filtered search miss it (`PhraseSearchExact` is about searches without filter); and
  a build that holds an old page may write it after the page was verified.
* The pilot's verify does not recompute the manifest, so an upload whose corpus was
  rebuilt under it passes by a count and sixteen samples; an upload resumed under other
  code for the embedded text mixes two texts that no version then completes.
* Two suites share the name of one temporary file; two promotions of one sidecar fork it.

## Not modelled

In the modelled parts: wording, metrics and timing of reports; authentication of
the administrator (every administrative request is taken as authorised), CSRF,
slowapi's rate limits and e-mail; the audit log; the 0.96 threshold as a number; an
index deleted by a third party while a run is working.  The demo's refusal counters,
its quota page and the expiry of a window two days after it began were left out:
nothing is decided by them.  For `StructuralUpload`: token usage and its totals, except
that a record is counted once; the choice between gRPC and REST; a kill inside the write
of the finalize receipt; the schema checks of the readbacks, which the code compares
with constants; rate limits as a category, which the code passes to the controller only
for a wave that failed, whose controller is dropped with the command.  For the chat:
what guardrails, models and judges answer.  For retrieval: scores, except as orders, and
texts.  For workspaces: extraction, renaming and listing, the prompts and validation of
analyses.  For the evaluation: decision packages, the structural and Pinecone evaluations,
reports and exports.

Hazards that are real and not covered, because the runbook forbids them or the code has no
answer to them: two full ingestions on one checkpoint; an index that vanishes between
`has_index` and `reset_or_create_index`; a reset of the staging collection under its callers
(it is a step of `QueryStaging`, without a promise); a login that verified the old password
and inserts its session after a reset (it counts as a new session); two valid tokens of one
user; an admin change whose audit record is not written; the race of two publications of a
body index.

Liveness is stated for ingestion, upload and the cache only: elsewhere nothing must
happen unless somebody asks again.  Components without state of their own stay out, as
`PROJECT.json` says one by one: there is nothing about them that order could break.

## Plan

Done, in this order: ingestion, staging and cache, accounts, demo, upload; then chat,
workspaces, registry, pilot chain, retrieval, evaluation, gold, reranking, migration,
index, full texts, Pinecone pilot; with proofs for all of them.  What could follow, each a step of its own:

1. the publication of the body index (`body_remote.py`) and the lanes of body search;
2. the thresholds below 1 (articles, clauses, required items), of which no property says
   more than the gate does.
