---------------------------- MODULE EvaluationRuns ----------------------------
(***************************************************************************)
(* The evaluation commands run_retrieval_eval.py and run_answer_eval.py:   *)
(* each selects cases from a dataset and its gold labels, may bind an      *)
(* earlier retrieval run through the quality gate, and leaves an immutable *)
(* directory of artifacts, written file by file (app/evaluation/           *)
(* retrieval_gate.py, run_manifest.py, case_selection.py).                 *)
(*                                                                         *)
(* Files are edited at any time.  A command that fails or is killed takes   *)
(* no further step.  The tasks of one command share nothing but its result *)
(* map: their order changes nothing, so that one step evaluates all cases. *)
(***************************************************************************)
EXTENDS EvaluationMetrics

CONSTANTS Runs, NoRun, KindOf,    \* the commands: "retrieval", "rerank" or "answer"
          Cases, Versions, QuestionOf,    \* what a version of the dataset asks
          Sidecars, LabelsOf,             \* [required, verified] lists of gold labels
          Retrieved,                      \* [status, source, final] retrievals may return
          FinalLimit, SourceLimit,        \* capacities of the profile
          MaxEdits                        \* bound

ASSUME RunsAssumption ==
  /\ NoRun \notin Runs /\ IsFiniteSet(Cases) /\ MaxEdits \in Nat
  /\ \A s \in Sidecars, c \in Cases :
       LET labels == LabelsOf[s][c].required IN labels \in Seq({labels[i] : i \in DOMAIN labels})

VARIABLES files,     \* the dataset, the sidecar, and what the audit summary covers
          runs, edits

runVars == <<files, runs, edits>>

Unused == [kind |-> "none", stage |-> "unused", backend |-> "", ranking |-> "",
           judge |-> FALSE, read |-> "", at |-> "", hashed |-> "", cases |-> {},
           bound |-> NoRun, rows |-> <<>>, written |-> {}]

EvalInit ==
  /\ \E v \in Versions, s \in Sidecars :
       files = [dataset |-> v, sidecar |-> s, audited |-> <<v, s>>]
  /\ runs = [r \in Runs |-> Unused] /\ edits = 0

\* A new dataset or sidecar, with a new audit summary or before it.
Edit ==
  /\ edits < MaxEdits /\ edits' = edits + 1
  /\ \E v \in Versions, s \in Sidecars, covered \in BOOLEAN :
       /\ <<v, s>> # <<files.dataset, files.sidecar>>
       /\ files' = [dataset |-> v, sidecar |-> s,
                    audited |-> IF covered THEN <<v, s>> ELSE files.audited]
  /\ UNCHANGED runs

AtPhase(r, stage) == runs[r].stage = stage
SetRun(r, run) == runs' = [runs EXCEPT ![r] = run] /\ UNCHANGED <<files, edits>>
Goes(r, stage) == SetRun(r, [runs[r] EXCEPT !.stage = stage])

-----------------------------------------------------------------------------
(* perform_pre_execution_validation and select_evaluation_cases            *)

\* The policy all-required-verified.
Eligible(s, c) == LabelsOf[s][c].required # <<>> /\ LabelsOf[s][c].verified = LabelsOf[s][c].required

Modes == {[backend |-> "production", ranking |-> "raw-rrf"],
          [backend |-> "vertex-qdrant-v3", ranking |-> "raw-rrf"],
          [backend |-> "vertex-qdrant-v3", ranking |-> "qdrant-colbert"]}

Start(r, kind, mode, judge) ==
  /\ AtPhase(r, "unused") /\ KindOf[r] = kind
  /\ files.audited = <<files.dataset, files.sidecar>>
  /\ LET selected == {c \in Cases : Eligible(files.sidecar, c)}
     IN  /\ selected # {}
         /\ SetRun(r, [Unused EXCEPT !.kind = kind, !.stage = "selected", !.judge = judge,
                                  !.backend = mode.backend, !.ranking = mode.ranking,
                                  !.read = files.dataset, !.cases = selected,
                                  !.rows = [c \in selected |->
                                     [gold |-> LabelsOf[files.sidecar][c].required]]])

StartRetrieval(r) == \E mode \in Modes : Start(r, "retrieval", mode, FALSE)
StartAnswer(r) == \E mode \in Modes, judge \in BOOLEAN : Start(r, "answer", mode, judge)
\* --candidate-pool-run: only the ColBERT order of a passing raw-RRF run.
StartRerank(r) == Start(r, "rerank", [backend |-> "vertex-qdrant-v3",
                                      ranking |-> "qdrant-colbert"], FALSE)

-----------------------------------------------------------------------------
(* validate_retrieval_run                                                   *)

NeedsRun(run) == \/ run.kind = "rerank"
                 \/ run.kind = "answer" /\ (run.judge \/ run.backend # "production")

Expected(run) == IF run.kind = "rerank" THEN "raw-rrf" ELSE run.ranking

\* mutant: the dataset of the run is not compared
Validates_AnyDataset(run, s) ==
  /\ {"manifest", "results"} \subseteq s.written
  /\ s.backend = run.backend /\ s.ranking = Expected(run) /\ s.cases = run.cases
  /\ Gate(s.rows, FinalLimit, SourceLimit, FinalLimit)

\* The gate is computed again from the rows, whatever the run wrote of it.
Validates(run, s) ==
  /\ {"manifest", "results"} \subseteq s.written
  /\ s.backend = run.backend /\ s.ranking = Expected(run)
  /\ s.hashed = files.dataset /\ s.cases = run.cases
  /\ Gate(s.rows, FinalLimit, SourceLimit, FinalLimit)

\* The directory of a run of run_retrieval_eval.py; a run that needs none goes on.
Bind(r) ==
  LET run == runs[r]
  IN  /\ AtPhase(r, "selected") /\ NeedsRun(run)
      /\ \E s \in Runs \ {r} :
           /\ runs[s].kind \in {"retrieval", "rerank"} /\ Validates(run, runs[s])
           /\ SetRun(r, [run EXCEPT !.stage = "bound", !.bound = s, !.at = files.dataset])

\* create_run_manifest hashes the dataset file again; prepare_run_directory.
Prepare(r) ==
  /\ \/ AtPhase(r, "bound")
     \/ AtPhase(r, "selected") /\ ~NeedsRun(runs[r])
  /\ SetRun(r, [runs[r] EXCEPT !.stage = "running", !.hashed = files.dataset])

-----------------------------------------------------------------------------
(* Evaluating the cases                                                     *)

WithGold(run, c, found) == [gold |-> run.rows[c].gold, status |-> found.status,
                            source |-> found.source, final |-> found.final]

\* evaluate_single_retrieval_case
EvaluateRetrieval(r) ==
  LET run == runs[r]
  IN  /\ AtPhase(r, "running") /\ run.kind = "retrieval"
      /\ \E found \in [run.cases -> Retrieved] :
           SetRun(r, [run EXCEPT !.stage = "evaluated",
                              !.rows = [c \in run.cases |-> WithGold(run, c, found[c])]])

\* rerank_persisted_vertex_candidates: another order of a selection of the
\* candidates of the bound run, whose identity is asserted.
EvaluateRerank(r) ==
  LET run == runs[r]
      pool == runs[run.bound].rows
      Orders(c) == {found \in Retrieved : /\ found.source = pool[c].source
                                          /\ found.status \in {"ok", "no_candidate"}}
  IN  /\ AtPhase(r, "running") /\ run.kind = "rerank"
      /\ \E found \in [run.cases -> Retrieved] :
           /\ \A c \in run.cases : found[c] \in Orders(c)
           /\ SetRun(r, [run EXCEPT !.stage = "evaluated",
                                 !.rows = [c \in run.cases |-> WithGold(run, c, found[c])]])

\* run_stage_a_online with guardrails enforced: what becomes of one case.  A
\* rejected or failed output check replaces the status the retrieval left.
Verdicts == {"safe", "unsafe", "error"}
OnlineStatus(input, retrieval, output) ==
  CASE input = "unsafe" -> "input_guardrail_rejected"
    [] input = "error" -> "input_guardrail_error"
    [] output = "unsafe" -> "output_guardrail_rejected"
    [] output = "error" -> "output_guardrail_error"
    [] OTHER -> IF retrieval \in {"no_candidate", "retrieval_error", "reranker_error"}
                THEN retrieval ELSE "ok"

\* run_stage_b_offline: the judge reads scored, grounded answers that refuse nothing.
Judged(run, status, evidence, category) ==
  run.judge /\ Scored(status) /\ evidence # <<>> /\ ~IsRefusal(category)

\* Of an answer that nobody judges the status is kept.
AnswerRow(run, found, input, output, category) ==
  LET status == OnlineStatus(input, found.status, output)
      evidence == IF input = "safe" THEN found.final ELSE <<>>
      judged == Judged(run, status, evidence, category)
  IN  [answer |-> status, judged |-> judged, final |-> IF judged THEN evidence ELSE <<>>]

Categories(found) == {Category(failure, found.final # <<>>, refusal, claims, disclaimer) :
                        failure, refusal, claims, disclaimer \in BOOLEAN}

\* What was retrieved for a case: by the run itself, or by the one it is bound to.
FoundFor(run, c) ==
  IF run.bound = NoRun THEN Retrieved
  ELSE {[status |-> runs[run.bound].rows[c].status, source |-> runs[run.bound].rows[c].source,
         final |-> runs[run.bound].rows[c].final]}

AnswerRows(run, c) ==
  UNION {{AnswerRow(run, found, input, output, category) :
            input \in Verdicts, output \in Verdicts, category \in Categories(found)} :
         found \in FoundFor(run, c)}

EvaluateAnswers(r) ==
  LET run == runs[r]
  IN  /\ AtPhase(r, "running") /\ run.kind = "answer"
      /\ \E rows \in [run.cases -> UNION {AnswerRows(run, c) : c \in run.cases}] :
           /\ \A c \in run.cases : rows[c] \in AnswerRows(run, c)
           /\ SetRun(r, [run EXCEPT !.stage = "evaluated", !.rows = rows])

-----------------------------------------------------------------------------
(* The artifacts: the manifest and the case set, then the results; the gate  *)
(* and the report follow, which no command reads.                           *)

Artifact == [evaluated |-> "manifest", manifest |-> "results"]

WriteArtifact(r) ==
  LET run == runs[r]
  IN  /\ run.stage \in DOMAIN Artifact
      /\ SetRun(r, [run EXCEPT !.stage = Artifact[run.stage],
                               !.written = @ \union {Artifact[run.stage]}])

RunStep(r) == \/ StartRetrieval(r) \/ StartAnswer(r) \/ StartRerank(r)
              \/ Bind(r) \/ Prepare(r)
              \/ EvaluateRetrieval(r) \/ EvaluateRerank(r) \/ EvaluateAnswers(r)
              \/ WriteArtifact(r)

EvalNext == Edit \/ \E r \in Runs : RunStep(r)
EvalSpec == EvalInit /\ [][EvalNext]_runVars

-----------------------------------------------------------------------------
\* A command whose dataset was not edited between its reading and its hashing.
Steady(run) == run.read = run.hashed

\* The gate compares rates of four places: one of so many is rounded away.
Rounding == 20000

(* An answer is judged only on gated evidence: a judge's row comes from a   *)
(* retrieval run that passed the gate on the same cases, it is the row of   *)
(* its own case, retrieved without a technical failure, and for the same    *)
(* question, also through a run that reranked the candidates of another;    *)
(* and what was bound does not change under it.  That run has found every   *)
(* document of the gold among the candidates that the gate counts.  The     *)
(* question may differ only where the dataset was edited while one of the   *)
(* commands started; the gate compares rounded rates, which hide one        *)
(* failure or one document among `Rounding` and more.                       *)
JudgedOnGatedEvidence ==
  \A a \in Runs : runs[a].kind = "answer" /\ "results" \in runs[a].written =>
    \A c \in runs[a].cases :
      LET run == runs[a]
          source == runs[run.bound]
      IN  run.rows[c].judged =>
            /\ run.bound # NoRun /\ c \in source.cases
            /\ run.rows[c].final = source.rows[c].final
            /\ Cardinality(source.cases) <= Rounding =>
                 source.rows[c].status \notin UNION FailureKinds
            /\ Micro([q \in source.cases |-> DocumentRecall(source.rows[q], FinalLimit,
                                                            SourceLimit)]).d < Rounding =>
                 \A q \in source.cases : ~Skipped(source.rows[q]) =>
                   LET row == source.rows[q]
                   IN  Matched(row.gold, AtMost(row.source, FinalLimit), "document") = DOMAIN row.gold
            /\ Steady(source) /\ run.read = run.at =>
                 QuestionOf[run.read][c] = QuestionOf[source.read][c]
            /\ source.bound # NoRun =>
                 source.rows[c].source = runs[source.bound].rows[c].source
===============================================================================
