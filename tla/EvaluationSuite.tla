---------------------------- MODULE EvaluationSuite ----------------------------
(***************************************************************************)
(* run_eval_suite.py: the golden questions are evaluated by concurrent     *)
(* tasks; after each the checkpoint file is replaced, and the next run     *)
(* restores from it the rows that are valid under its own fingerprint.     *)
(*                                                                         *)
(* Runs may be killed and started again with another configuration, and    *)
(* two may share the checkpoint file, whose temporary file has one name.   *)
(***************************************************************************)
EXTENDS Integers, Sequences, FiniteSets, Collections
LOCAL INSTANCE TLC

CONSTANTS Suites,             \* processes
          Golden,             \* [group -> list of questions] of each dataset version
          Groups, Counts,     \* the groups in order; how many questions of each
          Configurations,     \* [setting, judge, cache]; runtime_evaluation_configuration
          Observed,           \* outcomes that may be met
          Judges,             \* providers in the chain of the judge
          MaxSuiteRuns        \* bound

ASSUME SuiteAssumption ==
  /\ MaxSuiteRuns \in Nat /\ Judges \in Nat \ {0}
  /\ \A g \in DOMAIN Counts : Counts[g] \in Nat
  /\ \A v \in DOMAIN Golden : \A g \in DOMAIN Counts : Counts[g] <= Len(Golden[v][g])

VARIABLES checkpoint,     \* [state, rows]: the file is missing, torn or whole
          writers,        \* processes writing to the temporary file
          suite, report, started

suiteVars == <<checkpoint, writers, suite, report, started>>

-----------------------------------------------------------------------------
(* load_evaluation_dataset                                                  *)

\* _evenly_spaced: the first and the last, and others between them.
EvenlySpaced(items, count) ==
  IF count = 1 THEN <<items[1]>>
  ELSE [i \in 1..count |-> items[1 + (((i - 1) * (Len(items) - 1)) \div (count - 1))]]

\* _interleave_groups: the first of each group, then the second of each.
RoundRobin(lists) ==
  LET longest == SetExt!Max({0} \union {Len(lists[i]) : i \in DOMAIN lists})
      Round(n) == SelectSeq(lists, LAMBDA list : n <= Len(list))
  IN  SeqExt!FlattenSeq([n \in 1..longest |-> [i \in DOMAIN Round(n) |-> Round(n)[i][n]]])

CasesOf(v) == RoundRobin([i \in DOMAIN Groups |->
                            EvenlySpaced(Golden[v][Groups[i]], Counts[Groups[i]])])

\* evaluation_fingerprint
Fingerprint(v, configuration) == [cases |-> CasesOf(v)] @@ configuration

-----------------------------------------------------------------------------
(* evaluate_single_query: the outcome of a row                              *)

Errors == {"Input Guardrail Error", "rag_error", "Output Guardrail Error"}

\* run_with_provider_fallback: the next judge is asked after a transient error
\* or for a missing model; any other error is final, and so is the last one.
JudgeChain(answers) ==
  LET final == {i \in DOMAIN answers : answers[i] # "unavailable" \/ i = Len(answers)}
      answer == answers[SetExt!Min(final)]
  IN  IF answer \in {"Generated: pass", "Generated: fail"} THEN answer ELSE "Eval Failed"

Judgements == {JudgeChain(answers) : answers \in
  [1..Judges -> {"Generated: pass", "Generated: fail", "unavailable", "error"}]}

\* An apology is an answer whose text tells of a failure.
Outcomes(fingerprint) ==
  Errors \union {"Blocked Input", "No Evidence", "Blocked Output", "Honest Refusal", "Apology"}
  \union (IF fingerprint.cache THEN {"Cache Hit"} ELSE {})
  \union (IF fingerprint.judge THEN Judgements ELSE {"Ragas skipped"})

\* mutant: a row that failed counts as done
ValidRow_Failed(row, fingerprint) == row.fingerprint = fingerprint

\* is_valid_checkpoint; every error carries a text.
ValidRow(row, fingerprint) ==
  /\ row.fingerprint = fingerprint
  /\ row.outcome \notin Errors \union {"Eval Failed", "Apology"}

\* summarize_outcomes
Completed(rows) == {q \in DOMAIN rows : rows[q].outcome \notin Errors}
Correct(rows) == {q \in Completed(rows) : rows[q].outcome = "Generated: pass"}
Generated(rows) == {q \in Completed(rows) :
  rows[q].outcome \in {"Generated: pass", "Generated: fail", "Ragas skipped", "Apology",
                       "Eval Failed"}}
Refused(rows) == {q \in Completed(rows) : rows[q].outcome \in {"No Evidence", "Honest Refusal"}}

-----------------------------------------------------------------------------
NoRows == [q \in {} |-> ""]
NoFingerprint == [cases |-> <<>>, setting |-> "", judge |-> FALSE, cache |-> FALSE]
Off == [stage |-> "off", run |-> 0, fingerprint |-> NoFingerprint, rows |-> NoRows, todo |-> {}]
NoReport == [run |-> 0, fingerprint |-> NoFingerprint, rows |-> NoRows]
File(state, rows) == [state |-> state, rows |-> rows]

SuiteInit ==
  /\ checkpoint = File("none", NoRows) /\ writers = {}
  /\ suite = [s \in Suites |-> Off]
  /\ report = NoReport /\ started = 0

QuestionsOf(fingerprint) == {fingerprint.cases[i] : i \in DOMAIN fingerprint.cases}

\* A checkpoint that cannot be read is ignored.
Restored(fingerprint) ==
  LET rows == checkpoint.rows
      valid == {q \in DOMAIN rows : ValidRow(rows[q], fingerprint)}
  IN  [q \in valid |-> rows[q]]

StartSuite(s) ==
  /\ suite[s].stage = "off" /\ started < MaxSuiteRuns
  /\ started' = started + 1
  /\ \E v \in DOMAIN Golden, configuration \in Configurations, fresh \in BOOLEAN :
       LET fingerprint == Fingerprint(v, configuration)
           rows == IF fresh THEN NoRows ELSE Restored(fingerprint)
       IN  suite' = [suite EXCEPT ![s] =
             [stage |-> "evaluate", run |-> started', fingerprint |-> fingerprint, rows |-> rows,
              todo |-> QuestionsOf(fingerprint) \ DOMAIN rows]]
  /\ UNCHANGED <<checkpoint, writers, report>>

\* The temporary file is opened; opening drops what dead processes left in it.
Open(s) == writers' = {s} \union {w \in writers : suite[w].stage \in {"write", "finish"}}

\* A task ends and its row joins the others.
Evaluate(s) ==
  LET run == suite[s]
  IN  /\ run.stage = "evaluate"
      /\ \E q \in run.todo, outcome \in Observed \intersect Outcomes(run.fingerprint) :
           suite' = [suite EXCEPT ![s].stage = "write", ![s].todo = @ \ {q},
             ![s].rows = [p \in DOMAIN @ \union {q} |->
                IF p = q THEN [outcome |-> outcome, fingerprint |-> run.fingerprint,
                               run |-> run.run] ELSE @[p]]]
      /\ Open(s)
      /\ UNCHANGED <<checkpoint, report, started>>

\* After the last one the ordered rows are written once more.
Finish(s) ==
  /\ suite[s].stage = "evaluate" /\ suite[s].todo = {}
  /\ suite' = [suite EXCEPT ![s].stage = "finish"]
  /\ Open(s)
  /\ UNCHANGED <<checkpoint, report, started>>

\* os.replace: the file may hold what any of its writers wrote, or a mixture.
Replaced(s) ==
  /\ s \in writers /\ writers' = {}
  /\ checkpoint' \in {File("whole", suite[w].rows) : w \in writers}
                     \union (IF writers = {s} THEN {} ELSE {File("torn", NoRows)})

Replace(s) ==
  /\ suite[s].stage = "write" /\ Replaced(s)
  /\ suite' = [suite EXCEPT ![s].stage = "evaluate"]
  /\ UNCHANGED <<report, started>>

\* Another process has replaced the file and left none: the run ends.
NoFile(s) ==
  /\ suite[s].stage \in {"write", "finish"} /\ s \notin writers
  /\ suite' = [suite EXCEPT ![s] = Off]
  /\ UNCHANGED <<checkpoint, writers, report, started>>

Report(s) ==
  /\ suite[s].stage = "finish" /\ Replaced(s)
  /\ report' = [run |-> suite[s].run, fingerprint |-> suite[s].fingerprint,
                rows |-> suite[s].rows]
  /\ suite' = [suite EXCEPT ![s] = Off]
  /\ UNCHANGED started

Kill(s) == /\ suite[s].stage # "off"
           /\ suite' = [suite EXCEPT ![s] = Off]
           /\ UNCHANGED <<checkpoint, writers, report, started>>

SuiteNext == \E s \in Suites :
  StartSuite(s) \/ Evaluate(s) \/ Replace(s) \/ NoFile(s) \/ Finish(s) \/ Report(s) \/ Kill(s)
SuiteSpec == SuiteInit /\ [][SuiteNext]_suiteVars

-----------------------------------------------------------------------------
(* A report answers for itself, whatever was killed, resumed under another *)
(* configuration or written to the checkpoint by another run: it has one   *)
(* row for each question of its own dataset and no other, every row was    *)
(* evaluated under its fingerprint, and a row it took from an earlier run  *)
(* is not one that failed there, so that a failure is always tried again.  *)
(* No technical failure counts as a correct answer or a refusal.           *)
ReportsOwnRows == report # NoReport =>
  LET rows == report.rows
  IN  /\ DOMAIN rows = QuestionsOf(report.fingerprint)
      /\ \A q \in DOMAIN rows :
           /\ rows[q].fingerprint = report.fingerprint
           /\ rows[q].run # report.run =>
                rows[q].outcome \notin Errors \union {"Eval Failed", "Apology"}
      /\ Correct(rows) \subseteq Generated(rows)
      /\ Refused(rows) \intersect Generated(rows) = {}
===============================================================================
