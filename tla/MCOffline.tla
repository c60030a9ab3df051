------------------------------ MODULE MCOffline ------------------------------
(* Machines that share no state: the staging points of an ingestion window *)
(* beside a thread that embeds queries; the commands of two operators on   *)
(* two structural plans; the measures of the evaluation; its commands; the *)
(* golden suite; the adjudication of gold; migrations to the Vertex        *)
(* collection; and the local index of titles.  `machine` says which one is *)
(* run, the others keep one initial state.                                 *)
EXTENDS MCQueryStaging, PilotChain, EvaluationRuns, EvaluationSuite, GoldAdjudication,
        VertexMigration, LexicalIndex

CONSTANTS o1, o2, x, y, law, commit, r1, r2, r3, reviewer

VARIABLE machine

MCOperators == {o1, o2}
Symmetry == Permutations(MCOperators)
MCPlans == {x, y}
MCRecords == {x, y, law}
MCCorpus == [d \in MCPlans |-> {d, law}]
\* One plan probes what they share, the other all it has.
MCProbe == [d \in MCPlans |-> IF d = x THEN {law} ELSE {d, law}]
MCSources == {commit}

-----------------------------------------------------------------------------
(* Gold evidence by every level and identity, candidates that match each of *)
(* their parts; outcomes that pass the gate or miss one of its conditions.  *)

Gold(id, number, article, clause, level) ==
  [id |-> id, number |-> number, article |-> article, clause |-> clause, level |-> level]
Candidate(id, number, article, clause) ==
  [id |-> id, number |-> number, article |-> article, clause |-> clause]

ClauseGold1 == Gold("d1", "n1", "5", "1", "clause")
ArticleGold1 == Gold("", "n1", "5", "", "article")
DocumentGold2 == Gold("d2", "", "", "", "document")

MCGolds == {<<>>, <<ClauseGold1>>, <<ArticleGold1, ClauseGold1>>,
            <<DocumentGold2, ClauseGold1>>, <<ArticleGold1, ArticleGold1>>}
Found == Candidate("d1", "", "5.", "1")
Missed == Candidate("d2", "", "", "")
MCCandidates == {Found, Missed, Candidate("d1", "n1", "5", ""), Candidate("d2", "n1", "5", "1"),
                 Candidate("", "n1", "5", "1")}
MCCanonical == [s \in {"n1", "5", "5.", "1"} |-> IF s = "5." THEN "5" ELSE s]

Outcome(found, candidates, evidence) ==
  [status |-> found, source |-> candidates, final |-> evidence]
MCRetrieved == {Outcome("ok", <<Found>>, <<Found>>),
                Outcome("partial_retrieval_error", <<Found>>, <<Found>>),
                Outcome("ok", <<Missed, Found>>, <<Found, Missed>>),
                Outcome("ok", <<Missed, Found>>, <<Missed>>)}

MCRuns == {r1, r2, r3}
MCKindOf == r1 :> "retrieval" @@ r2 :> "rerank" @@ r3 :> "answer"
MCCases == {"case1", "case2"}
\* The second version of the dataset has the two questions in the other order.
MCQuestionOf == [v \in {"v1", "v2"} |-> [c \in MCCases |->
  IF v = "v1" THEN c ELSE CHOOSE d \in MCCases \ {c} : TRUE]]
\* In the first sidecar one case is still unverified.
MCLabelsOf == [s \in {"first", "second"} |-> [c \in MCCases |->
  [required |-> <<ClauseGold1>>,
   verified |-> IF c = "case2" /\ s = "first" THEN <<>> ELSE <<ClauseGold1>>]]]


MCGroups == <<"factoid", "unanswerable">>
MCGolden == [v \in {"v1", "v2"} |-> [g \in {"factoid", "unanswerable"} |->
  IF g = "factoid" THEN <<"a", "b", "c">> ELSE IF v = "v1" THEN <<"d">> ELSE <<"e">>]]
MCCounts == [factoid |-> 1, unanswerable |-> 1]
MCConfigurations == {[setting |-> "x", judge |-> TRUE, cache |-> FALSE],
                     [setting |-> "x", judge |-> FALSE, cache |-> TRUE]}

\* A sample of any size keeps the order, repeats nothing, and has both ends.
ASSUME SamplesAssumption ==
  \A n \in 2..6 : \A k \in 2..n :
    LET sample == EvenlySpaced([i \in 1..n |-> i], k)
    IN  /\ sample[1] = 1 /\ sample[k] = n
        /\ \A i \in 1..(k - 1) : sample[i] < sample[i + 1]

-----------------------------------------------------------------------------
(* Two cases with one piece of evidence each; documents with the reference at *)
(* the required level and with it above that level.                          *)

MCCaseOf == [e \in {"e1", "e2"} |-> IF e = "e1" THEN "case1" ELSE "case2"]
MCLevelOf == [e \in {"e1", "e2"} |-> IF e = "e1" THEN "clause" ELSE "article"]
MCKindOfCase == [c \in MCCases |-> IF c = "case1" THEN 1 ELSE 0]
MCLegalTypeOf == [d \in {"", "d1", "d2", "d3"} |-> d]
MCAnchorLevel == [e \in {"e1", "e2"} |->
  IF e = "e1" THEN [d \in {"d1"} |-> "clause"]
  ELSE [d \in {"d2", "d3"} |-> IF d = "d2" THEN "article" ELSE "document"]]
MCTiers == <<<<"d1">>, <<"d2", "d3">>>>
MCFtsHits == [c \in MCCases |-> IF c = "case1" THEN <<"d1">> ELSE <<"d1", "d2">>]
MCRootLabels == [e \in {"e1", "e2"} |->
  [status |-> "unresolved", document |-> "", level |-> "document"]]

-----------------------------------------------------------------------------
(* Commands that share the collection, a checkpoint file, or both; that have  *)
(* another model, or one the collection cannot take.                          *)

Migrate(model, size, ledgerFile, create, limit, excluded, per_document, max_points) ==
  [model |-> model, size |-> size, file |-> ledgerFile, create |-> create,
   types |-> <<"law", "decree">>,
   limit |-> limit, excluded |-> excluded, per_document |-> per_document, max_points |-> max_points]
MCInvocations ==
  {Migrate("g2", 768, "file1", TRUE, 2, {}, 2, 9), Migrate("g2", 768, "file1", FALSE, 2, {1}, 2, 9),
   Migrate("g2", 768, "file2", FALSE, 3, {}, 1, 2), Migrate("g3", 768, "file2", TRUE, 2, {}, 2, 9),
   Migrate("g3", 1024, "file1", TRUE, 2, {}, 2, 9)}
MCByType == [t \in {"law", "decree"} |-> IF t = "law" THEN <<1, 3, 4>> ELSE <<2>>]
MCChunksOf == <<4, 1, 2, 1>>

\* Two revisions of as many documents, and a snapshot that lacks a content.
MCSnapshots ==
  [v \in {"v1", "v2", "torn"} |-> LET ids == IF v = "v2" THEN {1, 2, 4} ELSE {1, 2, 3}
     IN  [metadata |-> ids, contents |-> IF v = "torn" THEN ids \ {3} ELSE ids, empty |-> {}]]

-----------------------------------------------------------------------------
Machines == {"staging", "pilot", "measures", "commands", "suite", "gold", "vertex", "index"}

OfflineInit ==
  /\ machine \in Machines
  /\ StagingInit /\ PilotInit /\ MetricsInit /\ EvalInit /\ SuiteInit /\ GoldInit /\ MigrationInit
  /\ IndexInit
  /\ machine # "staging" => batch = CHOOSE b \in [Slots -> ReadyBatches] : TRUE
  /\ machine = "staging" => batch[0].count = BatchSize  \* only the last may be short
  /\ machine # "pilot" => corpus = {}
  /\ machine # "measures" => gold = <<>>
  /\ machine # "index" => setting = "v1" /\ named.index = 0
  /\ files.dataset = "v1" /\ files.sidecar = "first" /\ edition = "v1"

OfflineNext ==
  /\ UNCHANGED machine
  /\ \/ machine = "staging" /\ StagingNext
        /\ UNCHANGED <<pilotVars, metricsVars, runVars, suiteVars, goldVars, vertexVars, indexVars>>
     \/ machine = "pilot" /\ PilotNext
        /\ UNCHANGED <<stagingVars, metricsVars, runVars, suiteVars, goldVars, vertexVars, indexVars>>
     \/ machine = "measures" /\ MetricsNext
        /\ UNCHANGED <<stagingVars, pilotVars, runVars, suiteVars, goldVars, vertexVars, indexVars>>
     \/ machine = "commands" /\ EvalNext
        /\ UNCHANGED <<stagingVars, pilotVars, metricsVars, suiteVars, goldVars, vertexVars, indexVars>>
     \/ machine = "suite" /\ SuiteNext
        /\ UNCHANGED <<stagingVars, pilotVars, metricsVars, runVars, goldVars, vertexVars, indexVars>>
     \/ machine = "gold" /\ GoldNext
        /\ UNCHANGED <<stagingVars, pilotVars, metricsVars, runVars, suiteVars, vertexVars, indexVars>>
     \/ machine = "vertex" /\ MigrationNext
        /\ UNCHANGED <<stagingVars, pilotVars, metricsVars, runVars, suiteVars, goldVars, indexVars>>
     \/ machine = "index" /\ IndexNext
        /\ UNCHANGED <<stagingVars, pilotVars, metricsVars, runVars, suiteVars, goldVars, vertexVars>>

OfflineSpec == OfflineInit /\
  [][OfflineNext]_<<machine, stagingVars, pilotVars, metricsVars, runVars, suiteVars, goldVars,
                    vertexVars, indexVars>>
==============================================================================
