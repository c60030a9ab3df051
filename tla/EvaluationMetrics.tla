-------------------------- MODULE EvaluationMetrics --------------------------
(***************************************************************************)
(* The measures of the offline evaluation: app/evaluation/                 *)
(* retrieval_metrics.py, retrieval_gate.py and answer_metrics.py.  The     *)
(* machine lets a ranked list of candidates and an answer grow by one      *)
(* element per step, so that every short list is measured.                 *)
(*                                                                         *)
(* A missing field is "".  A ratio is its numerator and denominator; one   *)
(* that does not apply has the denominator 0.                              *)
(***************************************************************************)
EXTENDS Integers, Sequences, FiniteSets, Collections

CONSTANTS Golds,        \* lists of verified, required evidence
          Candidates,   \* [id, number, article, clause]
          Canonical,    \* of a locator as it was written: normalize_legal_identifier
          Tokens,       \* of an answer
          MaxRank, MaxTokens    \* bounds

\* Evidence is verified only in a document that was found, at a RequiredLevel.
ASSUME MetricsAssumption ==
  /\ {MaxRank, MaxTokens} \subseteq Nat
  /\ \A gs \in Golds :
       /\ gs \in Seq({gs[i] : i \in DOMAIN gs})
       /\ \A i \in DOMAIN gs : /\ gs[i].id # "" \/ gs[i].number # ""
                             /\ gs[i].level \in {"document", "article", "clause"}

VARIABLES gold, ranked, answer, reference

metricsVars == <<gold, ranked, answer, reference>>

-----------------------------------------------------------------------------
(* match_gold_to_stage_candidate: a candidate is matched by document, then  *)
(* by article, then by clause.                                              *)

Same(a, b) == a # "" /\ b # "" /\ Canonical[a] = Canonical[b]

DocumentMatch(g, c) == (g.id # "" /\ g.id = c.id) \/ Same(g.number, c.number)

Unplaced(g) == g.id = "" /\ g.number = ""

ArticleMatch(g, c) ==
  IF g.article = "" THEN DocumentMatch(g, c)
  ELSE (DocumentMatch(g, c) \/ Unplaced(g)) /\ Same(g.article, c.article)

ClauseMatch(g, c) == ArticleMatch(g, c) /\ (g.clause = "" \/ Same(g.clause, c.clause))

\* _level_match
LevelMatch(level, g, c) == CASE level = "document" -> DocumentMatch(g, c)
                             [] level = "article" -> ArticleMatch(g, c)
                             [] level = "clause" -> ClauseMatch(g, c)

\* matches_required_level
RequiredMatch(g, c) == LevelMatch(g.level, g, c)

\* _exact_reference_matches: by numbers alone, every locator written.
ExactMatch(g, c) ==
  /\ Same(g.number, c.number)
  /\ g.level # "document" => Same(g.article, c.article)
  /\ g.level = "clause" => Same(g.clause, c.clause)

-----------------------------------------------------------------------------
(* Ratios of one case.                                                      *)

Ratio(n, d) == [n |-> n, d |-> d]
Inapplicable == Ratio(0, 0)

Matched(gs, cs, level) ==
  {i \in DOMAIN gs : \E j \in DOMAIN cs : LevelMatch(level, gs[i], cs[j])}

AtMost(cs, k) == SubSeq(cs, 1, SetExt!Min({k, Len(cs)}))

\* _gold_by_level
OfLevels(gs, levels) ==
  LET first[i \in 0..Len(gs)] ==
        IF i = 0 THEN <<>>
        ELSE IF gs[i].level \in levels THEN Append(first[i - 1], gs[i]) ELSE first[i - 1]
  IN  first[Len(gs)]
ArticleGold(gs) == OfLevels(gs, {"article", "clause"})
ClauseGold(gs) == OfLevels(gs, {"clause"})

\* _recall_by_k: not defined beyond the capacity of the stage.
RecallAt(gs, cs, level, k, capacity) ==
  IF k > capacity \/ gs = <<>> THEN Inapplicable
  ELSE Ratio(Cardinality(Matched(gs, AtMost(cs, k), level)), Len(gs))

\* _build_stage_metrics: a stage that lists documents has no articles.
StageRecalls(gs, cs, k, capacity, documentOnly) ==
  LET Placed(items, level) == IF documentOnly THEN Inapplicable
                              ELSE RecallAt(items, cs, level, k, capacity)
  IN  [document |-> RecallAt(gs, cs, "document", k, capacity),
       article |-> Placed(ArticleGold(gs), "article"),
       clause |-> Placed(ClauseGold(gs), "clause")]

\* _first_match_rank; 0 is none.  _mrr is its reciprocal.
FirstRank(gs, cs, level) ==
  LET hits == {j \in DOMAIN cs : \E i \in DOMAIN gs : LevelMatch(level, gs[i], cs[j])}
  IN  IF hits = {} THEN 0 ELSE SetExt!Min(hits)

\* mutant: a gold item may be counted at every rank that matches it
RelevantRanks_Reused(gs, cs) ==
  SelectSeq([j \in DOMAIN cs |-> j], LAMBDA j : \E i \in DOMAIN gs : RequiredMatch(gs[i], cs[j]))

\* _relevant_ranks: each candidate takes the first gold item still unmatched.
TakeGold(taken, gs, c, rank) ==
  LET free == {i \in DOMAIN gs \ taken.items : RequiredMatch(gs[i], c)}
  IN  IF free = {} THEN taken
      ELSE [items |-> taken.items \union {SetExt!Min(free)}, ranks |-> Append(taken.ranks, rank)]
RelevantRanks(gs, cs) ==
  LET after[j \in 0..Len(cs)] ==
        IF j = 0 THEN [items |-> {}, ranks |-> <<>>] ELSE TakeGold(after[j - 1], gs, cs[j], j)
  IN  after[Len(cs)].ranks

\* multi_hop: whether every required item is in the evidence.
AllRequired(gs, cs) ==
  IF gs = <<>> THEN Inapplicable
  ELSE LET all == \A i \in DOMAIN gs : \E j \in DOMAIN cs : RequiredMatch(gs[i], cs[j])
       IN  Ratio(IF all THEN 1 ELSE 0, 1)

\* _first_loss over the stages that lead to the evidence: 0 if none loses the item.
FirstLoss(g, stages, documentOnly) ==
  LET Survives(s) == \E j \in DOMAIN stages[s] :
                       IF s \in documentOnly THEN DocumentMatch(g, stages[s][j])
                       ELSE RequiredMatch(g, stages[s][j])
      lost == {s \in DOMAIN stages : ~Survives(s)}
  IN  IF lost = {} THEN 0 ELSE SetExt!Min(lost)

-----------------------------------------------------------------------------
(* aggregate_retrieval_metrics and the gate.                                *)

\* QUALITY_SKIP_STATUSES; a case without verified gold is skipped as well.
Skipped(row) == \/ row.status \in {"retrieval_error", "reranker_error",
                                   "input_guardrail_rejected", "input_guardrail_error"}
                \/ row.gold = <<>>

\* calculate_case_retrieval_metrics
Unless(row, ratio) == IF Skipped(row) THEN Inapplicable ELSE ratio
DocumentRecall(row, k, capacity) ==
  Unless(row, RecallAt(row.gold, row.source, "document", k, capacity))
ArticleRecall(row, k, capacity) ==
  Unless(row, RecallAt(ArticleGold(row.gold), row.final, "article", k, capacity))
ClauseRecall(row, k, capacity) ==
  Unless(row, RecallAt(ClauseGold(row.gold), row.final, "clause", k, capacity))
MultiHop(row) == Unless(row, AllRequired(row.gold, row.final))

\* _aggregate_ratios, the micro average: one ratio over all the cases.
Micro(ratios) == Ratio(SetExt!MapThenSumSet(LAMBDA c : ratios[c].n, DOMAIN ratios),
                       SetExt!MapThenSumSet(LAMBDA c : ratios[c].d, DOMAIN ratios))

\* Each kind of failure has a rate of its own.
FailureKinds == {{"no_candidate"}, {"retrieval_error", "partial_retrieval_error"},
                 {"reranker_error"}}

\* aggregate_retrieval_metrics, of which the gate reads these.
Aggregate(rows, k, sourceCapacity, finalCapacity) ==
  [document |-> Micro([c \in DOMAIN rows |-> DocumentRecall(rows[c], k, sourceCapacity)]),
   article |-> Micro([c \in DOMAIN rows |-> ArticleRecall(rows[c], k, finalCapacity)]),
   clause |-> Micro([c \in DOMAIN rows |-> ClauseRecall(rows[c], k, finalCapacity)]),
   multiHop |-> Micro([c \in DOMAIN rows |-> MultiHop(rows[c])]),
   failures |-> {Ratio(Cardinality({c \in DOMAIN rows : rows[c].status \in kind}),
                       Cardinality(DOMAIN rows)) : kind \in FailureKinds}]

\* A threshold in percent, for a measure that round() cut to four places; a half counts
\* up, but for 18999/20000, whose double is less.  A measure that is missing fails.
Reaches(ratio, percent) == ratio.d > 0 /\ 20000 * ratio.n + ratio.d >= 200 * percent * ratio.d
\* A rate that was rounded to nothing.
Vanishes(ratio) == ratio.d > 0 /\ 20000 * ratio.n < ratio.d

\* evaluate_retrieval_gate
Gate(rows, k, sourceCapacity, finalCapacity) ==
  LET measured == Aggregate(rows, k, sourceCapacity, finalCapacity)
  IN  /\ Reaches(measured.document, 100)
      /\ Reaches(measured.article, 95) /\ Reaches(measured.clause, 90)
      /\ Reaches(measured.multiHop, 95)
      /\ \A rate \in measured.failures : Vanishes(rate)

-----------------------------------------------------------------------------
(* answer_metrics.py: the answer and its reference as lists of tokens.      *)

\* Of a token among the first n.
Count(t, s, n) == Cardinality({i \in 1..n : s[i] = t})

\* token_level_metrics: an occurrence is common if the other text has as many; F1 is
\* twice the common ones over both lengths.
Common(x, y) == Cardinality({i \in 1..Len(x) : Count(x[i], x, i) <= Count(x[i], y, Len(y))})

\* lcs_length, row by row
LcsRow(above, token, y) ==
  LET row[j \in 0..Len(y)] ==
        IF j = 0 THEN 0
        ELSE IF token = y[j] THEN above[j - 1] + 1 ELSE SetExt!Max({row[j - 1], above[j]})
  IN  row
LcsLength(x, y) ==
  LET dp[i \in 0..Len(x)] ==
        IF i = 0 THEN [j \in 0..Len(y) |-> 0] ELSE LcsRow(dp[i - 1], x[i], y)
  IN  dp[Len(x)][Len(y)]

\* classify_response_refusal: the first that holds; `claims` are citations or length.
Category(failure, evidence, refusal, claims, disclaimer) ==
  IF failure THEN "technical_error"
  ELSE IF ~evidence THEN "no_evidence"
  ELSE IF refusal THEN IF claims THEN "mixed_claim_refusal" ELSE "pure_refusal"
  ELSE IF disclaimer THEN "disclaimer" ELSE "normal_answer"

IsRefusal(category) == category \in {"no_evidence", "pure_refusal"}

\* ANSWER_QUALITY_SKIP_STATUSES
Scored(status) == status \notin {"input_guardrail_error", "output_guardrail_error",
                                 "retrieval_error", "reranker_error"}

-----------------------------------------------------------------------------
MetricsInit ==
  /\ gold \in Golds /\ ranked = <<>>
  /\ answer = <<>> /\ reference = <<>>

\* Either the list of candidates or the two texts.
Retrieve == /\ answer = <<>> /\ reference = <<>> /\ Len(ranked) < MaxRank
            /\ \E c \in Candidates : ranked' = Append(ranked, c)
            /\ UNCHANGED <<gold, answer, reference>>

Write1 == /\ ranked = <<>> /\ reference = <<>> /\ Len(answer) < MaxTokens
          /\ \E t \in Tokens : answer' = Append(answer, t)
          /\ UNCHANGED <<gold, ranked, reference>>

Write2 == /\ ranked = <<>> /\ Len(reference) < MaxTokens
          /\ \E t \in Tokens : reference' = Append(reference, t)
          /\ UNCHANGED <<gold, ranked, answer>>

MetricsNext == Retrieve \/ Write1 \/ Write2
MetricsSpec == MetricsInit /\ [][MetricsNext]_metricsVars

-----------------------------------------------------------------------------
\* The longest list of tokens that is left of both texts, by definition.
Places(n, m) == {p \in [1..n -> 1..m] : \A i, j \in 1..n : i < j => p[i] < p[j]}
LeftOfBoth(n, x, y) ==
  \E p \in Places(n, Len(x)), q \in Places(n, Len(y)) : \A i \in 1..n : x[p[i]] = y[q[i]]
LongestCommon(x, y) == SetExt!Max({n \in 0..Len(x) : LeftOfBoth(n, x, y)})

(* The measures mean what their names say on every short list: no list of  *)
(* candidates earns a gain above the ideal one (nDCG stays within 1); the  *)
(* first rank and the recalls agree about when something was found; what   *)
(* is found by clause is found by article and by document; all required    *)
(* items are there only if the recall of every level is full and exactly   *)
(* if no stage lost one; an exact reference is a required match;           *)
(* lcs_length is the length of a longest common subsequence, so that       *)
(* ROUGE-L never exceeds token F1.                                         *)
MetricsExact ==
  /\ LET ranks == RelevantRanks(gold, ranked)
     IN  Len(ranks) <= Len(gold) /\ \A i \in DOMAIN ranks : i <= ranks[i]
  /\ \A k \in 1..MaxRank : gold # <<>> =>
       LET recall == RecallAt(gold, ranked, "document", k, MaxRank)
       IN  (recall.n > 0) = (FirstRank(gold, ranked, "document") \in 1..k)
  /\ AllRequired(gold, ranked).n = 1 =>
       LET recalls == StageRecalls(gold, ranked, MaxRank, MaxRank, FALSE)
       IN  \A level \in DOMAIN recalls : recalls[level].n = recalls[level].d
  /\ Matched(gold, ranked, "clause") \subseteq Matched(gold, ranked, "article")
  /\ Matched(gold, ranked, "article") \subseteq Matched(gold, ranked, "document")
  /\ (AllRequired(gold, ranked).n = AllRequired(gold, ranked).d) =
       \A i \in DOMAIN gold : FirstLoss(gold[i], <<ranked, ranked>>, {1}) = 0
  /\ \A i \in DOMAIN gold, j \in DOMAIN ranked :
       ExactMatch(gold[i], ranked[j]) => RequiredMatch(gold[i], ranked[j])
  /\ LcsLength(answer, reference) = LongestCommon(answer, reference)
  /\ LcsLength(answer, reference) <= Common(answer, reference)
===============================================================================
