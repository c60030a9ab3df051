------------------------------ MODULE Retrieval ------------------------------
(***************************************************************************)
(* One question through the retrieval and answer pipeline:                 *)
(* app/services/rag_pipeline.py over the structural retriever, the         *)
(* full-corpus retriever, the Vertex retriever and the language models.    *)
(*                                                                         *)
(* Indexes and providers are external: a read returns one of a few lists   *)
(* or fails, a reranker returns any order of what it was given, cut where  *)
(* its scores fall below the minimum.  The two lanes run concurrently;     *)
(* what each source of a lane returned and what failed is its state.  Text *)
(* is left out: a chunk is its identity, its document and its tokens.      *)
(***************************************************************************)
EXTENDS Integers, SequencesExt, FiniteSetsExt

CONSTANTS Chunks, DocumentOf, Tokens,
          Stale,              \* documents whose index entries have an old hash
          ChunkLists, DocumentLists,     \* what an index may return
          Neighbors,          \* the chunks of the same and the adjacent articles
          FusedLimit, FusedPerDocument, InputLimit, LocalLimit, ReturnLimit,
          FinalLimit, MaxTokens, PerDocument,
          Matches,            \* the chunks with words of the question, for some questions
          Configured,         \* secondary model providers that have a key
          Settings,           \* the configurations of the service and the evaluations
          RrfK

ASSUME RetrievalAssumption ==
  /\ Chunks \subseteq Nat /\ Tokens \in [Chunks -> Nat \ {0}]
  /\ Neighbors \in [Chunks -> SUBSET Chunks] /\ Matches \subseteq SUBSET Chunks
  /\ \A hits \in ChunkLists : hits \in Seq(Chunks) /\ IsInjective(hits)    \* a point comes once
  /\ Settings \subseteq [backend : {"parallel", "vertex", "full_corpus"}, rewrite : BOOLEAN,
                         expand : BOOLEAN, final_rerank : BOOLEAN]
  /\ {FusedLimit, FusedPerDocument, InputLimit, LocalLimit, ReturnLimit,
      FinalLimit, MaxTokens, PerDocument, RrfK} \subseteq Nat \ {0}

VARIABLES
  config,         \* the backend and its switches, from the settings
  stage,          \* of the question
  query,          \* what the retrievers are asked
  lanes,          \* the retrievers at work
  outcome,        \* what they came to
  cooling         \* _cooldowns of the secondary providers

retrievalVars == <<config, stage, query, lanes, outcome, cooling>>

LaneNames == {"structural", "full_corpus", "vertex"}
Active == IF config.backend = "parallel" THEN {"structural", "full_corpus"}
          ELSE IF config.backend = "vertex" THEN {"vertex"} ELSE {"full_corpus"}

Fresh == [at |-> "sources", input |-> << >>, errors |-> {}, evidence |-> << >>,
          status |-> "none"]

RetrievalInit ==
  /\ config \in Settings
  /\ stage = "rewrite" /\ query = "asked"
  /\ lanes = [l \in LaneNames |-> Fresh] /\ outcome = Fresh
  /\ cooling = {}

-----------------------------------------------------------------------------
(* Lists of candidates                                                     *)

Added(l, c) == IF c \in Range(l) THEN l ELSE Append(l, c)
FirstOnly(s) == FoldLeft(Added, << >>, s)
AtRank(l, s, i) == IF i <= Len(s) THEN Added(l, s[i]) ELSE l
\* _interleave_evidence and balanced_document_ids: by rank, the first list first.
Alternate(s, t) ==
  LET l[i \in 0..Max({Len(s), Len(t)})] ==
        IF i = 0 THEN << >> ELSE AtRank(AtRank(l[i - 1], s, i), t, i)
  IN  l[Max({Len(s), Len(t)})]

FromDocument(s, d) == Cardinality({i \in DOMAIN s : DocumentOf[s[i]] = d})
TokensIn(s) ==
  LET n[i \in 0..Len(s)] == IF i = 0 THEN 0 ELSE n[i - 1] + Tokens[s[i]] IN n[Len(s)]

\* mutant: each document as often as it comes
Taken_AnyDocument(l, c, limit, documents, budget) ==
  IF Len(l) < limit /\ TokensIn(Append(l, c)) <= budget THEN Append(l, c) ELSE l

Taken(l, c, limit, documents, budget) ==
  IF /\ Len(l) < limit /\ FromDocument(l, DocumentOf[c]) < documents
     /\ TokensIn(Append(l, c)) <= budget
  THEN Append(l, c) ELSE l

\* select_ranked_evidence, select_final_structural_candidates,
\* bounded_fused_candidates: in order, what still fits.
Bounded(s, limit, documents, budget) ==
  LET l[i \in 0..Len(s)] ==
        IF i = 0 THEN << >> ELSE Taken(l[i - 1], s[i], limit, documents, budget)
  IN  l[Len(s)]

NoBudget == SumFunction(Tokens)
Final(s) == Bounded(s, FinalLimit, PerDocument, MaxTokens)

\* A reranker's order of its input, as far as the scores reach the minimum.
Rankings(s, limit) ==
  UNION {Injection(1..n, Range(s)) : n \in 0..Min({limit, Cardinality(Range(s))})}

\* A read of an index.
Reads(lists) == [ok : {TRUE}, hits : lists] \union {[ok |-> FALSE, hits |-> << >>]}

Doing(l, at) == stage = "retrieve" /\ l \in Active /\ lanes[l].at = at
\* A lane that failed has nothing to show; the others say what they found.
Ends(l, status, evidence, errors) ==
  lanes' = [lanes EXCEPT ![l] = [Fresh EXCEPT !.at = "done", !.status = status,
                                              !.evidence = evidence, !.errors = errors]]
ToRerank(l, input, errors) ==
  lanes' = [lanes EXCEPT ![l] = [Fresh EXCEPT !.at = "rerank", !.input = input,
                                              !.errors = errors]]
common == <<config, stage, query, outcome, cooling>>

-----------------------------------------------------------------------------
(* StructuralRetriever.retrieve                                            *)

\* A common multiple of the ranks' denominators, hit lists being that short.
Scale == (RrfK + 1) * (RrfK + 2) * (RrfK + 3)
RankIn(s, c) == SelectInSeq(s, LAMBDA x : x = c)
Weight(s, c) == IF RankIn(s, c) = 0 THEN 0 ELSE Scale \div (RrfK + RankIn(s, c))

\* reciprocal_rank_fusion; ties go to exact hits and then to the record's id.
Fused(dense, bm25, exact) ==
  LET score(c) == Weight(dense, c) + Weight(bm25, c) + Weight(exact, c)
      place(c) == IF RankIn(exact, c) = 0 THEN Len(exact) + 1 ELSE RankIn(exact, c)
      before(a, b) == \/ score(a) > score(b)
                      \/ score(a) = score(b) /\ place(a) < place(b)
                      \/ score(a) = score(b) /\ place(a) = place(b) /\ a < b
  IN  SetToSortSeq(Range(dense) \union Range(bm25) \union Range(exact), before)

\* _interleave_neighbors: each hit, then the articles around it.
Expanded(s) ==
  FirstOnly(FlattenSeq([i \in DOMAIN s |-> <<s[i]>> \o SetToSortSeq(Neighbors[s[i]], <)]))

StructuralInput(fused) ==
  LET bounded == Bounded(fused, FusedLimit, FusedPerDocument, NoBudget)
  IN  SubSeq(bounded, 1, Min({InputLimit, Len(bounded)}))

\* The three source queries; with dense and bm25 both gone, with payloads that
\* conflict or without the neighbours the lane has failed.
QueryStructural ==
  /\ Doing("structural", "sources")
  /\ \E read \in [{"dense", "bm25", "exact"} -> Reads(ChunkLists)] :
       LET errors == {s \in DOMAIN read : ~read[s].ok}
           fused == Fused(read["dense"].hits, read["bm25"].hits, read["exact"].hits)
           input == StructuralInput(IF config.expand THEN Expanded(fused) ELSE fused)
       IN  \/ /\ {"dense", "bm25"} \subseteq errors
              /\ Ends("structural", "retrieval_error", << >>, errors)
           \/ /\ ~{"dense", "bm25"} \subseteq errors
              /\ \E lost \in {"fusion"} \union IF config.expand THEN {"neighbors"} ELSE {} :
                   Ends("structural", "retrieval_error", << >>, errors \union {lost})
           \/ /\ ~{"dense", "bm25"} \subseteq errors
              /\ IF input # << >> THEN ToRerank("structural", input, errors)
                 ELSE Ends("structural",
                           IF errors = {} THEN "no_candidate" ELSE "partial_technical_error",
                           << >>, errors)
  /\ UNCHANGED common

\* mutant: a fallback of the reranker is no technical error
StructuralStatus_Fallback(evidence, errors) ==
  IF errors \ {"reranker_primary"} # {} THEN "partial_technical_error"
  ELSE IF evidence # << >> THEN "ok" ELSE "no_candidate"

StructuralStatus(evidence, errors) ==
  IF errors # {} THEN "partial_technical_error"
  ELSE IF evidence # << >> THEN "ok" ELSE "no_candidate"

\* validate_structural_rerank refuses a malformed answer.
RerankStructural ==
  /\ Doing("structural", "rerank")
  /\ LET lane == lanes["structural"]
     IN  \/ Ends("structural", "reranker_error", << >>, lane.errors \union {"reranker"})
         \/ \E r \in Rankings(lane.input, ReturnLimit), fallback \in {{}, {"reranker_primary"}} :
              LET errors == lane.errors \union fallback
              IN  Ends("structural", StructuralStatus(Final(r), errors), Final(r), errors)
  /\ UNCHANGED common

-----------------------------------------------------------------------------
(* LegalRetriever.retrieve_detailed                                        *)

\* _resolve_chunks: an entry of the index with another hash is dropped, unless
\* the document was also found by its words.
Resolved(lexical, hybrid) ==
  SelectSeq(Alternate(lexical, hybrid), LAMBDA d : d \in Range(lexical) \/ d \notin Stale)
ChunksOf(documents) ==
  FlattenSeq([i \in DOMAIN documents |->
                SetToSortSeq({c \in Chunks : DocumentOf[c] = documents[i]}, <)])

\* select_rerank_candidates: those that match the words of the question, then one
\* of each document not there yet, then the rest.
RerankCandidates(chunks, matching) ==
  LET found == SelectSeq(chunks, LAMBDA c : c \in matching)
      first(c) == \A b \in Range(chunks) : DocumentOf[b] = DocumentOf[c] => c <= b
      others == SelectSeq(chunks, LAMBDA c : first(c) /\ FromDocument(found, DocumentOf[c]) = 0)
  IN  Bounded(FirstOnly(found \o others \o chunks), InputLimit, LocalLimit, NoBudget)

\* The hybrid index and the words; the words alone will do.
QueryFullCorpus ==
  /\ Doing("full_corpus", "sources")
  /\ \E hybrid, lexical \in Reads(DocumentLists), matching \in Matches :
       LET errors == {s \in {"hybrid", "lexical"} :
                        IF s = "hybrid" THEN ~hybrid.ok ELSE ~lexical.ok}
           input == RerankCandidates(ChunksOf(Resolved(lexical.hits, hybrid.hits)), matching)
       IN  \/ Ends("full_corpus", "retrieval_error", << >>, errors \union {"resolve"})
           \/ IF ~hybrid.ok /\ lexical.hits = << >>
              THEN Ends("full_corpus", "retrieval_error", << >>, errors)
              ELSE IF input = << >> THEN Ends("full_corpus", "no_candidate", << >>, errors)
              ELSE ToRerank("full_corpus", input, errors)
  /\ UNCHANGED common

\* mutant: lexical fallback passes for a full search
FullCorpusStatus_Lexical(evidence, errors) ==
  IF evidence # << >> THEN "ok" ELSE "no_candidate"

FullCorpusStatus(evidence, errors) ==
  IF evidence # << >> /\ "hybrid" \in errors THEN "partial_retrieval_error"
  ELSE IF evidence # << >> THEN "ok" ELSE "no_candidate"

RerankFullCorpus ==
  /\ Doing("full_corpus", "rerank")
  /\ LET lane == lanes["full_corpus"]
     IN  \/ Ends("full_corpus", "reranker_error", << >>, lane.errors \union {"reranker"})
         \/ \E r \in Rankings(lane.input, ReturnLimit) :
              Ends("full_corpus", FullCorpusStatus(Final(r), lane.errors), Final(r), lane.errors)
  /\ UNCHANGED common

-----------------------------------------------------------------------------
(* retrieve_for_evaluation: the v3 collection                              *)

\* expand_v3_evidence: one more chunk of an article that was found, out of a
\* document whose hashes agree, in place of the last when the list is full.
Siblings(found, selected) ==
  {c \in (UNION {Neighbors[b] : b \in Range(found)}) \ Range(selected) : DocumentOf[c] \notin Stale}
WithSibling(selected, c) ==
  Append(SubSeq(selected, 1, Min({FinalLimit - 1, Len(selected)})), c)

QueryVertex ==
  /\ Doing("vertex", "sources")
  /\ \E read \in Reads(ChunkLists) :
       LET top == SubSeq(read.hits, 1, Min({FinalLimit, Len(read.hits)}))
       IN  IF ~read.ok THEN Ends("vertex", "retrieval_error", << >>, {"vertex"})
           ELSE \/ Ends("vertex", IF top = << >> THEN "no_candidate" ELSE "ok", top, {})
                \/ /\ top # << >>
                   /\ Ends("vertex", "partial_retrieval_error", top, {"expansion"})
                \/ \E c \in Siblings(read.hits, top) :
                     Ends("vertex", "ok", WithSibling(top, c), {})
  /\ UNCHANGED common

-----------------------------------------------------------------------------
(* rag_pipeline                                                            *)

\* The order of _run_secondary_fallbacks, some with another model.
Attempts == <<"openrouter", "gemini", "nvidia", "groq", "openrouter", "gemini", "groq">>
FailureTexts == {"providers_exhausted", "vertex_failure"}

\* generate_llm_response_with_metadata: Vertex, or the first secondary provider that
\* answers, of those that did not cool down at the start; a busy one cools down.
Generated(text) ==
  LET available == Configured \ cooling
      tried(i) == {Attempts[j] : j \in 1..i} \intersect available
  IN  \/ text = "model" /\ UNCHANGED cooling
      \/ /\ text = "model"
         /\ \E i \in DOMAIN Attempts :
              /\ Attempts[i] \in available
              /\ \E busy \in SUBSET tried(i - 1) : cooling' = cooling \union busy
      \/ /\ text = IF Configured = {} THEN "vertex_failure" ELSE "providers_exhausted"
         /\ \E busy \in SUBSET available : cooling' = cooling \union busy

\* rewrite_query_with_metadata: a malformed rewriting is refused, and a short
\* question is left alone.
Rewrite ==
  /\ stage = "rewrite" /\ stage' = "retrieve"
  /\ \/ query' = "asked" /\ UNCHANGED cooling
     \/ /\ config.rewrite
        /\ \E text \in {"model"} \union FailureTexts :
             Generated(text) /\ query' \in {"asked", text}
  /\ UNCHANGED <<config, lanes, outcome>>

Technical == {"retrieval_error", "reranker_error", "partial_retrieval_error"}

\* _structural_retrieval_outcome
Reported(l) == IF lanes[l].status = "partial_technical_error" THEN "partial_retrieval_error"
               ELSE lanes[l].status

\* mutant: a lane without evidence does not count
FailedLanes_WithEvidence ==
  {l \in {"structural", "full_corpus"} : Reported(l) \in Technical /\ lanes[l].evidence # << >>}
FailedLanes == {l \in {"structural", "full_corpus"} : Reported(l) \in Technical}

MergedStatus(evidence, failed, reranked) ==
  IF reranked /\ evidence = << >> THEN "no_candidate"
  ELSE IF evidence # << >> THEN IF failed # {} THEN "partial_retrieval_error" ELSE "ok"
  ELSE IF \E l \in FailedLanes : Reported(l) = "reranker_error" THEN "reranker_error"
  ELSE IF failed # {} THEN "retrieval_error" ELSE "ok"

Concludes(status, evidence, errors) ==
  /\ outcome' = [Fresh EXCEPT !.at = "done", !.status = status, !.evidence = evidence,
                              !.errors = errors]
  /\ lanes' = [l \in LaneNames |-> Fresh]
  /\ stage' = IF status \in {"retrieval_error", "reranker_error"} THEN "raised"
              ELSE IF evidence = << >> THEN "refused" ELSE "generate"
  /\ UNCHANGED <<config, query, cooling>>

AllDone == stage = "retrieve" /\ \A l \in Active : lanes[l].at = "done"

\* _parallel_retrieval_outcome: what both found by rank, or one more reranking of it.
MergeLanes ==
  /\ AllDone /\ config.backend = "parallel"
  /\ LET s == lanes["structural"]
         f == lanes["full_corpus"]
         pool == Alternate(s.evidence, f.evidence)
         errors == s.errors \union f.errors
         both == config.final_rerank /\ s.evidence # << >> /\ f.evidence # << >> /\ Len(pool) > 1
     IN  \/ /\ ~both
            /\ Concludes(MergedStatus(Final(pool), FailedLanes, FALSE), Final(pool), errors)
         \/ /\ both
            /\ \E r \in Rankings(pool, Len(pool)) :
                 Concludes(MergedStatus(Final(r), FailedLanes, TRUE), Final(r), errors)
         \/ /\ both
            /\ Concludes(MergedStatus(Final(pool), FailedLanes \union {"final"}, FALSE),
                         Final(pool), errors \union {"final"})

\* retrieve_configured_legal_evidence with one backend; a Vertex shadow beside it
\* only adds to the diagnostics.
TakeLane ==
  /\ AllDone /\ config.backend # "parallel"
  /\ \E l \in Active : Concludes(lanes[l].status, lanes[l].evidence, lanes[l].errors)

\* generate_response_with_metadata
Generate ==
  /\ stage = "generate"
  /\ \E text \in {"model"} \union FailureTexts :
       Generated(text) /\ stage' = IF text = "model" THEN "answered" ELSE "failed"
  /\ UNCHANGED <<config, query, lanes, outcome>>

\* Thirty seconds are over.
Cooled(p) == /\ p \in cooling /\ cooling' = cooling \ {p}
             /\ UNCHANGED <<config, stage, query, lanes, outcome>>

\* The next question, after some have left providers cooling.
NextQuestion ==
  /\ stage \in {"answered", "failed", "raised", "refused"}
  /\ stage' = "rewrite" /\ query' = "asked" /\ outcome' = Fresh
  /\ UNCHANGED <<config, lanes, cooling>>

RetrievalNext ==
  \/ Rewrite
  \/ QueryStructural \/ RerankStructural \/ QueryFullCorpus \/ RerankFullCorpus
  \/ QueryVertex \/ MergeLanes \/ TakeLane \/ Generate \/ NextQuestion
  \/ \E p \in Configured : Cooled(p)

RetrievalSpec == RetrievalInit /\ [][RetrievalNext]_retrievalVars

-----------------------------------------------------------------------------
Statuses == Technical \union {"none", "ok", "no_candidate", "partial_technical_error"}
Sources == {"dense", "bm25", "exact", "fusion", "neighbors", "reranker", "reranker_primary",
            "hybrid", "lexical", "resolve", "vertex", "expansion", "final"}
LaneRecords == [at : {"sources", "rerank", "done"}, input : Seq(Chunks), errors : SUBSET Sources,
                evidence : Seq(Chunks), status : Statuses]

RetrievalTypeOK ==
  /\ config \in Settings
  /\ stage \in {"rewrite", "retrieve", "raised", "refused", "generate", "answered", "failed"}
  /\ query \in {"asked", "model"} \union FailureTexts
  /\ lanes \in [LaneNames -> LaneRecords] /\ outcome \in LaneRecords
  /\ cooling \subseteq Configured

(* What the language model is given, whichever of the lanes, fallbacks and *)
(* rerankings it came through: no more than the final limits, nothing      *)
(* twice, and without the expansion nothing of more than its share of one  *)
(* document or of the token budget.                                        *)
EvidenceBounded ==
  LET e == outcome.evidence
  IN  /\ Len(e) <= FinalLimit /\ IsInjective(e)
      /\ config.backend # "vertex" =>
           /\ TokensIn(e) <= MaxTokens
           /\ \A c \in Range(e) : FromDocument(e, DocumentOf[c]) <= PerDocument

(* Evidence reported as complete comes from a search in which nothing      *)
(* failed but the optional words index, except that a hybrid index that    *)
(* failed goes unreported where the other lane found the evidence; and a   *)
(* search that failed answers nothing.                                     *)
FailuresShow ==
  /\ outcome.evidence # << >> /\ outcome.status # "partial_retrieval_error" =>
       /\ outcome.status = "ok"
       /\ outcome.errors \subseteq
            {"lexical"} \union IF config.backend = "parallel" THEN {"hybrid"} ELSE {}
  /\ outcome.status \in {"retrieval_error", "reranker_error"} => stage = "raised"
  /\ stage \in {"generate", "answered", "failed"} => outcome.evidence # << >>
=============================================================================
