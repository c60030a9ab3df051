--------------------------- MODULE GoldAdjudication ---------------------------
(***************************************************************************)
(* run_gold_adjudication.py and app/evaluation/adjudication.py: a queue of *)
(* unresolved gold evidence with candidates for it, a file of human        *)
(* decisions, a preview of the labels they lead to, and after its approval *)
(* a new version of the sidecar.                                           *)
(*                                                                         *)
(* Queues, previews and sidecars are written once, under a name of their   *)
(* own; the dataset and the decisions are edited at any time, between the  *)
(* reads of one command too.  A command that fails has no effect.          *)
(***************************************************************************)
EXTENDS Integers, Sequences, FiniteSets, Collections

CONSTANTS Adjudicators, Evidence, GoldCases,
          CaseOf, LevelOf,       \* of evidence: its case and required level
          KindOfCase,            \* a number for the question type
          Digest,                \* _rank_key: a number for the hash of the case and its id
          LegalTypeOf,           \* of a document
          AnchorLevel,           \* of evidence: documents with its reference |-> level there
          Tiers,                 \* _ANCHOR_SCAN_TIERS: sequences of documents
          FtsHits,               \* of a case: the documents the text index returns
          CandidateLimit,
          Editions,              \* contents of the dataset
          RootLabels,            \* the first sidecar
          BatchCases,            \* TASK2_BATCH_SIZE
          MaxQueues, MaxPreviews, MaxPromotions    \* bounds

ASSUME AdjudicationAssumption ==
  /\ Evidence # {} /\ IsFiniteSet(Evidence) /\ IsFiniteSet(GoldCases)
  /\ {BatchCases, CandidateLimit} \subseteq Nat \ {0}
  /\ {MaxQueues, MaxPreviews, MaxPromotions} \subseteq Nat
  /\ LevelOf \in [Evidence -> {"document", "article", "clause"}]
  /\ KindOfCase \in [GoldCases -> Nat] /\ Digest \in [GoldCases -> Nat]
  /\ \A c, d \in GoldCases : Digest[c] = Digest[d] => c = d
  /\ DOMAIN RootLabels = Evidence
  /\ \A e \in Evidence : DOMAIN RootLabels[e] = {"status", "document", "level"}

VARIABLES edition, queues, decisions, previews, sidecars, promotions, adjudicator

goldVars == <<edition, queues, decisions, previews, sidecars, promotions, adjudicator>>

-----------------------------------------------------------------------------
(* select_stratified_case_ids                                               *)

Depth == [document |-> 0, article |-> 1, clause |-> 2]
\* The levels in the order of their names.
Named == [article |-> 0, clause |-> 1, document |-> 2]

OfCase(c) == {e \in Evidence : CaseOf[e] = c}
Unresolved(labels, c) == {e \in OfCase(c) : labels[e].status # "verified"}

\* is_case_eligible_for_adjudication
EligibleCases(labels) == {c \in GoldCases : Unresolved(labels, c) # {}}

\* compute_verified_diversity_counts
Verified(labels) == {e \in Evidence : labels[e].status = "verified"}
OfDocument(labels, d) == Cardinality({e \in Verified(labels) : labels[e].document = d})
OfType(labels, t) == Cardinality({e \in Verified(labels) : LegalTypeOf[labels[e].document] = t})

\* resolve_case_diversity_identity: the evidence of the least represented document.
Represented(labels, e) ==
  LET d == labels[e].document
  IN  Cardinality(Evidence) * OfDocument(labels, d) + OfType(labels, LegalTypeOf[d])
Representation(labels, c) ==
  LET counts == {Represented(labels, e) : e \in Unresolved(labels, c)}
  IN  CHOOSE n \in counts : \A m \in counts : n <= m

Stratum(labels, c) ==
  LET deepest == CHOOSE l \in {LevelOf[e] : e \in Unresolved(labels, c)} :
                   \A e \in Unresolved(labels, c) : Depth[LevelOf[e]] <= Depth[l]
  IN  3 * KindOfCase[c] + Named[deepest]

\* The place of a case in its stratum; the strata take turns.
Rarer(labels, d, c) ==
  /\ Stratum(labels, d) = Stratum(labels, c)
  /\ \/ Representation(labels, d) < Representation(labels, c)
     \/ Representation(labels, d) = Representation(labels, c) /\ Digest[d] < Digest[c]
Place(labels, c) == Cardinality({d \in EligibleCases(labels) : Rarer(labels, d, c)})
Earlier(labels, d, c) ==
  \/ Place(labels, d) < Place(labels, c)
  \/ Place(labels, d) = Place(labels, c) /\ Stratum(labels, d) < Stratum(labels, c)

Stratified(labels) ==
  {c \in EligibleCases(labels) :
     Cardinality({d \in EligibleCases(labels) : Earlier(labels, d, c)}) < BatchCases}

-----------------------------------------------------------------------------
(* discover_adjudication_candidates                                         *)

UpTo(limit, s) == SubSeq(s, 1, IF Len(s) < limit THEN Len(s) ELSE limit)
Distinct(s) ==
  SeqExt!FoldLeft(LAMBDA found, d : IF SeqExt!Contains(found, d) THEN found ELSE Append(found, d),
                  <<>>, s)

HasAnchor(e, d) == d \in DOMAIN AnchorLevel[e]

\* _source_document_ids, in some order of the evidence
SourceDocuments(labels, c) ==
  SeqExt!SetToSeq({labels[e].document : e \in OfCase(c)} \ {""})

\* _discover_anchor_scan_ids: the first tier with a match, for evidence without a document
Scanned(labels, e) ==
  LET matches(t) == SelectSeq(Tiers[t], LAMBDA d : HasAnchor(e, d))
      found == {t \in DOMAIN Tiers : matches(t) # <<>>}
  IN  IF labels[e].document # "" \/ found = {} THEN <<>>
      ELSE UpTo(CandidateLimit, matches(SetExt!Min(found)))

\* _stable_bounded_ids
Discovered(labels, e) ==
  UpTo(CandidateLimit, Distinct(SourceDocuments(labels, CaseOf[e]) \o Scanned(labels, e)
                                \o FtsHits[CaseOf[e]]))

\* _supports_required_level
SupportsLevel(e, d) ==
  LevelOf[e] = "document" \/ (HasAnchor(e, d) /\ Depth[AnchorLevel[e][d]] >= Depth[LevelOf[e]])

-----------------------------------------------------------------------------
(* A queue and the decisions on it                                          *)

Undecided == [status |-> "pending", candidate |-> {}]

\* build_queue_payload: a normal queue leaves out what is verified.
QueueRows(labels, cases, targeted) ==
  UNION {IF targeted THEN OfCase(c) ELSE Unresolved(labels, c) : c \in cases}

\* The queue command; its decision template has every row pending.
WriteQueue(s, cases, targeted) ==
  /\ Len(queues) < MaxQueues
  /\ LET labels == sidecars[s]
         rows == QueueRows(labels, cases, targeted)
     IN  /\ queues' = Append(queues, [edition |-> edition, source |-> labels,
                                      targeted |-> targeted, rows |-> rows,
              candidates |-> [e \in rows |-> {Discovered(labels, e)[i] :
                                              i \in DOMAIN Discovered(labels, e)}]])
         /\ decisions' = Append(decisions, [e \in rows |-> Undecided])
  /\ UNCHANGED <<edition, previews, sidecars, promotions, adjudicator>>

NormalQueue == \E s \in DOMAIN sidecars :
  /\ Cardinality(EligibleCases(sidecars[s])) >= BatchCases
  /\ WriteQueue(s, Stratified(sidecars[s]), FALSE)

TargetedQueue == \E s \in DOMAIN sidecars, c \in GoldCases :
  /\ OfCase(c) # {} /\ WriteQueue(s, {c}, TRUE)

\* What a reviewer signs; an entry that is not signed yet counts as pending.
Reviews(q, e) ==
  {[status |-> "verified", candidate |-> {d}] : d \in queues[q].candidates[e]}
  \union {[status |-> "rejected", candidate |-> {}]}

\* A decision is written, or changed.
Review == \E q \in DOMAIN queues : \E e \in queues[q].rows :
  /\ \E d \in Reviews(q, e) : decisions' = [decisions EXCEPT ![q][e] = d]
  /\ UNCHANGED <<edition, queues, previews, sidecars, promotions, adjudicator>>

\* validate_decisions and _validate_selected_candidate, for one row
Valid(e, decision) ==
  /\ decision.status # "pending"
  /\ decision.status = "verified" =>
       \E d \in decision.candidate : HasAnchor(e, d) /\ SupportsLevel(e, d)

EditDataset == /\ \E v \in Editions \ {edition} : edition' = v
               /\ UNCHANGED <<queues, decisions, previews, sidecars, promotions, adjudicator>>

-----------------------------------------------------------------------------
(* preview and promote                                                      *)

Away == [loaded |-> FALSE, edition |-> "", sidecar |-> 1]

GoldInit ==
  /\ edition \in Editions
  /\ queues = <<>> /\ decisions = <<>>
  /\ previews = {}
  /\ sidecars = <<RootLabels>> /\ promotions = {}
  /\ adjudicator = [o \in Adjudicators |-> Away]

\* _load_sources
LoadSources(o) ==
  /\ ~adjudicator[o].loaded
  /\ \E s \in DOMAIN sidecars :
       adjudicator' = [adjudicator EXCEPT ![o] = [loaded |-> TRUE, edition |-> edition,
                                                  sidecar |-> s]]
  /\ UNCHANGED <<edition, queues, decisions, previews, sidecars, promotions>>

\* mutant: the sidecar is not compared
QueueBound_AnySidecar(command, queue) == queue.edition = command.edition

\* _queue_hashes
QueueBound(command, queue) ==
  queue.edition = command.edition /\ queue.source = sidecars[command.sidecar]

\* build_promotion_preview: what a decision makes of a label
Decided(e, label, decision) ==
  IF decision.status = "verified"
  THEN LET d == CHOOSE d \in decision.candidate : TRUE
       IN  [status |-> "verified", document |-> d, level |-> AnchorLevel[e][d]]
  ELSE [label EXCEPT !.status = decision.status]

Proposed(labels, rows, decided) ==
  [e \in Evidence |-> IF e \in rows THEN Decided(e, labels[e], decided[e]) ELSE labels[e]]

\* _build_preview, from the sources loaded and the decisions as they are now.
Buildable(o) == {q \in DOMAIN queues :
  /\ QueueBound(adjudicator[o], queues[q])
  /\ \A e \in queues[q].rows : Valid(e, decisions[q][e])}

\* build_promotion_summary: READY_FOR_P2
Ready(q, proposed) ==
  LET cases == {CaseOf[e] : e \in queues[q].rows}
  IN  \/ queues[q].targeted
      \/ Cardinality({c \in cases : Unresolved(proposed, c) = {}}) = BatchCases

BuildPreview(o, q) ==
  LET labels == sidecars[adjudicator[o].sidecar]
  IN  [queue |-> q, decided |-> decisions[q], source |-> labels,
       proposed |-> Proposed(labels, queues[q].rows, decisions[q]),
       ready |-> Ready(q, Proposed(labels, queues[q].rows, decisions[q]))]

Leave(o) == adjudicator[o].loaded /\ adjudicator' = [adjudicator EXCEPT ![o] = Away]

\* _cmd_preview.  What it writes depends on nothing that changes once it is built.
Preview(o) ==
  /\ Leave(o) /\ Cardinality(previews) < MaxPreviews
  /\ \E q \in Buildable(o) : previews' = previews \union {BuildPreview(o, q)}
  /\ UNCHANGED <<edition, queues, decisions, sidecars, promotions>>

\* _cmd_promote: the preview built again is one that was written, and whose hash the
\* reviewer gives as approved.
Promote(o) ==
  /\ Leave(o) /\ Len(sidecars) <= MaxPromotions
  /\ \E q \in Buildable(o) :
       LET p == BuildPreview(o, q)
       IN  /\ p \in previews
           /\ sidecars' = Append(sidecars, p.proposed)
           /\ promotions' = promotions \union {p}
  /\ UNCHANGED <<edition, queues, decisions, previews>>

Quit(o) == /\ Leave(o)
           /\ UNCHANGED <<edition, queues, decisions, previews, sidecars, promotions>>

GoldNext ==
  \/ NormalQueue \/ TargetedQueue \/ Review \/ EditDataset
  \/ \E o \in Adjudicators :
       LoadSources(o) \/ Preview(o) \/ Promote(o) \/ Quit(o)
GoldSpec == GoldInit /\ [][GoldNext]_goldVars

-----------------------------------------------------------------------------
(* Gold labels change only as a reviewer decided and approved.  A label is *)
(* verified in a sidecar only if it was in the first one, or at a place of *)
(* the required level in a document whose text has the reference: through  *)
(* any chain of promotions, and whatever was edited between the review,    *)
(* the preview and the promotion.  A promotion leaves alone every label    *)
(* outside its queue, and one of a normal queue leaves alone whatever was  *)
(* verified in the sidecar it starts from, and is ready only if its cases  *)
(* have no unresolved label left.                                          *)
GoldAsReviewed ==
  /\ \A s \in DOMAIN sidecars, e \in Evidence : sidecars[s][e].status = "verified" =>
       \/ sidecars[s][e] = RootLabels[e]
       \/ /\ HasAnchor(e, sidecars[s][e].document)
          /\ SupportsLevel(e, sidecars[s][e].document)
          /\ sidecars[s][e].level = AnchorLevel[e][sidecars[s][e].document]
  /\ \A p \in promotions, e \in Evidence :
       /\ e \in queues[p.queue].rows =>
            /\ p.decided[e].status # "pending"
            /\ p.proposed[e].status = p.decided[e].status
       /\ e \notin queues[p.queue].rows => p.proposed[e] = p.source[e]
       /\ ~queues[p.queue].targeted /\ p.source[e].status = "verified" =>
            p.proposed[e] = p.source[e]
       /\ p.ready /\ ~queues[p.queue].targeted /\ e \in queues[p.queue].rows =>
            Unresolved(p.proposed, CaseOf[e]) = {}
===============================================================================
