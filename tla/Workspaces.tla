------------------------------ MODULE Workspaces ------------------------------
(***************************************************************************)
(* One research workspace, a document of collection research_workspaces:   *)
(* app/research_database.py under the handlers of workspace_routes.py and  *)
(* of the analyses, reviews and source routes of app/api.                  *)
(*                                                                         *)
(* A handler reads the workspace, works for as long as a provider takes,   *)
(* writes its interaction log and then changes the workspace by one        *)
(* conditional update_one.  The work done on a read may be stale by the    *)
(* update.  Where the filter of the update repeats all that the read had   *)
(* checked (remove, unpin, delete) the two are one step here.              *)
(***************************************************************************)
EXTENDS Integers, Sequences, FiniteSets

CONSTANTS
  Requests, Earlier,          \* requests, and one that was over at the start
  Documents, LawSources,      \* ids of uploaded documents and of pinned law
  NoDocument,
  Batches, Fingerprints,      \* of the full review of a document
  MaxDocuments, MaxEvidence, MaxAnalyses, MaxInputs, MaxHistory
                              \* 20, 100, 50, 3 and 20 in the code

ASSUME WorkspaceAssumption ==
  /\ NoDocument \notin Documents \union LawSources
  /\ Documents \intersect LawSources = {} /\ Earlier \notin Requests
  /\ {MaxDocuments, MaxEvidence, MaxAnalyses, MaxInputs, MaxHistory} \subseteq Nat \ {0}

VARIABLES
  present,        \* the workspace exists and has not expired
  owner,          \* "client", or "user" once a sign-in claimed it
  documents,      \* full_review_progress of each document there is
  evidence,       \* pinned evidence
  analyses,       \* saved analyses, oldest first
  interactions,   \* request_status of each request's interaction log
  work            \* what each request has read and does next

workspaceVars == <<present, owner, documents, evidence, analyses, interactions, work>>

Ids == Documents \union LawSources

\* requires: the documents a save insists on; about: a document, a piece of
\* evidence or an analysis; seen: the review that was read.
NoReview == [version |-> 0, history |-> <<>>]
NoWork == [stage |-> "new", by |-> "client", kind |-> "none", about |-> NoDocument,
           requires |-> {}, logs |-> FALSE, ok |-> FALSE, input |-> NoDocument,
           batch |-> NoDocument, seen |-> NoReview]

Uploaded == DOMAIN documents
Pinned == {e.id : e \in evidence}
AnalysisIds == {analyses[i].id : i \in DOMAIN analyses}
Newest(s, n) == IF Len(s) > n THEN SubSeq(s, Len(s) - n + 1, Len(s)) ELSE s

\* s at the positions in keep, in their order: the one sequence of the set.
Left(s, keep) ==
  LET n == Cardinality(keep)
      orders == {o \in [1..n -> keep] : \A i, j \in 1..n : i < j => o[i] < o[j]}
  IN  {[k \in 1..n |-> s[o[k]]] : o \in orders}

EarlierReview(d) == [id |-> Earlier, kind |-> "review", requires |-> {d}, traced |-> TRUE,
                     findings |-> TRUE, review |-> NoReview]

\* The workspaces that earlier requests may have left.
WorkspacesInit ==
  /\ present = TRUE /\ owner = "client"
  /\ \E d \in {x \in SUBSET Documents : Cardinality(x) <= MaxDocuments} :
       /\ documents = [x \in d |-> <<>>]
       /\ \E p \in {x \in SUBSET (d \union LawSources) : Cardinality(x) <= MaxEvidence} :
            evidence = {[id |-> x, doc |-> IF x \in d THEN x ELSE NoDocument,
                         review |-> NoReview] : x \in p}
       /\ analyses \in {<<>>} \union {<<EarlierReview(x)>> : x \in d}
  /\ interactions = [r \in Requests \union {Earlier} |-> IF r = Earlier THEN "ok" ELSE "none"]
  /\ work = [r \in Requests |-> NoWork]

-----------------------------------------------------------------------------
(* Requests                                                                *)

content == <<present, owner, documents, evidence, analyses>>

\* _owned_workspace: the owner's, and not expired.
Owned(by) == present /\ owner = by

Begin(r, by, next) ==
  /\ work[r].stage = "new"
  /\ Owned(by)
  /\ work' = [work EXCEPT ![r] = [next EXCEPT !.by = by]]
  /\ UNCHANGED <<content, interactions>>

Doing(r, stage) == work[r].stage = stage
GoOn(r, stage) == work' = [work EXCEPT ![r].stage = stage]
\* One that dies halfway, or on an error of MongoDB, just goes no further.
Ends(r, how) == work' = [work EXCEPT ![r] = [NoWork EXCEPT !.stage = how]]

\* Analyses wait for a provider; those that keep a trace log it first.
Analysis(kind, requires, logs) ==
  [NoWork EXCEPT !.stage = "generate", !.kind = kind, !.requires = requires,
                 !.logs = logs]

\* _selected: pinned evidence, at least one; the documents it came from.
Selections == SUBSET evidence \ {{}}
DocumentsOf(selection) == {e.doc : e \in selection} \ {NoDocument}

ContractReview(d) == [Analysis("review", {d}, TRUE) EXCEPT !.about = d]
FullReview(d, f, b) == [Analysis("full_review", {d}, TRUE)
                          EXCEPT !.about = d, !.input = f, !.batch = b]
ResearchReport(selection) == Analysis("report", DocumentsOf(selection), TRUE)
ClaimVerification(selection) == Analysis("analysis", DocumentsOf(selection), TRUE)
ModelComparison(selection) == Analysis("analysis", DocumentsOf(selection), TRUE)
LegalEffect(selection) == Analysis("analysis", DocumentsOf(selection), TRUE)
Timeline(selection) == Analysis("analysis", DocumentsOf(selection), FALSE)
Redline(d, e) == Analysis("analysis", {d, e}, FALSE)
\* These save without naming the documents their evidence came from.
SelectedAnswer(selection) == Analysis("analysis", {}, FALSE)
Comparison(selection) == Analysis("analysis", {}, FALSE)
ObligationMatrix(selection) == Analysis("analysis", {}, FALSE)
DeepResearch == Analysis("analysis", {}, TRUE)
RetainedSource == Analysis("analysis", {}, TRUE)
SourceRead == Analysis("sources", {}, FALSE)
\* A new version of a report keeps what its parent required.
ReportVersion(a) == Analysis("report", a.requires, FALSE)

BeginAnalysis(r, by) ==
  \/ \E d \in Uploaded : Begin(r, by, ContractReview(d))
  \/ \E d \in Uploaded, f \in Fingerprints, b \in Batches : Begin(r, by, FullReview(d, f, b))
  \/ \E s \in Selections :
       \/ Begin(r, by, ResearchReport(s)) \/ Begin(r, by, ClaimVerification(s))
       \/ Begin(r, by, ModelComparison(s)) \/ Begin(r, by, LegalEffect(s))
       \/ Begin(r, by, Timeline(s))
       \/ Begin(r, by, SelectedAnswer(s)) \/ Begin(r, by, Comparison(s))
       \/ Begin(r, by, ObligationMatrix(s))
  \/ \E d, e \in Uploaded : d # e /\ Begin(r, by, Redline(d, e))
  \/ Begin(r, by, DeepResearch) \/ Begin(r, by, SourceRead)
  \/ \E i \in DOMAIN analyses :
       \/ analyses[i].kind = "report" /\ Begin(r, by, ReportVersion(analyses[i]))
       \/ analyses[i].kind = "sources" /\ Begin(r, by, RetainedSource)

\* The provider answers or fails, which is saved too, or the input turns out
\* too large and the request ends (422).
Generate(r) ==
  /\ Doing(r, "generate")
  /\ \/ \E ok \in BOOLEAN :
          work' = [work EXCEPT ![r].ok = ok,
                               ![r].stage = IF work[r].logs THEN "log" ELSE "save"]
     \/ Ends(r, "rejected")
  /\ UNCHANGED <<content, interactions>>

\* log_interaction; a failed write is swallowed and noted in the analysis.
Log(r) ==
  /\ Doing(r, "log")
  /\ \/ interactions' = [interactions EXCEPT ![r] = IF work[r].ok THEN "ok" ELSE "error"]
     \/ UNCHANGED interactions
  /\ GoOn(r, "save")
  /\ UNCHANGED content

-----------------------------------------------------------------------------
(* Saving an analysis                                                      *)

\* mutant: the documents are not looked for again
Accepted_Stale(r) == Owned(work[r].by)
\* The filter of save_workspace_analysis and of the review batch.
Accepted(r) == Owned(work[r].by) /\ work[r].requires \subseteq Uploaded

Saved(r) == Newest(Append(analyses,
  [id |-> r, kind |-> work[r].kind, requires |-> work[r].requires,
   traced |-> interactions[r] # "none", findings |-> work[r].ok, review |-> NoReview]),
  MaxAnalyses)

\* mutant: the batch replaces what the fingerprint had
Merged_Replace(d, f, b) ==
  {Newest(Append(rest, [input |-> f, done |-> {b}]), MaxInputs) :
     rest \in Left(documents[d], {i \in DOMAIN documents[d] : documents[d][i].input # f})}

\* save_full_document_review_batch: the union for this input becomes the newest
\* entry, the oldest of too many goes.
Merged(d, f, b) ==
  LET had == {i \in DOMAIN documents[d] : documents[d][i].input = f}
      done == {b} \union UNION {documents[d][i].done : i \in had}
  IN  {Newest(Append(rest, [input |-> f, done |-> done]), MaxInputs) :
         rest \in Left(documents[d], DOMAIN documents[d] \ had)}

Save(r) ==
  /\ Doing(r, "save")
  /\ Accepted(r)
  /\ analyses' = Saved(r)
  /\ IF work[r].kind = "full_review" /\ work[r].ok
     THEN \E merged \in Merged(work[r].about, work[r].input, work[r].batch) :
            documents' = [documents EXCEPT ![work[r].about] = merged]
     ELSE UNCHANGED documents
  /\ Ends(r, "saved")
  /\ UNCHANGED <<present, owner, evidence, interactions>>

\* Not accepted, or over the byte budget: 409, after the log has been put right.
Refuse(r) ==
  /\ Doing(r, "save")
  /\ IF work[r].logs THEN GoOn(r, "correct") ELSE Ends(r, "refused")
  /\ UNCHANGED <<content, interactions>>

\* mutant: a log of a failed provider is left as it is
Correct_OkOnly(r) ==
  /\ Doing(r, "correct")
  /\ interactions' = [interactions EXCEPT ![r] = IF @ = "ok" THEN "workspace_changed" ELSE @]
  /\ Ends(r, "refused")
  /\ UNCHANGED content

\* update_interaction_request_status: no upsert.
Correct(r) ==
  /\ Doing(r, "correct")
  /\ interactions' = [interactions EXCEPT ![r] = IF @ = "none" THEN @ ELSE "workspace_changed"]
  /\ Ends(r, "refused")
  /\ UNCHANGED content

-----------------------------------------------------------------------------
(* Documents                                                               *)

BeginUpload(r, by, d, ocr) ==
  /\ Cardinality(Uploaded) < MaxDocuments /\ d \notin Uploaded
  /\ Begin(r, by, [NoWork EXCEPT !.stage = "extract", !.kind = "upload", !.about = d,
                                 !.logs = ocr])

\* A document that cannot be read; only recognition leaves a log.
Extract(r) ==
  /\ Doing(r, "extract")
  /\ \/ GoOn(r, "store") /\ UNCHANGED interactions
     \/ /\ Ends(r, "rejected")
        /\ interactions' = [interactions EXCEPT ![r] = IF work[r].logs THEN "error" ELSE @]
  /\ UNCHANGED content

\* save_workspace_document, then the log of the recognition.
StoreDocument(r) ==
  /\ Doing(r, "store")
  /\ LET d == work[r].about
         fits == /\ Owned(work[r].by) /\ d \notin Uploaded
                 /\ Cardinality(Uploaded) < MaxDocuments
         logged(status) == IF work[r].logs THEN {"none", status} ELSE {"none"}
     IN  \/ /\ fits
            /\ documents' = [x \in Uploaded \union {d} |->
                               IF x = d THEN <<>> ELSE documents[x]]
            /\ Ends(r, "saved")
            /\ \E s \in logged("ok") : interactions' = [interactions EXCEPT ![r] = s]
         \/ /\ UNCHANGED documents
            /\ Ends(r, "refused")
            /\ \E s \in logged("workspace_changed") :
                 interactions' = [interactions EXCEPT ![r] = s]
  /\ UNCHANGED <<present, owner, evidence, analyses>>

\* mutant: the analyses stay
Dependent_None(a, d) == FALSE
Dependent(a, d) == d \in a.requires

\* remove_workspace_document: with its progress, its evidence and the analyses
\* that required it, in one update.
RemoveDocument(by, d) ==
  /\ Owned(by) /\ d \in Uploaded
  /\ documents' = [x \in Uploaded \ {d} |-> documents[x]]
  /\ evidence' = {e \in evidence : e.doc # d}
  /\ analyses' \in Left(analyses, {i \in DOMAIN analyses : ~Dependent(analyses[i], d)})
  /\ UNCHANGED <<present, owner, interactions, work>>

-----------------------------------------------------------------------------
(* Evidence                                                                *)

BeginPin(r, by, kind, id) == Begin(r, by, [NoWork EXCEPT !.stage = "pin", !.kind = kind,
                                                         !.about = id])

\* A clause of a document that was there when it was read.
BeginClausePin(r, by, d) == d \in Uploaded /\ BeginPin(r, by, "clause", d)
\* A context of an interaction of the owner's.
BeginContextPin(r, by, id) == BeginPin(r, by, "context", id)
\* A quote of a source that was read before.
BeginSourcePin(r, by, id) ==
  /\ \E i \in DOMAIN analyses : analyses[i].kind = "sources"
  /\ BeginPin(r, by, "context", id)

\* pin_workspace_evidence: a new id, and no more than fit.
Pin(r) ==
  /\ Doing(r, "pin")
  /\ \/ /\ Owned(work[r].by)
        /\ work[r].about \notin Pinned /\ Cardinality(evidence) < MaxEvidence
        /\ evidence' = evidence \union
             {[id |-> work[r].about, review |-> NoReview,
               doc |-> IF work[r].kind = "clause" THEN work[r].about ELSE NoDocument]}
        /\ Ends(r, "saved")
     \/ UNCHANGED evidence /\ Ends(r, "refused")
  /\ UNCHANGED <<present, owner, documents, analyses, interactions>>

Unpin(by, id) ==
  /\ Owned(by) /\ id \in Pinned
  /\ evidence' = {e \in evidence : e.id # id}
  /\ UNCHANGED <<present, owner, documents, analyses, interactions, work>>

-----------------------------------------------------------------------------
(* Reviews by people: of pinned evidence and of the findings of a review   *)

Reviewed(review, r) == [version |-> review.version + 1,
                        history |-> Newest(Append(review.history, r), MaxHistory)]

\* The version on the page must be the stored one, or it is 409 at once.
BeginEvidenceReview(r, by, e) ==
  Begin(r, by, [NoWork EXCEPT !.stage = "mark", !.kind = "mark", !.about = e.id,
                              !.seen = e.review])

BeginFindingReview(r, by, a) ==
  /\ a.kind \in {"review", "full_review"} /\ a.findings
  /\ Begin(r, by, [NoWork EXCEPT !.stage = "decide", !.kind = "decide", !.about = a.id,
                                 !.seen = a.review])

\* update_evidence_review
Mark(r) ==
  /\ Doing(r, "mark")
  /\ LET same == {e \in evidence : e.id = work[r].about
                                   /\ e.review.version = work[r].seen.version}
     IN  \/ /\ Owned(work[r].by) /\ same # {}
            /\ evidence' = (evidence \ same) \union
                 {[e EXCEPT !.review = Reviewed(work[r].seen, r)] : e \in same}
            /\ Ends(r, "saved")
         \/ UNCHANGED evidence /\ Ends(r, "refused")
  /\ UNCHANGED <<present, owner, documents, analyses, interactions>>

\* mutant: the version is not compared
Unchanged_Any(a, r) == a.id = work[r].about
Unchanged(a, r) == a.id = work[r].about /\ a.review.version = work[r].seen.version

\* update_finding_review
Decide(r) ==
  /\ Doing(r, "decide")
  /\ \/ /\ Owned(work[r].by)
        /\ \E i \in DOMAIN analyses :
             /\ Unchanged(analyses[i], r)
             /\ analyses' = [analyses EXCEPT ![i].review = Reviewed(work[r].seen, r)]
        /\ Ends(r, "saved")
     \/ UNCHANGED analyses /\ Ends(r, "refused")
  /\ UNCHANGED <<present, owner, documents, evidence, interactions>>

-----------------------------------------------------------------------------
(* The workspace                                                           *)

\* claim_anonymous_history, by a sign-in.
Claim ==
  /\ present /\ owner = "client"
  /\ owner' = "user"
  /\ UNCHANGED <<present, documents, evidence, analyses, interactions, work>>

\* delete_workspace, the erasure of an account, or expires_at has passed.
Vanish ==
  /\ present
  /\ present' = FALSE /\ documents' = << >> /\ evidence' = {} /\ analyses' = << >>
  /\ UNCHANGED <<owner, interactions, work>>

Edit(r, by) ==
  \/ \E d \in Documents, ocr \in BOOLEAN : BeginUpload(r, by, d, ocr)
  \/ \E d \in Documents : BeginClausePin(r, by, d)
  \/ \E id \in LawSources : BeginContextPin(r, by, id) \/ BeginSourcePin(r, by, id)
  \/ \E e \in evidence : BeginEvidenceReview(r, by, e)
  \/ \E i \in DOMAIN analyses : BeginFindingReview(r, by, analyses[i])

Work(r) == \/ Generate(r) \/ Log(r) \/ Save(r) \/ Refuse(r) \/ Correct(r)
           \/ Extract(r) \/ StoreDocument(r) \/ Pin(r) \/ Mark(r) \/ Decide(r)

WorkspacesNext ==
  \/ \E r \in Requests, by \in {"client", "user"} : BeginAnalysis(r, by) \/ Edit(r, by)
  \/ \E r \in Requests : Work(r)
  \/ \E by \in {"client", "user"} : \/ \E d \in Documents : RemoveDocument(by, d)
                                    \/ \E id \in Ids : Unpin(by, id)
  \/ Claim \/ Vanish

WorkspacesSpec == WorkspacesInit /\ [][WorkspacesNext]_workspaceVars

-----------------------------------------------------------------------------
Kinds == {"none", "review", "full_review", "report", "sources", "analysis",
          "upload", "clause", "context", "mark", "decide"}
Stages == {"new", "generate", "log", "save", "correct", "extract", "store", "pin",
           "mark", "decide", "saved", "refused", "rejected"}
Reviews == [version : Nat, history : Seq(Requests)]
Entries == [input : Fingerprints, done : SUBSET Batches]

WorkspacesTypeOK ==
  /\ present \in BOOLEAN /\ owner \in {"client", "user"}
  /\ Uploaded \subseteq Documents
  /\ \A d \in Uploaded : documents[d] \in Seq(Entries) /\ Len(documents[d]) <= MaxInputs
  /\ Cardinality(Uploaded) <= MaxDocuments
  /\ \A e \in evidence : /\ e.id \in Ids /\ e.doc \in {e.id, NoDocument}
                         /\ e.review \in Reviews
  /\ Cardinality(evidence) <= MaxEvidence
  /\ \A i \in DOMAIN analyses :
       /\ analyses[i].id \in Requests \union {Earlier} /\ analyses[i].kind \in Kinds
       /\ analyses[i].requires \subseteq Documents /\ analyses[i].review \in Reviews
       /\ analyses[i].traced \in BOOLEAN /\ analyses[i].findings \in BOOLEAN
  /\ Len(analyses) <= MaxAnalyses
  /\ interactions \in [Requests \union {Earlier} -> {"none", "ok", "error", "workspace_changed"}]
  /\ \A r \in Requests :
       /\ work[r].stage \in Stages /\ work[r].kind \in Kinds
       /\ work[r].about \in Ids \union Requests \union {Earlier, NoDocument}
       /\ work[r].requires \subseteq Documents /\ work[r].seen \in Reviews

(* CURRENT_ARCHITECTURE.md: removing a document removes the analyses that  *)
(* depend on it.  No analysis is there without the documents it required,  *)
(* however long its provider took and whatever was removed meanwhile.      *)
AnalysesHaveDocuments ==
  \A i \in DOMAIN analyses : analyses[i].requires \subseteq Uploaded

(* The interaction log and the workspace agree on what became of a         *)
(* request: after a save the log has the status of the answer, after a     *)
(* refusal it says so, and an analysis calls itself traced only if its     *)
(* interaction was logged.                                                 *)
LogTellsSave ==
  /\ \A r \in Requests :
       work[r].stage = "refused" => interactions[r] \in {"none", "workspace_changed"}
  /\ \A r \in Requests :
       work[r].stage = "saved" => interactions[r] # "workspace_changed"
  /\ \A i \in DOMAIN analyses :
       analyses[i].traced => interactions[analyses[i].id] \in {"ok", "error"}

FindingsKept ==
  \A i \in DOMAIN analyses, k \in DOMAIN analyses' :
    /\ analyses[i].id = analyses'[k].id
    /\ analyses[i].review # analyses'[k].review
    => \E r \in Requests : analyses'[k].review = Reviewed(analyses[i].review, r)
ProgressKept ==
  \A d \in Uploaded \intersect DOMAIN documents' :
    \A i \in DOMAIN documents[d], k \in DOMAIN documents'[d] :
      documents[d][i].input = documents'[d][k].input
      => documents[d][i].done \subseteq documents'[d][k].done

(* PRODUCT_WORKFLOWS: concurrent edits conflict and no decision loses its  *)
(* history.  The review of a finding changes only by one more decision on  *)
(* top of those accepted before it; and batches of one document reviewed   *)
(* at the same time do not undo each other: while the document stays, what *)
(* was completed for an input stays completed, until newer inputs push     *)
(* that entry out.                                                         *)
EditsKept == [][FindingsKept /\ ProgressKept]_workspaceVars
=============================================================================
