---------------------------- MODULE ResearchProofs ----------------------------
(***************************************************************************)
(* Proofs about Workspaces and LegalRegistry, which share no state, for    *)
(* any number of requests, documents, sources and reviews.                 *)
(*                                                                         *)
(* Workspaces: what a request has read is still there, or its save notices *)
(* that it is not; its log says of it what its stage does; an analysis has *)
(* an id of its own, and so has an input within the progress of a document *)
(* (WorkInv).  The lists are cut to their bounds and lose entries from     *)
(* their middles, so the lemmas say where an entry of the list that        *)
(* results has been before.                                                *)
(*                                                                         *)
(* LegalRegistry: the view is a function of the review.  The status of a   *)
(* day is that of the last event up to it, and the first and the last of a *)
(* set of dates exist because the dates are natural numbers.               *)
(***************************************************************************)
EXTENDS Workspaces, LegalRegistry, FiniteSetTheorems, WellFoundedInduction, TLAPS

-----------------------------------------------------------------------------
(* Sequences, and what is cut from them                                    *)

IsSequence(s) == s \in Seq({s[i] : i \in DOMAIN s})

LEMMA SequenceIs ==
  ASSUME NEW s, IsSequence(s)
  PROVE  Len(s) \in Nat /\ DOMAIN s = 1..Len(s)
<1> DEFINE S == {s[i] : i \in DOMAIN s}
<1>1. s \in Seq(S)
  BY DEF IsSequence
<1> HIDE DEF S
<1> QED
  BY <1>1

LEMMA SequenceOf ==
  ASSUME NEW n \in Nat, NEW S, NEW s \in [1..n -> S]
  PROVE  IsSequence(s) /\ Len(s) = n /\ DOMAIN s = 1..n
<1>1. s \in [1..n -> {s[i] : i \in 1..n}]
  OBVIOUS
<1> DEFINE T == {s[i] : i \in DOMAIN s}
<1>2. s \in [1..n -> T] /\ DOMAIN s = 1..n
  BY <1>1
<1>3. s \in Seq(T) /\ Len(s) = n
  <2> HIDE DEF T
  <2> QED
    BY <1>2
<1> QED
  BY <1>2, <1>3 DEF IsSequence

\* `t` is a sequence of the newest entries of `s` with `e` after them.
NewestWith(t, s, e) ==
    /\ IsSequence(t)
    /\ \E shift \in Nat : \A k \in DOMAIN t :
         /\ k \in Nat
         /\ \/ k + shift = Len(s) + 1 /\ t[k] = e
            \/ k + shift \in DOMAIN s /\ t[k] = s[k + shift]

\* What is appended to and cut keeps its entries in their places, but for a shift.
LEMMA NewestOf ==
  ASSUME NEW s, IsSequence(s), NEW e, NEW n \in Nat \ {0}
  PROVE  NewestWith(Newest(Append(s, e), n), s, e)
<1>0. PICK t : t = Newest(Append(s, e), n)
  OBVIOUS
<1> DEFINE S == {s[i] : i \in DOMAIN s} \union {e}
           a == Append(s, e)
           m == Len(s)
<1>1. s \in Seq(S) /\ e \in S
  BY DEF IsSequence
<1>2. m \in Nat /\ DOMAIN s = 1..m
  BY SequenceIs
<1>3. /\ a \in Seq(S) /\ Len(a) = m + 1 /\ DOMAIN a = 1..(m + 1)
      /\ \A k \in 1..(m + 1) : a[k] = IF k = m + 1 THEN e ELSE s[k]
  <2> HIDE DEF S
  <2> QED
    BY <1>1
<1>4. CASE m + 1 > n
  <2>1. t = SubSeq(a, m + 1 - n + 1, m + 1)
    <3>1. t = Newest(a, n)
      BY <1>0
    <3> HIDE DEF a, S
    <3> QED
      BY <1>3, <1>4, <3>1 DEF Newest
  <2>2. /\ t \in [1..n -> S]
        /\ \A k \in 1..n : t[k] = a[k + (m + 1 - n)]
    <3> HIDE DEF S, a, m
    <3>1. \A k \in 1..n : k + (m + 1 - n) \in 1..(m + 1) /\ (m + 1 - n + 1) + k - 1 = k + (m + 1 - n)
      BY <1>2, <1>4
    <3>2. (m + 1) - (m + 1 - n + 1) + 1 = n
      BY <1>2
    <3>3. t = [k \in 1..n |-> a[k + (m + 1 - n)]]
      BY <1>2, <1>3, <1>4, <2>1, <3>1, <3>2
    <3> QED
      BY <1>3, <3>1, <3>3
  <2>3. IsSequence(t) /\ DOMAIN t = 1..n
    BY <2>2, SequenceOf
  <2>4. m + 1 - n \in Nat
    BY <1>2, <1>4
  <2>5. ASSUME NEW k \in DOMAIN t
        PROVE  /\ k \in Nat
               /\ \/ k + (m + 1 - n) = m + 1 /\ t[k] = e
                  \/ k + (m + 1 - n) \in DOMAIN s /\ t[k] = s[k + (m + 1 - n)]
    <3>1. k \in 1..n /\ k + (m + 1 - n) \in 1..(m + 1) /\ t[k] = a[k + (m + 1 - n)]
      BY <1>2, <1>4, <2>2, <2>3
    <3> HIDE DEF a, m
    <3>2. PICK i \in 1..(m + 1) : i = k + (m + 1 - n)
      BY <3>1
    <3>3. \/ i = m + 1 /\ a[i] = e
          \/ i \in 1..m /\ a[i] = s[i]
      BY <1>2, <1>3, <3>2
    <3> QED
      BY <1>2, <3>1, <3>2, <3>3
  <2>6. NewestWith(t, s, e)
    BY <2>3, <2>4, <2>5 DEF NewestWith
  <2> QED
    BY <1>0, <2>6
<1>5. CASE ~(m + 1 > n)
  <2>1. t = a
    <3>1. t = Newest(a, n)
      BY <1>0
    <3> HIDE DEF a, S
    <3> QED
      BY <1>3, <1>5, <3>1 DEF Newest
  <2>2. IsSequence(a)
    <3> HIDE DEF S, a, m
    <3>1. a \in [1..(m + 1) -> S] /\ m + 1 \in Nat
      BY <1>2, <1>3
    <3> QED
      BY <3>1, SequenceOf
  <2>3. \A k \in DOMAIN t :
          /\ k \in Nat
          /\ \/ k + 0 = m + 1 /\ t[k] = e
             \/ k + 0 \in DOMAIN s /\ t[k] = s[k + 0]
    <3> HIDE DEF a, m
    <3> QED
      BY <1>2, <1>3, <2>1
  <2>4. NewestWith(t, s, e)
    BY <2>1, <2>2, <2>3 DEF NewestWith
  <2> QED
    BY <1>0, <2>4
<1> QED
  BY <1>4, <1>5

LEMMA LeftOf ==
  ASSUME NEW s, IsSequence(s), NEW keep \in SUBSET (DOMAIN s), NEW t \in Left(s, keep)
  PROVE  /\ IsSequence(t)
         /\ \E o \in [DOMAIN t -> keep] :
              /\ \A k \in DOMAIN t : t[k] = s[o[k]]
              /\ \A i, j \in DOMAIN t : o[i] = o[j] => i = j
<1> DEFINE n == Cardinality(keep)
<1>1. n \in Nat
  <2>1. IsFiniteSet(DOMAIN s)
    BY SequenceIs, FS_Interval
  <2> QED
    BY <2>1, FS_Subset, FS_CardinalityType
<1>2. PICK o \in [1..n -> keep] : /\ \A i, j \in 1..n : i < j => o[i] < o[j]
                                  /\ t = [k \in 1..n |-> s[o[k]]]
  BY DEF Left
<1>3. t \in [1..n -> {s[i] : i \in DOMAIN s}]
  BY <1>2
<1>4. IsSequence(t) /\ DOMAIN t = 1..n
  BY <1>1, <1>3, SequenceOf
<1>5. keep \subseteq Nat
  BY SequenceIs
<1>6. \A i, j \in 1..n : o[i] = o[j] => i = j
  <2> HIDE DEF n
  <2>1. SUFFICES ASSUME NEW i \in 1..n, NEW j \in 1..n, o[i] = o[j], i # j PROVE FALSE
    OBVIOUS
  <2>2. o[i] \in Nat /\ o[j] \in Nat
    BY <1>2, <1>5
  <2>3. i < j \/ j < i
    BY <1>1, <2>1
  <2> QED
    BY <1>2, <2>1, <2>2, <2>3
<1>7. o \in [DOMAIN t -> keep]
  BY <1>2, <1>4
<1>8. \A k \in DOMAIN t : t[k] = s[o[k]]
  <2> HIDE DEF n
  <2> QED
    BY <1>2, <1>4
<1>9. \A i, j \in DOMAIN t : o[i] = o[j] => i = j
  BY <1>4, <1>6
<1> HIDE DEF n
<1> QED
  BY <1>4, <1>7, <1>8, <1>9

-----------------------------------------------------------------------------
(* What is saved                                                            *)

Over(id) == id = Earlier \/ (id \in Requests /\ work[id].stage = "saved")

\* Every analysis is of a request that is over, has its documents and the log it
\* claims, and no two are of one request.
AnalysisSound(a) ==
  /\ DOMAIN a = {"id", "kind", "requires", "traced", "findings", "review"}
  /\ Over(a.id) /\ a.review.version \in Nat
  /\ a.requires \subseteq Uploaded
  /\ a.traced => interactions[a.id] \in {"ok", "error"}

AnalysesSound ==
  /\ IsSequence(analyses)
  /\ \A i \in DOMAIN analyses : AnalysisSound(analyses[i])
  /\ \A i, j \in DOMAIN analyses : analyses[i].id = analyses[j].id => i = j

\* One entry an input.
ProgressSound(progress) ==
  /\ IsSequence(progress)
  /\ \A i, j \in DOMAIN progress : progress[i].input = progress[j].input => i = j

WorkFields == {"stage", "by", "kind", "about", "requires", "logs", "ok", "input", "batch", "seen"}

\* What a request at each stage has logged.
LogFits(w, status) ==
  /\ DOMAIN w = WorkFields
  /\ w.stage \in {"new", "generate", "log", "extract", "store", "pin", "mark", "decide"} =>
       status = "none"
  /\ w.stage = "log" => w.logs
  /\ w.stage \in {"save", "correct"} => status \in {"none", "ok", "error"}
  /\ w.stage = "save" /\ ~w.logs => status = "none"
  /\ w.stage = "saved" => status # "workspace_changed"
  /\ w.stage = "refused" => status \in {"none", "workspace_changed"}

\* Who decides on a review has seen the one there is, if its version is the same.
SeenFits(w, a) ==
  w.stage = "decide" /\ a.id = w.about =>
    /\ w.seen.version <= a.review.version
    /\ w.seen.version = a.review.version => w.seen = a.review

RequestSound(r) ==
  /\ LogFits(work[r], interactions[r])
  /\ work[r].stage = "decide" => Over(work[r].about) /\ work[r].seen.version \in Nat
  /\ \A i \in DOMAIN analyses : SeenFits(work[r], analyses[i])

WorkInv ==
  /\ DOMAIN work = Requests /\ DOMAIN interactions = Requests \union {Earlier}
  /\ interactions[Earlier] = "ok"
  /\ AnalysesSound
  /\ \A d \in Uploaded : ProgressSound(documents[d])
  /\ \A r \in Requests : RequestSound(r)

LEMMA EmptyIs == IsSequence(<<>>) /\ DOMAIN <<>> = {}
<1>1. <<>> \in [1..0 -> {}] /\ 0 \in Nat
  OBVIOUS
<1> QED
  BY <1>1, SequenceOf

LEMMA SingleIs ==
  ASSUME NEW e
  PROVE  IsSequence(<<e>>) /\ DOMAIN <<e>> = {1} /\ <<e>>[1] = e
<1>1. <<e>> \in [1..1 -> {e}] /\ 1 \in Nat /\ <<e>>[1] = e /\ 1..1 = {1}
  OBVIOUS
<1>2. IsSequence(<<e>>) /\ DOMAIN <<e>> = 1..1
  BY <1>1, SequenceOf
<1> QED
  BY <1>1, <1>2

LEMMA InitWork == WorkspacesInit => WorkInv
<1> SUFFICES ASSUME WorkspacesInit PROVE WorkInv
  OBVIOUS
<1>1. /\ DOMAIN work = Requests /\ DOMAIN interactions = Requests \union {Earlier}
      /\ \A r \in Requests : work[r] = NoWork /\ interactions[r] = "none"
      /\ interactions[Earlier] = "ok"
  BY WorkspaceAssumption DEF WorkspacesInit
<1>2. /\ NoWork.stage = "new" /\ DOMAIN NoWork = WorkFields
  BY DEF NoWork, WorkFields
<1>3. \A r \in Requests : RequestSound(r)
  BY <1>1, <1>2 DEF RequestSound, LogFits, SeenFits
<1>4. PICK d \in SUBSET Documents : /\ documents = [x \in d |-> <<>>]
                                   /\ analyses \in {<<>>} \union {<<EarlierReview(x)>> : x \in d}
  BY DEF WorkspacesInit
<1>5. \A x \in Uploaded : ProgressSound(documents[x])
  BY <1>4, EmptyIs DEF Uploaded, ProgressSound
<1>6. AnalysesSound
  <2>1. CASE analyses = <<>>
    BY <2>1, EmptyIs DEF AnalysesSound
  <2>2. ASSUME NEW x \in d, analyses = <<EarlierReview(x)>> PROVE AnalysesSound
    <3>1. PICK a : a = EarlierReview(x)
      OBVIOUS
    <3>2. /\ DOMAIN a = {"id", "kind", "requires", "traced", "findings", "review"}
          /\ a.id = Earlier /\ a.review = NoReview /\ a.requires = {x}
      BY <3>1 DEF EarlierReview
    <3>3. NoReview.version \in Nat
      BY DEF NoReview
    <3>4. AnalysisSound(a)
      BY <1>1, <1>4, <3>2, <3>3 DEF AnalysisSound, Over, Uploaded
    <3>5. IsSequence(analyses) /\ DOMAIN analyses = {1} /\ analyses[1] = a
      BY <2>2, <3>1, SingleIs
    <3> QED
      BY <3>4, <3>5 DEF AnalysesSound
  <2> QED
    BY <1>4, <2>1, <2>2
<1> QED
  BY <1>1, <1>3, <1>5, <1>6 DEF WorkInv

-----------------------------------------------------------------------------
\* A step of one request, which may log, and leaves what is saved or stores a document.
LEMMA StoringWork ==
  ASSUME WorkInv, NEW r \in Requests, work[r].stage # "saved", NEW w, NEW status,
         work' = [work EXCEPT ![r] = w],
         DOMAIN interactions' = DOMAIN interactions,
         \A q \in DOMAIN interactions : interactions'[q] = IF q = r THEN status ELSE interactions[q],
         LogFits(w, status), UNCHANGED analyses,
         Uploaded \subseteq Uploaded', \A d \in Uploaded' : ProgressSound(documents'[d]),
         w.stage = "decide" => /\ Over(w.about) /\ w.seen.version \in Nat
                               /\ \A i \in DOMAIN analyses : SeenFits(w, analyses[i])
  PROVE  WorkInv'
<1>1. \A q \in Requests : work'[q] = IF q = r THEN w ELSE work[q]
  BY DEF WorkInv
<1>2. ASSUME NEW id, Over(id) PROVE Over(id)' /\ interactions'[id] = interactions[id]
  BY <1>1, <1>2, WorkspaceAssumption DEF WorkInv, Over
<1>3. AnalysesSound'
  <2>1. ASSUME NEW i \in DOMAIN analyses PROVE AnalysisSound(analyses[i])'
    <3>1. AnalysisSound(analyses[i])
      BY DEF WorkInv, AnalysesSound
    <3> QED
      BY <1>2, <3>1 DEF AnalysisSound, Uploaded
  <2> QED
    BY <2>1 DEF WorkInv, AnalysesSound, IsSequence
<1>4. ASSUME NEW q \in Requests PROVE RequestSound(q)'
  <2>1. interactions'[q] = IF q = r THEN status ELSE interactions[q]
    BY DEF WorkInv
  <2>2. RequestSound(q)
    BY DEF WorkInv
  <2>3. CASE q = r
    <3>1. work'[q] = w /\ interactions'[q] = status
      BY <1>1, <2>1, <2>3
    <3>2. \A i \in DOMAIN analyses : SeenFits(w, analyses[i])
      BY DEF SeenFits
    <3> QED
      BY <1>2, <3>1, <3>2 DEF RequestSound
  <2>4. CASE q # r
    <3>1. work'[q] = work[q] /\ interactions'[q] = interactions[q]
      BY <1>1, <2>1, <2>4
    <3> QED
      BY <1>2, <2>2, <3>1 DEF RequestSound
  <2> QED
    BY <2>3, <2>4
<1>5. /\ DOMAIN work' = Requests /\ DOMAIN interactions' = Requests \union {Earlier}
      /\ interactions'[Earlier] = "ok"
  BY WorkspaceAssumption DEF WorkInv
<1> QED
  BY <1>3, <1>4, <1>5 DEF WorkInv, ProgressSound, IsSequence

LEMMA OneWork ==
  ASSUME WorkInv, NEW r \in Requests, work[r].stage # "saved", NEW w, NEW status,
         work' = [work EXCEPT ![r] = w],
         DOMAIN interactions' = DOMAIN interactions,
         \A q \in DOMAIN interactions : interactions'[q] = IF q = r THEN status ELSE interactions[q],
         LogFits(w, status), UNCHANGED <<analyses, documents>>,
         w.stage = "decide" => /\ Over(w.about) /\ w.seen.version \in Nat
                               /\ \A i \in DOMAIN analyses : SeenFits(w, analyses[i])
  PROVE  WorkInv'
<1>1. Uploaded \subseteq Uploaded' /\ \A d \in Uploaded' : ProgressSound(documents'[d])
  BY DEF WorkInv, Uploaded
<1> QED
  BY <1>1, StoringWork

\* Without a word to the log.
LEMMA SilentWork ==
  ASSUME WorkInv, NEW r \in Requests, work[r].stage # "saved", NEW w,
         work' = [work EXCEPT ![r] = w], UNCHANGED <<interactions, analyses, documents>>,
         LogFits(w, interactions[r]),
         w.stage = "decide" => /\ Over(w.about) /\ w.seen.version \in Nat
                               /\ \A i \in DOMAIN analyses : SeenFits(w, analyses[i])
  PROVE  WorkInv'
<1>1. PICK status : status = interactions[r]
  OBVIOUS
<1> QED
  BY <1>1, OneWork

-----------------------------------------------------------------------------
(* Requests that begin                                                      *)

Starts(next) == DOMAIN next = WorkFields /\ next.stage = "generate"

LEMMA BeginKeeps ==
  ASSUME WorkInv, NEW r \in Requests, NEW by, NEW next, Begin(r, by, next),
         DOMAIN next = WorkFields,
         \/ next.stage \in {"generate", "extract", "pin", "mark"}
         \/ /\ next.stage = "decide" /\ Over(next.about) /\ next.seen.version \in Nat
            /\ \A i \in DOMAIN analyses : SeenFits(next, analyses[i])
  PROVE  WorkInv'
<1>1. PICK w : w = [next EXCEPT !.by = by]
  OBVIOUS
<1>2. /\ DOMAIN w = WorkFields /\ w.stage = next.stage /\ w.about = next.about
      /\ w.seen = next.seen
  BY <1>1 DEF WorkFields
<1>3. /\ work[r].stage = "new" /\ work' = [work EXCEPT ![r] = w]
      /\ UNCHANGED <<interactions, analyses, documents>>
  BY <1>1 DEF Begin, content
<1>4. interactions[r] = "none"
  BY <1>3 DEF WorkInv, RequestSound, LogFits
<1>5. LogFits(w, interactions[r])
  BY <1>2, <1>4 DEF LogFits
<1>6. \A i \in DOMAIN analyses : SeenFits(next, analyses[i]) => SeenFits(w, analyses[i])
  BY <1>2 DEF SeenFits
<1> QED
  BY <1>2, <1>3, <1>5, <1>6, SilentWork

LEMMA AnalysisBegins ==
  ASSUME WorkInv, NEW r \in Requests, NEW by, BeginAnalysis(r, by)
  PROVE  WorkInv'
<1>1. \A kind, requires, logs : Starts(Analysis(kind, requires, logs))
  BY DEF Starts, Analysis, NoWork, WorkFields
<1>2. ASSUME NEW d PROVE Starts(ContractReview(d))
  <2>1. PICK a : a = Analysis("review", {d}, TRUE)
    OBVIOUS
  <2>2. ContractReview(d) = [a EXCEPT !.about = d] /\ Starts(a)
    BY <1>1, <2>1 DEF ContractReview
  <2> QED
    BY <2>2 DEF Starts, WorkFields
<1>3. ASSUME NEW d, NEW f, NEW b PROVE Starts(FullReview(d, f, b))
  <2>1. PICK a : a = Analysis("full_review", {d}, TRUE)
    OBVIOUS
  <2>2. FullReview(d, f, b) = [a EXCEPT !.about = d, !.input = f, !.batch = b] /\ Starts(a)
    BY <1>1, <2>1 DEF FullReview
  <2> QED
    BY <2>2 DEF Starts, WorkFields
<1>4. /\ \A s : /\ Starts(ResearchReport(s)) /\ Starts(ClaimVerification(s))
               /\ Starts(ModelComparison(s)) /\ Starts(LegalEffect(s))
               /\ Starts(Timeline(s)) /\ Starts(SelectedAnswer(s))
               /\ Starts(Comparison(s)) /\ Starts(ObligationMatrix(s)) /\ Starts(ReportVersion(s))
      /\ \A d, e : Starts(Redline(d, e))
      /\ Starts(DeepResearch) /\ Starts(SourceRead) /\ Starts(RetainedSource)
  BY <1>1 DEF ResearchReport, ClaimVerification, ModelComparison, LegalEffect, Timeline,
     SelectedAnswer, Comparison, ObligationMatrix, ReportVersion, Redline, DeepResearch,
     SourceRead, RetainedSource
<1>5. \E next : Begin(r, by, next) /\ Starts(next)
  BY <1>2, <1>3, <1>4 DEF BeginAnalysis
<1> QED
  BY <1>5, BeginKeeps DEF Starts

LEMMA EditBegins ==
  ASSUME WorkInv, NEW r \in Requests, NEW by, Edit(r, by)
  PROVE  WorkInv'
<1>1. ASSUME NEW d, NEW ocr, BeginUpload(r, by, d, ocr) PROVE WorkInv'
  <2>1. PICK next : next = [NoWork EXCEPT !.stage = "extract", !.kind = "upload", !.about = d,
                                          !.logs = ocr]
    OBVIOUS
  <2>2. Begin(r, by, next) /\ DOMAIN next = WorkFields /\ next.stage = "extract"
    BY <1>1, <2>1 DEF BeginUpload, NoWork, WorkFields
  <2> QED
    BY <2>2, BeginKeeps
<1>2. ASSUME NEW kind, NEW id, BeginPin(r, by, kind, id) PROVE WorkInv'
  <2>1. PICK next : next = [NoWork EXCEPT !.stage = "pin", !.kind = kind, !.about = id]
    OBVIOUS
  <2>2. Begin(r, by, next) /\ DOMAIN next = WorkFields /\ next.stage = "pin"
    BY <1>2, <2>1 DEF BeginPin, NoWork, WorkFields
  <2> QED
    BY <2>2, BeginKeeps
<1>3. ASSUME NEW e, BeginEvidenceReview(r, by, e) PROVE WorkInv'
  <2>1. PICK next : next = [NoWork EXCEPT !.stage = "mark", !.kind = "mark", !.about = e.id,
                                          !.seen = e.review]
    OBVIOUS
  <2>2. Begin(r, by, next) /\ DOMAIN next = WorkFields /\ next.stage = "mark"
    BY <1>3, <2>1 DEF BeginEvidenceReview, NoWork, WorkFields
  <2> QED
    BY <2>2, BeginKeeps
<1>4. ASSUME NEW i \in DOMAIN analyses, BeginFindingReview(r, by, analyses[i]) PROVE WorkInv'
  <2>1. PICK a : a = analyses[i]
    OBVIOUS
  <2>2. PICK next : next = [NoWork EXCEPT !.stage = "decide", !.kind = "decide", !.about = a.id,
                                          !.seen = a.review]
    OBVIOUS
  <2>3. /\ Begin(r, by, next) /\ DOMAIN next = WorkFields /\ next.stage = "decide"
        /\ next.about = a.id /\ next.seen = a.review
    BY <1>4, <2>1, <2>2 DEF BeginFindingReview, NoWork, WorkFields
  <2>4. Over(a.id) /\ a.review.version \in Nat
    BY <2>1 DEF WorkInv, AnalysesSound, AnalysisSound
  <2>5. ASSUME NEW j \in DOMAIN analyses PROVE SeenFits(next, analyses[j])
    <3>1. SUFFICES ASSUME analyses[j].id = next.about PROVE SeenFits(next, analyses[j])
      BY DEF SeenFits
    <3>2. analyses[j] = a
      BY <2>1, <2>3, <3>1 DEF WorkInv, AnalysesSound
    <3> QED
      BY <2>3, <2>4, <3>2 DEF SeenFits
  <2> QED
    BY <2>3, <2>4, <2>5, BeginKeeps
<1> QED
  BY <1>1, <1>2, <1>3, <1>4 DEF Edit, BeginClausePin, BeginContextPin, BeginSourcePin

-----------------------------------------------------------------------------
(* Requests at work                                                         *)

\* A request that ends, or goes to its next stage.
LEMMA Ended ==
  ASSUME NEW how
  PROVE  /\ [NoWork EXCEPT !.stage = how].stage = how
         /\ DOMAIN [NoWork EXCEPT !.stage = how] = WorkFields
BY DEF NoWork, WorkFields

LEMMA WorkOnly ==
  ASSUME WorkInv, NEW r \in Requests,
         Generate(r) \/ Log(r) \/ Refuse(r) \/ Correct(r) \/ Extract(r) \/ Pin(r) \/ Mark(r)
  PROVE  WorkInv'
<1>0. /\ LogFits(work[r], interactions[r]) /\ DOMAIN work = Requests
      /\ DOMAIN interactions = Requests \union {Earlier}
  BY DEF WorkInv, RequestSound
<1>1. CASE Generate(r)
  <2>1. PICK w : \/ /\ work' = [work EXCEPT ![r] = w] /\ DOMAIN w = WorkFields
                    /\ w.logs = work[r].logs
                    /\ w.stage = IF work[r].logs THEN "log" ELSE "save"
                 \/ w = [NoWork EXCEPT !.stage = "rejected"] /\ work' = [work EXCEPT ![r] = w]
    <3>1. ASSUME NEW ok \in BOOLEAN,
                 work' = [work EXCEPT ![r].ok = ok,
                                      ![r].stage = IF work[r].logs THEN "log" ELSE "save"]
          PROVE  \E w : /\ work' = [work EXCEPT ![r] = w] /\ DOMAIN w = WorkFields
                        /\ w.logs = work[r].logs
                        /\ w.stage = IF work[r].logs THEN "log" ELSE "save"
      <4>1. PICK w : w = [work[r] EXCEPT !.ok = ok,
                                         !.stage = IF work[r].logs THEN "log" ELSE "save"]
        OBVIOUS
      <4>2. work' = [work EXCEPT ![r] = w]
        BY <3>1, <4>1
      <4>3. /\ DOMAIN w = WorkFields /\ w.logs = work[r].logs
            /\ w.stage = IF work[r].logs THEN "log" ELSE "save"
        BY <1>0, <4>1 DEF LogFits, WorkFields
      <4> QED
        BY <4>2, <4>3
    <3> QED
      BY <1>1, <3>1 DEF Generate, Ends
  <2>2. work[r].stage = "generate" /\ UNCHANGED <<interactions, analyses, documents>>
    BY <1>1 DEF Generate, Doing, content
  <2>3. LogFits(w, interactions[r]) /\ w.stage # "decide"
    BY <1>0, <2>1, <2>2, Ended DEF LogFits
  <2> QED
    BY <2>1, <2>2, <2>3, SilentWork
<1>2. CASE Log(r)
  <2>1. PICK w : w = [work[r] EXCEPT !.stage = "save"]
    OBVIOUS
  <2>2. /\ work[r].stage = "log" /\ UNCHANGED <<analyses, documents>>
        /\ work' = [work EXCEPT ![r] = w]
    BY <1>2, <2>1 DEF Log, Doing, GoOn, content
  <2>3. DOMAIN w = WorkFields /\ w.stage = "save" /\ w.logs
    BY <1>0, <2>1, <2>2 DEF LogFits, WorkFields
  <2>4. PICK status \in {"none", "ok", "error"} :
          /\ DOMAIN interactions' = DOMAIN interactions
          /\ \A q \in DOMAIN interactions :
               interactions'[q] = IF q = r THEN status ELSE interactions[q]
    <3>1. interactions[r] = "none"
      BY <1>0, <2>2 DEF LogFits
    <3>2. \/ interactions' = [interactions EXCEPT ![r] = "ok"]
          \/ interactions' = [interactions EXCEPT ![r] = "error"]
          \/ UNCHANGED interactions
      BY <1>2 DEF Log
    <3> QED
      BY <3>1, <3>2
  <2>5. LogFits(w, status)
    BY <2>3, <2>4 DEF LogFits
  <2> QED
    BY <2>2, <2>3, <2>4, <2>5, OneWork
<1>3. CASE Refuse(r)
  <2>1. /\ work[r].stage = "save" /\ UNCHANGED <<interactions, analyses, documents>>
    BY <1>3 DEF Refuse, Doing, content
  <2>2. CASE work[r].logs /\ GoOn(r, "correct")
    <3>1. PICK w : w = [work[r] EXCEPT !.stage = "correct"]
      OBVIOUS
    <3>2. work' = [work EXCEPT ![r] = w]
      BY <2>2, <3>1 DEF GoOn
    <3>3. DOMAIN w = WorkFields /\ w.stage = "correct"
      BY <1>0, <3>1 DEF LogFits, WorkFields
    <3>4. LogFits(w, interactions[r])
      BY <1>0, <2>1, <3>3 DEF LogFits
    <3> QED
      BY <2>1, <3>2, <3>3, <3>4, SilentWork
  <2>3. CASE ~work[r].logs /\ Ends(r, "refused")
    <3>1. PICK w : w = [NoWork EXCEPT !.stage = "refused"]
      OBVIOUS
    <3>2. work' = [work EXCEPT ![r] = w] /\ DOMAIN w = WorkFields /\ w.stage = "refused"
      BY <2>3, <3>1, Ended DEF Ends
    <3>3. LogFits(w, interactions[r])
      BY <1>0, <2>1, <2>3, <3>2 DEF LogFits
    <3> QED
      BY <2>1, <3>2, <3>3, SilentWork
  <2> QED
    BY <1>3, <2>2, <2>3 DEF Refuse
<1>4. CASE Correct(r)
  <2>1. PICK w : w = [NoWork EXCEPT !.stage = "refused"]
    OBVIOUS
  <2>2. /\ work[r].stage = "correct" /\ UNCHANGED <<analyses, documents>>
        /\ work' = [work EXCEPT ![r] = w] /\ DOMAIN w = WorkFields /\ w.stage = "refused"
    BY <1>4, <2>1, Ended DEF Correct, Doing, Ends, content
  <2>3. PICK status \in {"none", "workspace_changed"} :
          interactions' = [interactions EXCEPT ![r] = status]
    BY <1>4 DEF Correct
  <2>4. /\ DOMAIN interactions' = DOMAIN interactions
        /\ \A q \in DOMAIN interactions :
             interactions'[q] = IF q = r THEN status ELSE interactions[q]
    BY <2>3
  <2>5. LogFits(w, status)
    BY <2>2 DEF LogFits
  <2> QED
    BY <2>2, <2>4, <2>5, OneWork
<1>5. CASE Extract(r)
  <2>1. work[r].stage = "extract" /\ UNCHANGED <<analyses, documents>>
    BY <1>5 DEF Extract, Doing, content
  <2>2. CASE GoOn(r, "store") /\ UNCHANGED interactions
    <3>1. PICK w : w = [work[r] EXCEPT !.stage = "store"]
      OBVIOUS
    <3>2. work' = [work EXCEPT ![r] = w]
      BY <2>2, <3>1 DEF GoOn
    <3>3. DOMAIN w = WorkFields /\ w.stage = "store"
      BY <1>0, <3>1 DEF LogFits, WorkFields
    <3>4. LogFits(w, interactions[r])
      BY <1>0, <2>1, <3>3 DEF LogFits
    <3> QED
      BY <2>1, <2>2, <3>2, <3>3, <3>4, SilentWork
  <2>3. CASE /\ Ends(r, "rejected")
             /\ interactions' = [interactions EXCEPT ![r] = IF work[r].logs THEN "error" ELSE @]
    <3>1. PICK w : w = [NoWork EXCEPT !.stage = "rejected"]
      OBVIOUS
    <3>2. work' = [work EXCEPT ![r] = w] /\ DOMAIN w = WorkFields /\ w.stage = "rejected"
      BY <2>3, <3>1, Ended DEF Ends
    <3>3. PICK status : status = interactions'[r]
      OBVIOUS
    <3>4. /\ DOMAIN interactions' = DOMAIN interactions
          /\ \A q \in DOMAIN interactions :
               interactions'[q] = IF q = r THEN status ELSE interactions[q]
      BY <2>3, <3>3
    <3>5. LogFits(w, status)
      BY <3>2 DEF LogFits
    <3> QED
      BY <2>1, <3>2, <3>4, <3>5, OneWork
  <2> QED
    BY <1>5, <2>2, <2>3 DEF Extract
<1>6. CASE Pin(r) \/ Mark(r)
  <2>1. /\ work[r].stage \in {"pin", "mark"}
        /\ UNCHANGED <<interactions, analyses, documents>>
        /\ Ends(r, "saved") \/ Ends(r, "refused")
    BY <1>6 DEF Pin, Mark, Doing
  <2>2. PICK w : /\ work' = [work EXCEPT ![r] = w]
                 /\ w = [NoWork EXCEPT !.stage = "saved"] \/ w = [NoWork EXCEPT !.stage = "refused"]
    BY <2>1 DEF Ends
  <2>3. DOMAIN w = WorkFields /\ w.stage \in {"saved", "refused"}
    BY <2>2, Ended
  <2>4. LogFits(w, interactions[r])
    BY <1>0, <2>1, <2>3 DEF LogFits
  <2> QED
    BY <2>1, <2>2, <2>3, <2>4, SilentWork
<1> QED
  BY <1>1, <1>2, <1>3, <1>4, <1>5, <1>6

-----------------------------------------------------------------------------
(* What changes in the workspace                                            *)

\* An entry of the new analyses is one of the old, or of a request that had none.
LEMMA FindingsFollow ==
  ASSUME WorkInv,
         \A k \in DOMAIN analyses' :
           \/ \E i \in DOMAIN analyses : analyses'[k] = analyses[i]
           \/ \A i \in DOMAIN analyses : analyses[i].id # analyses'[k].id
  PROVE  FindingsKept
BY DEF FindingsKept, WorkInv, AnalysesSound

LEMMA ProgressFollows ==
  ASSUME WorkInv, \A d \in Uploaded \intersect DOMAIN documents' : documents'[d] = documents[d]
  PROVE  ProgressKept
<1> SUFFICES ASSUME NEW d \in Uploaded \intersect DOMAIN documents',
                    NEW i \in DOMAIN documents[d], NEW k \in DOMAIN documents'[d],
                    documents[d][i].input = documents'[d][k].input
             PROVE  documents[d][i].done \subseteq documents'[d][k].done
  BY DEF ProgressKept
<1>1. ProgressSound(documents[d]) /\ documents'[d] = documents[d]
  BY DEF WorkInv
<1>2. i = k
  BY <1>1 DEF ProgressSound
<1> QED
  BY <1>1, <1>2

LEMMA NothingEdited ==
  ASSUME WorkInv, UNCHANGED <<analyses, documents>>
  PROVE  FindingsKept /\ ProgressKept
BY FindingsFollow, ProgressFollows

\* A step of no request: something may go, nothing comes.
LEMMA ContentStep ==
  ASSUME WorkInv, UNCHANGED <<work, interactions>>, IsSequence(analyses'),
         \A k \in DOMAIN analyses' : \E i \in DOMAIN analyses :
           analyses'[k] = analyses[i] /\ analyses[i].requires \subseteq Uploaded',
         \A k, l \in DOMAIN analyses' : analyses'[k].id = analyses'[l].id => k = l,
         \A d \in Uploaded' : d \in Uploaded /\ documents'[d] = documents[d]
  PROVE  WorkInv' /\ FindingsKept /\ ProgressKept
<1>1. ASSUME NEW k \in DOMAIN analyses' PROVE AnalysisSound(analyses[k])'
  <2>1. PICK i \in DOMAIN analyses :
          analyses'[k] = analyses[i] /\ analyses[i].requires \subseteq Uploaded'
    OBVIOUS
  <2>2. AnalysisSound(analyses[i])
    BY DEF WorkInv, AnalysesSound
  <2> QED
    BY <2>1, <2>2 DEF AnalysisSound, Over
<1>2. AnalysesSound'
  BY <1>1 DEF AnalysesSound, IsSequence
<1>3. ASSUME NEW d \in Uploaded' PROVE ProgressSound(documents[d])'
  <2>1. ProgressSound(documents[d]) /\ documents'[d] = documents[d]
    BY DEF WorkInv
  <2> QED
    BY <2>1 DEF ProgressSound, IsSequence
<1>4. ASSUME NEW r \in Requests PROVE RequestSound(r)'
  <2>1. RequestSound(r)
    BY DEF WorkInv
  <2>2. \A k \in DOMAIN analyses' : SeenFits(work[r], analyses'[k])
    BY <2>1 DEF RequestSound
  <2> QED
    BY <2>1, <2>2 DEF RequestSound, Over, SeenFits
<1>5. WorkInv'
  BY <1>2, <1>3, <1>4 DEF WorkInv
<1>6. FindingsKept
  BY FindingsFollow
<1>7. ProgressKept
  BY ProgressFollows DEF Uploaded
<1> QED
  BY <1>5, <1>6, <1>7

LEMMA OwnersKeep ==
  ASSUME WorkInv,
         \/ Claim \/ Vanish
         \/ \E by, d : RemoveDocument(by, d)
         \/ \E by, id : Unpin(by, id)
  PROVE  WorkInv' /\ FindingsKept /\ ProgressKept
<1>0. /\ IsSequence(analyses)
      /\ \A i \in DOMAIN analyses : AnalysisSound(analyses[i])
      /\ \A i, j \in DOMAIN analyses : analyses[i].id = analyses[j].id => i = j
  BY DEF WorkInv, AnalysesSound
<1>1. CASE UNCHANGED <<work, interactions, analyses, documents>>
  BY <1>0, <1>1, ContentStep DEF AnalysisSound, Uploaded
<1>2. CASE Vanish
  <2>1. analyses' = <<>> /\ documents' = <<>> /\ UNCHANGED <<work, interactions>>
    BY <1>2 DEF Vanish
  <2>2. IsSequence(analyses') /\ DOMAIN analyses' = {} /\ Uploaded' = {}
    BY <2>1, EmptyIs DEF Uploaded
  <2> QED
    BY <2>1, <2>2, ContentStep
<1>3. ASSUME NEW by, NEW d, RemoveDocument(by, d)
      PROVE  WorkInv' /\ FindingsKept /\ ProgressKept
  <2>1. PICK keep : keep = {i \in DOMAIN analyses : ~Dependent(analyses[i], d)}
    OBVIOUS
  <2>2. /\ analyses' \in Left(analyses, keep) /\ keep \in SUBSET (DOMAIN analyses)
        /\ documents' = [x \in Uploaded \ {d} |-> documents[x]]
        /\ UNCHANGED <<work, interactions>>
    BY <1>3, <2>1 DEF RemoveDocument
  <2>3. IsSequence(analyses')
    BY <1>0, <2>2, LeftOf
  <2>4. PICK o \in [DOMAIN analyses' -> keep] :
          /\ \A k \in DOMAIN analyses' : analyses'[k] = analyses[o[k]]
          /\ \A i, j \in DOMAIN analyses' : o[i] = o[j] => i = j
    BY <1>0, <2>2, LeftOf
  <2>5. Uploaded' = Uploaded \ {d} /\ \A x \in Uploaded' : documents'[x] = documents[x]
    BY <2>2 DEF Uploaded
  <2>6. ASSUME NEW k \in DOMAIN analyses'
        PROVE  \E i \in DOMAIN analyses :
                 analyses'[k] = analyses[i] /\ analyses[i].requires \subseteq Uploaded'
    <3>1. /\ o[k] \in DOMAIN analyses /\ analyses'[k] = analyses[o[k]]
          /\ d \notin analyses[o[k]].requires
      BY <2>1, <2>4 DEF Dependent
    <3>2. analyses[o[k]].requires \subseteq Uploaded
      BY <1>0, <3>1 DEF AnalysisSound
    <3> QED
      BY <2>5, <3>1, <3>2
  <2>7. ASSUME NEW k \in DOMAIN analyses', NEW l \in DOMAIN analyses',
               analyses'[k].id = analyses'[l].id
        PROVE  k = l
    BY <1>0, <2>1, <2>4, <2>7
  <2> QED
    BY <2>2, <2>3, <2>5, <2>6, <2>7, ContentStep
<1> QED
  BY <1>1, <1>2, <1>3 DEF Claim, Unpin

LEMMA StoreKeeps ==
  ASSUME WorkInv, NEW r \in Requests, StoreDocument(r)
  PROVE  WorkInv' /\ FindingsKept /\ ProgressKept
<1>0. work[r].stage = "store" /\ UNCHANGED analyses
  BY DEF StoreDocument, Doing
<1>1. PICK how \in {"saved", "refused"}, status \in {"none", "ok", "workspace_changed"} :
        /\ Ends(r, how) /\ interactions' = [interactions EXCEPT ![r] = status]
        /\ how = "saved" => status # "workspace_changed"
        /\ how = "refused" => status # "ok"
  BY DEF StoreDocument
<1>2. PICK w : w = [NoWork EXCEPT !.stage = how]
  OBVIOUS
<1>3. work' = [work EXCEPT ![r] = w] /\ DOMAIN w = WorkFields /\ w.stage = how
  BY <1>1, <1>2, Ended DEF Ends
<1>4. LogFits(w, status) /\ w.stage # "decide"
  BY <1>1, <1>3 DEF LogFits
<1>5. /\ DOMAIN interactions' = DOMAIN interactions
      /\ \A q \in DOMAIN interactions :
           interactions'[q] = IF q = r THEN status ELSE interactions[q]
  BY <1>1
<1>6. /\ Uploaded \subseteq Uploaded'
      /\ \A d \in Uploaded' : \/ d \in Uploaded /\ documents'[d] = documents[d]
                              \/ d \notin Uploaded /\ documents'[d] = <<>>
  BY DEF StoreDocument, Uploaded
<1>7. ASSUME NEW d \in Uploaded' PROVE ProgressSound(documents'[d])
  BY <1>6, EmptyIs DEF WorkInv, ProgressSound
<1>8. WorkInv'
  BY <1>0, <1>3, <1>4, <1>5, <1>6, <1>7, StoringWork
<1>9. FindingsKept
  BY <1>0, FindingsFollow
<1>10. ProgressKept
  BY <1>6, ProgressFollows DEF Uploaded
<1> QED
  BY <1>8, <1>9, <1>10

\* The entry of an input has what it had, and the batch.
LEMMA MergedKeeps ==
  ASSUME NEW d, ProgressSound(documents[d]), NEW f, NEW b, NEW merged \in Merged(d, f, b)
  PROVE  /\ ProgressSound(merged)
         /\ \A i \in DOMAIN documents[d], k \in DOMAIN merged :
              documents[d][i].input = merged[k].input => documents[d][i].done \subseteq merged[k].done
<1> DEFINE had == {i \in DOMAIN documents[d] : documents[d][i].input = f}
           done == {b} \union UNION {documents[d][i].done : i \in had}
           keep == DOMAIN documents[d] \ had
<1>1. PICK entry : entry = [input |-> f, done |-> done]
  OBVIOUS
<1>2. entry.input = f /\ entry.done = done
  BY <1>1
<1>3. PICK rest \in Left(documents[d], keep) : merged = Newest(Append(rest, entry), MaxInputs)
  BY <1>1 DEF Merged
<1>4. /\ IsSequence(documents[d])
      /\ \A i, j \in DOMAIN documents[d] : documents[d][i].input = documents[d][j].input => i = j
  BY DEF ProgressSound
<1>5. /\ IsSequence(rest)
      /\ \E o \in [DOMAIN rest -> keep] :
           /\ \A k \in DOMAIN rest : rest[k] = documents[d][o[k]]
           /\ \A i, j \in DOMAIN rest : o[i] = o[j] => i = j
  <2>1. keep \in SUBSET (DOMAIN documents[d])
    OBVIOUS
  <2> HIDE DEF keep
  <2> QED
    BY <1>3, <1>4, <2>1, LeftOf
<1>6. PICK o \in [DOMAIN rest -> keep] :
        /\ \A k \in DOMAIN rest : rest[k] = documents[d][o[k]]
        /\ \A i, j \in DOMAIN rest : o[i] = o[j] => i = j
  BY <1>5
<1>7. \A k \in DOMAIN rest : o[k] \in DOMAIN documents[d] /\ rest[k].input # f
  BY <1>6
<1>8. MaxInputs \in Nat \ {0}
  BY WorkspaceAssumption
<1>9. NewestWith(merged, rest, entry)
  BY <1>3, <1>5, <1>8, NewestOf
<1>10. PICK shift \in Nat : \A k \in DOMAIN merged :
         /\ k \in Nat
         /\ \/ k + shift = Len(rest) + 1 /\ merged[k] = entry
            \/ k + shift \in DOMAIN rest /\ merged[k] = rest[k + shift]
  BY <1>9 DEF NewestWith
<1>11. Len(rest) \in Nat
  BY <1>5, SequenceIs
<1> HIDE DEF had, done, keep
<1>12. ASSUME NEW i \in DOMAIN merged, NEW j \in DOMAIN merged, merged[i].input = merged[j].input
       PROVE  i = j
  <2>1. CASE merged[i].input = f
    <3>1. i + shift = Len(rest) + 1 /\ j + shift = Len(rest) + 1
      BY <1>7, <1>10, <1>12, <2>1
    <3> QED
      BY <1>10, <1>11, <3>1
  <2>2. CASE merged[i].input # f
    <3>1. /\ i + shift \in DOMAIN rest /\ j + shift \in DOMAIN rest
          /\ rest[i + shift].input = rest[j + shift].input
      BY <1>2, <1>10, <1>12, <2>2
    <3>2. PICK x \in DOMAIN rest, y \in DOMAIN rest : x = i + shift /\ y = j + shift
      BY <3>1
    <3>3. o[x] = o[y]
      BY <1>4, <1>6, <1>7, <3>1, <3>2
    <3>4. x = y
      BY <1>6, <3>3
    <3> QED
      BY <1>10, <3>2, <3>4
  <2> QED
    BY <2>1, <2>2
<1>13. ASSUME NEW i \in DOMAIN documents[d], NEW k \in DOMAIN merged,
              documents[d][i].input = merged[k].input
       PROVE  documents[d][i].done \subseteq merged[k].done
  <2>1. CASE merged[k] = entry
    BY <1>2, <1>13, <2>1 DEF done, had
  <2>2. CASE k + shift \in DOMAIN rest /\ merged[k] = rest[k + shift]
    <3>1. PICK x \in DOMAIN rest : merged[k] = rest[x]
      BY <2>2
    <3>2. o[x] \in DOMAIN documents[d] /\ merged[k] = documents[d][o[x]]
      BY <1>6, <1>7, <3>1
    <3>3. i = o[x]
      BY <1>4, <1>13, <3>2
    <3> QED
      BY <3>2, <3>3
  <2> QED
    BY <1>10, <2>1, <2>2
<1> QED
  BY <1>9, <1>12, <1>13 DEF ProgressSound, NewestWith

LEMMA SaveKeeps ==
  ASSUME WorkInv, NEW r \in Requests, Save(r)
  PROVE  WorkInv' /\ FindingsKept /\ ProgressKept
<1>0. /\ work[r].stage = "save" /\ LogFits(work[r], interactions[r])
      /\ work[r].requires \subseteq Uploaded /\ UNCHANGED interactions
      /\ interactions[r] \in {"none", "ok", "error"} /\ ~Over(r)
  BY WorkspaceAssumption DEF Save, Doing, Accepted, WorkInv, RequestSound, LogFits, Over
<1>1. PICK new : new = [id |-> r, kind |-> work[r].kind, requires |-> work[r].requires,
                        traced |-> interactions[r] # "none", findings |-> work[r].ok,
                        review |-> NoReview]
  OBVIOUS
<1>2. /\ DOMAIN new = {"id", "kind", "requires", "traced", "findings", "review"}
      /\ new.id = r /\ new.requires = work[r].requires /\ new.review.version \in Nat
      /\ new.traced => interactions[r] \in {"ok", "error"}
  BY <1>0, <1>1 DEF NoReview
<1>3. /\ IsSequence(analyses)
      /\ \A i \in DOMAIN analyses : AnalysisSound(analyses[i]) /\ Over(analyses[i].id)
      /\ \A i, j \in DOMAIN analyses : analyses[i].id = analyses[j].id => i = j
  BY DEF WorkInv, AnalysesSound, AnalysisSound
<1>4. NewestWith(analyses', analyses, new)
  <2>1. analyses' = Newest(Append(analyses, new), MaxAnalyses) /\ MaxAnalyses \in Nat \ {0}
    BY <1>1, WorkspaceAssumption DEF Save, Saved
  <2> QED
    BY <1>3, <2>1, NewestOf
<1>5. PICK shift \in Nat : \A k \in DOMAIN analyses' :
        /\ k \in Nat
        /\ \/ k + shift = Len(analyses) + 1 /\ analyses'[k] = new
           \/ k + shift \in DOMAIN analyses /\ analyses'[k] = analyses[k + shift]
  BY <1>4 DEF NewestWith
<1>6. PICK w : w = [NoWork EXCEPT !.stage = "saved"]
  OBVIOUS
<1>7. work' = [work EXCEPT ![r] = w] /\ DOMAIN w = WorkFields /\ w.stage = "saved"
  BY <1>6, Ended DEF Save, Ends
<1>8. \A q \in Requests : work'[q] = IF q = r THEN w ELSE work[q]
  BY <1>7 DEF WorkInv
<1>9. \A id : (Over(id) => Over(id)') /\ Over(r)'
  BY <1>7, <1>8 DEF Over
<1>10. /\ Uploaded' = Uploaded
       /\ \A d \in Uploaded : ProgressSound(documents'[d])
       /\ ProgressKept
  <2>1. CASE UNCHANGED documents
    BY <2>1, ProgressFollows DEF WorkInv, Uploaded
  <2>2. ASSUME NEW merged \in Merged(work[r].about, work[r].input, work[r].batch),
               documents' = [documents EXCEPT ![work[r].about] = merged]
        PROVE  /\ Uploaded' = Uploaded
               /\ \A d \in Uploaded : ProgressSound(documents'[d])
               /\ ProgressKept
    <3>1. Uploaded' = Uploaded /\ DOMAIN documents' = Uploaded
      BY <2>2 DEF Uploaded
    <3>2. ASSUME NEW d \in Uploaded
          PROVE  /\ ProgressSound(documents'[d])
                 /\ \A i \in DOMAIN documents[d], k \in DOMAIN documents'[d] :
                      documents[d][i].input = documents'[d][k].input
                      => documents[d][i].done \subseteq documents'[d][k].done
      <4>1. ProgressSound(documents[d])
        BY DEF WorkInv
      <4>2. CASE d = work[r].about
        <5>1. documents'[d] = merged
          BY <2>2, <4>2 DEF Uploaded
        <5> QED
          BY <4>1, <4>2, <5>1, MergedKeeps
      <4>3. CASE d # work[r].about
        <5>1. documents'[d] = documents[d]
          BY <2>2, <4>3 DEF Uploaded
        <5>2. \A i, k \in DOMAIN documents[d] :
                documents[d][i].input = documents[d][k].input => i = k
          BY <4>1 DEF ProgressSound
        <5> QED
          BY <4>1, <5>1, <5>2
      <4> QED
        BY <4>2, <4>3
    <3> QED
      BY <3>1, <3>2 DEF ProgressKept
  <2> QED
    BY <2>1, <2>2 DEF Save
<1>11. ASSUME NEW k \in DOMAIN analyses' PROVE AnalysisSound(analyses[k])'
  <2>1. CASE analyses'[k] = new
    BY <1>0, <1>2, <1>9, <1>10, <2>1 DEF AnalysisSound
  <2>2. CASE k + shift \in DOMAIN analyses /\ analyses'[k] = analyses[k + shift]
    <3>1. AnalysisSound(analyses[k + shift])
      BY <1>3, <2>2
    <3> QED
      BY <1>0, <1>9, <1>10, <2>2, <3>1 DEF AnalysisSound
  <2> QED
    BY <1>5, <2>1, <2>2
<1>12. ASSUME NEW k \in DOMAIN analyses', NEW l \in DOMAIN analyses',
              analyses'[k].id = analyses'[l].id
       PROVE  k = l
  <2>1. Len(analyses) \in Nat /\ k \in Nat /\ l \in Nat
    BY <1>3, <1>5, SequenceIs
  <2>2. CASE analyses'[k].id = r
    <3>1. k + shift = Len(analyses) + 1 /\ l + shift = Len(analyses) + 1
      BY <1>0, <1>3, <1>5, <1>12, <2>2
    <3> QED
      BY <2>1, <3>1
  <2>3. CASE analyses'[k].id # r
    <3>1. /\ k + shift \in DOMAIN analyses /\ l + shift \in DOMAIN analyses
          /\ analyses[k + shift].id = analyses[l + shift].id
      BY <1>2, <1>5, <1>12, <2>3
    <3>2. k + shift = l + shift
      BY <1>3, <3>1
    <3> QED
      BY <2>1, <3>2
  <2> QED
    BY <2>2, <2>3
<1>13. AnalysesSound'
  BY <1>4, <1>11, <1>12 DEF AnalysesSound, NewestWith
<1>14. ASSUME NEW q \in Requests PROVE RequestSound(q)'
  <2>1. RequestSound(q)
    BY DEF WorkInv
  <2>2. CASE q = r
    <3>1. work'[q] = w /\ interactions'[q] = interactions[r]
      BY <1>0, <1>8, <2>2
    <3>2. LogFits(w, interactions[r])
      BY <1>0, <1>7 DEF LogFits
    <3> QED
      BY <1>7, <3>1, <3>2 DEF RequestSound, SeenFits
  <2>3. CASE q # r
    <3>1. work'[q] = work[q] /\ interactions'[q] = interactions[q]
      BY <1>0, <1>8, <2>3
    <3>2. ASSUME NEW k \in DOMAIN analyses' PROVE SeenFits(work[q], analyses'[k])
      <4>1. CASE analyses'[k] = new
        BY <1>0, <1>2, <2>1, <4>1 DEF RequestSound, SeenFits
      <4>2. CASE k + shift \in DOMAIN analyses /\ analyses'[k] = analyses[k + shift]
        BY <2>1, <4>2 DEF RequestSound
      <4> QED
        BY <1>5, <4>1, <4>2
    <3> QED
      BY <1>9, <2>1, <3>1, <3>2 DEF RequestSound, SeenFits
  <2> QED
    BY <2>2, <2>3
<1>15. DOMAIN work' = Requests
  BY <1>7 DEF WorkInv
<1>16. WorkInv'
  BY <1>0, <1>10, <1>13, <1>14, <1>15 DEF WorkInv, ProgressSound, IsSequence
<1>17. FindingsKept
  <2>1. ASSUME NEW k \in DOMAIN analyses'
        PROVE  \/ \E i \in DOMAIN analyses : analyses'[k] = analyses[i]
               \/ \A i \in DOMAIN analyses : analyses[i].id # analyses'[k].id
    BY <1>0, <1>2, <1>3, <1>5
  <2> QED
    BY <2>1, FindingsFollow
<1> QED
  BY <1>10, <1>16, <1>17

LEMMA DecideKeeps ==
  ASSUME WorkInv, NEW r \in Requests, Decide(r)
  PROVE  WorkInv' /\ FindingsKept /\ ProgressKept
<1>0. /\ work[r].stage = "decide" /\ RequestSound(r)
      /\ UNCHANGED <<documents, interactions>>
  BY DEF Decide, Doing, WorkInv
<1>1. interactions[r] = "none"
  BY <1>0 DEF RequestSound, LogFits
<1>2. CASE UNCHANGED analyses /\ Ends(r, "refused")
  <2>1. PICK w : w = [NoWork EXCEPT !.stage = "refused"]
    OBVIOUS
  <2>2. work' = [work EXCEPT ![r] = w] /\ DOMAIN w = WorkFields /\ w.stage = "refused"
    BY <1>2, <2>1, Ended DEF Ends
  <2>3. LogFits(w, interactions[r])
    BY <1>1, <2>2 DEF LogFits
  <2>4. WorkInv'
    BY <1>0, <1>2, <2>2, <2>3, SilentWork
  <2> QED
    BY <1>0, <1>2, <2>4, NothingEdited
<1>3. ASSUME NEW i \in DOMAIN analyses, Unchanged(analyses[i], r),
             analyses' = [analyses EXCEPT ![i].review = Reviewed(work[r].seen, r)],
             Ends(r, "saved")
      PROVE  WorkInv' /\ FindingsKept /\ ProgressKept
  <2>1. PICK a : a = [analyses[i] EXCEPT !.review = Reviewed(work[r].seen, r)]
    OBVIOUS
  <2>2. /\ IsSequence(analyses) /\ AnalysisSound(analyses[i])
        /\ \A j \in DOMAIN analyses : AnalysisSound(analyses[j])
        /\ \A j, k \in DOMAIN analyses : analyses[j].id = analyses[k].id => j = k
    BY DEF WorkInv, AnalysesSound
  <2>3. work[r].seen = analyses[i].review /\ analyses[i].review.version \in Nat
    BY <1>0, <1>3, <2>2 DEF Unchanged, RequestSound, SeenFits, AnalysisSound
  <2>4. /\ DOMAIN a = {"id", "kind", "requires", "traced", "findings", "review"}
        /\ a.id = analyses[i].id /\ a.requires = analyses[i].requires
        /\ a.traced = analyses[i].traced /\ a.review = Reviewed(analyses[i].review, r)
    BY <2>1, <2>2, <2>3 DEF AnalysisSound
  <2>5. a.review.version = analyses[i].review.version + 1
    BY <2>4 DEF Reviewed
  <2>6. /\ DOMAIN analyses' = DOMAIN analyses
        /\ \A k \in DOMAIN analyses : analyses'[k] = IF k = i THEN a ELSE analyses[k]
    BY <1>3, <2>1
  <2>7. IsSequence(analyses')
    <3>1. Len(analyses) \in Nat /\ DOMAIN analyses = 1..Len(analyses)
      BY <2>2, SequenceIs
    <3>2. analyses' \in [1..Len(analyses) -> {analyses'[k] : k \in DOMAIN analyses}]
      BY <1>3, <3>1
    <3> QED
      BY <3>1, <3>2, SequenceOf
  <2>8. PICK w : w = [NoWork EXCEPT !.stage = "saved"]
    OBVIOUS
  <2>9. work' = [work EXCEPT ![r] = w] /\ DOMAIN w = WorkFields /\ w.stage = "saved"
    BY <1>3, <2>8, Ended DEF Ends
  <2>10. \A q \in Requests : work'[q] = IF q = r THEN w ELSE work[q]
    BY <2>9 DEF WorkInv
  <2>11. \A id : Over(id) => Over(id)'
    BY <2>9, <2>10 DEF Over
  <2>12. ASSUME NEW k \in DOMAIN analyses' PROVE AnalysisSound(analyses[k])'
    <3>1. CASE k = i
      <4>1. a.review.version \in Nat /\ analyses'[k] = a
        BY <2>3, <2>5, <2>6, <3>1
      <4> QED
        BY <1>0, <2>2, <2>4, <2>11, <4>1 DEF AnalysisSound, Uploaded
    <3>2. CASE k # i
      BY <1>0, <2>2, <2>6, <2>11, <3>2 DEF AnalysisSound, Uploaded
    <3> QED
      BY <3>1, <3>2
  <2>13. AnalysesSound'
    BY <2>2, <2>4, <2>6, <2>7, <2>12 DEF AnalysesSound, IsSequence
  <2>14. ASSUME NEW q \in Requests PROVE RequestSound(q)'
    <3>1. RequestSound(q)
      BY DEF WorkInv
    <3>2. CASE q = r
      <4>1. work'[q] = w /\ LogFits(w, interactions[q])
        BY <1>1, <2>9, <2>10, <3>2 DEF LogFits
      <4> QED
        BY <1>0, <2>9, <4>1 DEF RequestSound, SeenFits
    <3>3. CASE q # r
      <4>1. work'[q] = work[q]
        BY <2>10, <3>3
      <4>2. ASSUME NEW k \in DOMAIN analyses PROVE SeenFits(work[q], analyses'[k])
        <5>1. SeenFits(work[q], analyses[k])
          BY <3>1 DEF RequestSound
        <5>2. CASE k = i
          <6>1. SUFFICES ASSUME work[q].stage = "decide", analyses[i].id = work[q].about
                         PROVE  SeenFits(work[q], a)
            BY <2>4, <2>6, <5>2 DEF SeenFits
          <6>2. work[q].seen.version \in Nat /\ work[q].seen.version <= analyses[i].review.version
            BY <3>1, <5>1, <5>2, <6>1 DEF RequestSound, SeenFits
          <6> QED
            BY <2>3, <2>5, <6>2 DEF SeenFits
        <5>3. CASE k # i
          BY <2>6, <5>1, <5>3
        <5> QED
          BY <5>2, <5>3
      <4> QED
        BY <1>0, <2>6, <2>11, <3>1, <4>1, <4>2 DEF RequestSound, SeenFits
    <3> QED
      BY <3>2, <3>3
  <2>15. WorkInv'
    <3>1. \A d \in Uploaded' : ProgressSound(documents[d])'
      BY <1>0 DEF WorkInv, Uploaded, ProgressSound, IsSequence
    <3>2. /\ DOMAIN work' = Requests /\ DOMAIN interactions' = Requests \union {Earlier}
          /\ interactions'[Earlier] = "ok"
      BY <1>0, <2>9 DEF WorkInv
    <3> QED
      BY <2>13, <2>14, <3>1, <3>2 DEF WorkInv
  <2>16. FindingsKept
    BY <2>2, <2>4, <2>6 DEF FindingsKept
  <2> QED
    BY <1>0, <2>15, <2>16, ProgressFollows
<1> QED
  BY <1>2, <1>3 DEF Decide

-----------------------------------------------------------------------------
LEMMA WorkStep ==
  WorkInv /\ [WorkspacesNext]_workspaceVars => WorkInv' /\ FindingsKept /\ ProgressKept
<1> SUFFICES ASSUME WorkInv, [WorkspacesNext]_workspaceVars
             PROVE  WorkInv' /\ FindingsKept /\ ProgressKept
  OBVIOUS
<1>1. CASE UNCHANGED workspaceVars
  <2>1. UNCHANGED <<work, interactions, analyses, documents>>
    BY <1>1 DEF workspaceVars
  <2>2. WorkInv'
    <3>1. IsSequence(analyses') /\ \A i \in DOMAIN analyses : AnalysisSound(analyses[i])
      BY <2>1 DEF WorkInv, AnalysesSound
    <3>2. \A k, l \in DOMAIN analyses' : analyses'[k].id = analyses'[l].id => k = l
      BY <2>1 DEF WorkInv, AnalysesSound
    <3>3. Uploaded' = Uploaded
      BY <2>1 DEF Uploaded
    <3> QED
      BY <2>1, <3>1, <3>2, <3>3, ContentStep DEF AnalysisSound
  <2> QED
    BY <2>1, <2>2, NothingEdited
<1>2. ASSUME NEW r \in Requests, NEW by, BeginAnalysis(r, by) \/ Edit(r, by)
      PROVE  WorkInv' /\ FindingsKept /\ ProgressKept
  <2>1. WorkInv'
    BY <1>2, AnalysisBegins, EditBegins
  <2>2. UNCHANGED <<analyses, documents>>
    BY <1>2 DEF BeginAnalysis, Edit, BeginUpload, BeginClausePin, BeginContextPin, BeginSourcePin,
       BeginPin, BeginEvidenceReview, BeginFindingReview, Begin, content
  <2> QED
    BY <2>1, <2>2, NothingEdited
<1>3. ASSUME NEW r \in Requests,
             Generate(r) \/ Log(r) \/ Refuse(r) \/ Correct(r) \/ Extract(r) \/ Pin(r) \/ Mark(r)
      PROVE  WorkInv' /\ FindingsKept /\ ProgressKept
  <2>1. WorkInv'
    BY <1>3, WorkOnly
  <2>2. UNCHANGED <<analyses, documents>>
    BY <1>3 DEF Generate, Log, Refuse, Correct, Extract, Pin, Mark, content
  <2> QED
    BY <2>1, <2>2, NothingEdited
<1> QED
  BY <1>1, <1>2, <1>3, SaveKeeps, DecideKeeps, StoreKeeps, OwnersKeep DEF WorkspacesNext, Work

\* No analysis of research_database.py is there without the documents it required.
THEOREM AnalysesDepend == WorkspacesSpec => []AnalysesHaveDocuments
<1>1. WorkInv => AnalysesHaveDocuments
  BY DEF WorkInv, AnalysesSound, AnalysisSound, AnalysesHaveDocuments
<1> QED
  BY <1>1, InitWork, WorkStep, PTL DEF WorkspacesSpec

\* The interaction log of a request and the workspace agree on what became of it.
THEOREM LogsTell == WorkspacesSpec => []LogTellsSave
<1>1. WorkInv => LogTellsSave
  BY DEF WorkInv, RequestSound, LogFits, AnalysesSound, AnalysisSound, LogTellsSave
<1> QED
  BY <1>1, InitWork, WorkStep, PTL DEF WorkspacesSpec

\* No decision on a finding loses those before it, and no batch of a full review the
\* batches completed before.
THEOREM EditsStay == WorkspacesSpec => EditsKept
<1>1. WorkInv /\ [WorkspacesNext]_workspaceVars => [FindingsKept /\ ProgressKept]_workspaceVars
  BY WorkStep
<1> QED
  BY <1>1, InitWork, WorkStep, PTL DEF WorkspacesSpec, EditsKept

-----------------------------------------------------------------------------
(* LegalRegistry                                                           *)

LEMMA LeastDay ==
  ASSUME NEW days \in SUBSET Nat, days # {}
  PROVE  \E least \in days : \A d \in days : least <= d
<1> DEFINE segments == {0..d : d \in days}
<1>1. segments \subseteq FiniteSubsetsOf(Nat) /\ segments # {}
  <2>1. ASSUME NEW d \in days PROVE 0..d \in FiniteSubsetsOf(Nat)
    BY FS_Interval DEF FiniteSubsetsOf
  <2> QED
    BY <2>1
<1>2. \E x \in segments : \A y \in segments : ~ <<y, x>> \in StrictSubsetOrdering(Nat)
  <2> HIDE DEF segments
  <2> QED
    BY <1>1, FS_StrictSubsetOrderingWellFounded, WFMin
<1>3. PICK least \in days : \A d \in days : ~ <<0..d, 0..least>> \in StrictSubsetOrdering(Nat)
  BY <1>2
<1>4. ASSUME NEW d \in days PROVE least <= d
  <2>1. SUFFICES ASSUME d < least PROVE FALSE
    OBVIOUS
  <2>2. 0..d \subseteq 0..least /\ least \in 0..least /\ least \notin 0..d
    BY <2>1
  <2>3. <<0..d, 0..least>> \in StrictSubsetOrdering(Nat)
    BY <2>2 DEF StrictSubsetOrdering
  <2> QED
    BY <1>3, <2>3
<1> QED
  BY <1>4

\* The last of days that have come is the one from which the fewest are left.
LEMMA LastDay ==
  ASSUME NEW day \in Nat, NEW days \in SUBSET Nat, days # {}, \A d \in days : d <= day
  PROVE  \E last \in days : \A d \in days : d <= last
<1> DEFINE left == {day - d : d \in days}
<1>1. left \in SUBSET Nat /\ left # {}
  <2>1. \A d \in days : day - d \in Nat
    OBVIOUS
  <2> QED
    BY <2>1
<1>2. PICK least \in left : \A x \in left : least <= x
  <2> HIDE DEF left
  <2> QED
    BY <1>1, LeastDay
<1>3. PICK last \in days : least = day - last
  OBVIOUS
<1>4. ASSUME NEW d \in days PROVE d <= last
  <2>1. day - last <= day - d
    BY <1>2, <1>3
  <2> QED
    BY <2>1
<1> QED
  BY <1>4

LEMMA MinOfDays ==
  ASSUME NEW days \in SUBSET Nat, days # {}
  PROVE  SetExt!Min(days) \in days /\ \A d \in days : SetExt!Min(days) <= d
BY LeastDay DEF SetExt!Min

LEMMA MaxOfDays ==
  ASSUME NEW day \in Nat, NEW days \in SUBSET Nat, days # {}, \A d \in days : d <= day
  PROVE  SetExt!Max(days) \in days /\ \A d \in days : d <= SetExt!Max(days)
BY LastDay DEF SetExt!Max

-----------------------------------------------------------------------------
EventsAsserted == reviewed \in [Rulings -> Events]

\* What EffectStatus found in force or ended is its last status event, of a date on
\* which all status events are of one kind.
LEMMA LastStatus ==
  ASSUME EventsAsserted, NEW day \in Days, EffectStatus(day) # "unknown"
  PROVE  /\ LastOf(StatusEvents(day)) \in StatusEvents(day)
         /\ \A e \in StatusEvents(day) :
              /\ e.date <= LastOf(StatusEvents(day)).date
              /\ e.date = LastOf(StatusEvents(day)).date => e.kind = LastOf(StatusEvents(day)).kind
<1> DEFINE status == StatusEvents(day)
           dates == {e.date : e \in status}
<1>1. /\ status # {} /\ \A x, y \in status : x.date = y.date => x.kind = y.kind
  BY DEF EffectStatus
<1>2. \A e \in status : e \in Events /\ e.date <= day
  BY DEF StatusEvents, Own, Shown, EventsAsserted
<1>3. day \in Nat /\ dates \in SUBSET Nat /\ dates # {} /\ \A d \in dates : d <= day
  BY <1>1, <1>2, RegistryAssumption
<1>4. \E e \in status : \A x \in status : x.date <= e.date
  <2>1. PICK last \in dates : \A d \in dates : d <= last
    <3> HIDE DEF dates
    <3> QED
      BY <1>3, LastDay
  <2> QED
    BY <2>1
<1>5. LastOf(status) \in status /\ \A x \in status : x.date <= LastOf(status).date
  BY <1>4 DEF LastOf
<1> QED
  BY <1>1, <1>5

\* The starts that have come are status events: none is after the last of these.
LEMMA StartOf ==
  ASSUME EventsAsserted, NEW day \in Days, NEW d \in StartDates, d <= day
  PROVE  /\ \E e \in StatusEvents(day) : e.date = d /\ e.kind = "effective"
         /\ \E from \in StartDates : /\ EffectiveFrom(day) = {from} /\ from <= day /\ d <= from
<1> DEFINE past == {x \in StartDates : x <= day}
<1>1. PICK e \in Own : e.date = d /\ e.kind = "effective"
  BY DEF StartDates
<1>2. e \in StatusEvents(day)
  BY <1>1 DEF StatusEvents
<1>3. StartDates \in SUBSET Nat
  BY RegistryAssumption DEF StartDates, Own, Shown, EventsAsserted
<1>4. day \in Nat /\ past \in SUBSET Nat /\ past # {} /\ d \in past /\ \A x \in past : x <= day
  BY <1>3, RegistryAssumption
<1>5. SetExt!Max(past) \in past /\ d <= SetExt!Max(past)
  <2> HIDE DEF past
  <2> QED
    BY <1>4, MaxOfDays
<1>6. EffectiveFrom(day) = {SetExt!Max(past)}
  BY <1>4 DEF EffectiveFrom
<1> QED
  BY <1>1, <1>2, <1>5, <1>6

\* The first end that is not before the start.
LEMMA EndOf ==
  ASSUME EventsAsserted, NEW day, NEW from, EffectiveFrom(day) = {from}, NEW to \in EffectiveTo(day)
  PROVE  /\ \E e \in Own : e.kind \in Terminations /\ e.date = to /\ from <= to
         /\ \A e \in Own : e.kind \in Terminations /\ from <= e.date => to <= e.date
<1> DEFINE ending == {x \in Own : /\ x.kind \in Terminations
                                 /\ \A d \in EffectiveFrom(day) : x.date >= d}
           ends == {e.date : e \in ending}
<1>1. ends # {} /\ to = SetExt!Min(ends)
  BY DEF EffectiveTo
<1>2. ends \in SUBSET Nat
  BY RegistryAssumption DEF Own, Shown, EventsAsserted
<1>3. to \in ends /\ \A d \in ends : to <= d
  <2> HIDE DEF ends
  <2> QED
    BY <1>1, <1>2, MinOfDays
<1>4. PICK e \in ending : e.date = to
  BY <1>3
<1>5. e \in Own /\ e.kind \in Terminations /\ e.date >= from /\ e.date \in Nat
  BY <1>2, <1>4
<1>6. from <= to
  BY <1>4, <1>5
<1>7. ASSUME NEW x \in Own, x.kind \in Terminations, from <= x.date PROVE to <= x.date
  <2>1. x \in ending
    BY <1>7
  <2> QED
    BY <1>3, <2>1
<1> QED
  BY <1>4, <1>5, <1>6, <1>7

\* A document in force has started and not ended.
LEMMA InForce ==
  ASSUME EventsAsserted, NEW day \in Days,
         EffectStatus(day) \in {"effective", "amended", "partially_effective"}
  PROVE  /\ \E d \in EffectiveFrom(day) : d <= day
         /\ \A d \in EffectiveTo(day) : d > day
<1> DEFINE latest == LastOf(StatusEvents(day))
<1>1. /\ latest \in StatusEvents(day)
      /\ \A e \in StatusEvents(day) :
           e.date <= latest.date /\ (e.date = latest.date => e.kind = latest.kind)
  BY LastStatus
<1>2. latest.kind \notin Terminations
  BY DEF EffectStatus, Terminations
<1>3. latest \in Own /\ latest \in Events /\ latest.kind # "amend" /\ latest.date <= day
  BY <1>1 DEF StatusEvents, Own, Shown, EventsAsserted
<1>4. latest.kind = "effective" /\ latest.date \in Nat /\ day \in Nat
  BY <1>2, <1>3, RegistryAssumption DEF Terminations
<1>5. latest.date \in StartDates
  BY <1>3, <1>4 DEF StartDates
<1>6. PICK from \in StartDates : /\ EffectiveFrom(day) = {from} /\ from <= day
                                 /\ latest.date <= from
  BY <1>3, <1>5, StartOf
<1>7. PICK start \in StatusEvents(day) : start.date = from
  BY <1>6, StartOf
<1>8. from = latest.date
  BY <1>1, <1>4, <1>6, <1>7, RegistryAssumption DEF StatusEvents, Own, Shown, EventsAsserted
<1>9. ASSUME NEW to \in EffectiveTo(day) PROVE to > day
  <2>1. PICK e \in Own : e.kind \in Terminations /\ e.date = to /\ from <= to
    BY <1>6, EndOf
  <2>2. e.date \in Nat
    BY RegistryAssumption DEF Own, Shown, EventsAsserted
  <2>3. SUFFICES ASSUME to <= day PROVE FALSE
    BY <1>4, <2>1, <2>2
  <2>4. e \in StatusEvents(day)
    BY <2>1, <2>3 DEF StatusEvents, Terminations
  <2>5. e.date = latest.date
    BY <1>1, <1>4, <1>8, <2>1, <2>2, <2>4
  <2> QED
    BY <1>1, <1>2, <2>1, <2>4, <2>5
<1> QED
  BY <1>6, <1>9

\* A document that had started and was repealed or replaced has ended.
LEMMA NoLonger ==
  ASSUME EventsAsserted, NEW day \in Days, EffectStatus(day) \in {"repealed", "replaced"},
         \E d \in EffectiveFrom(day) : d <= day
  PROVE  \E d \in EffectiveTo(day) : d <= day
<1> DEFINE latest == LastOf(StatusEvents(day))
           ending == {x \in Own : /\ x.kind \in Terminations
                                  /\ \A d \in EffectiveFrom(day) : x.date >= d}
           ends == {e.date : e \in ending}
<1>0. StartDates \in SUBSET Nat /\ day \in Nat /\ \A e \in Own : e.date \in Nat
  BY RegistryAssumption DEF StartDates, Own, Shown, EventsAsserted
<1>1. /\ latest \in StatusEvents(day)
      /\ \A e \in StatusEvents(day) : e.date <= latest.date
  BY LastStatus
<1>2. latest.kind \in Terminations
  BY DEF EffectStatus, Terminations
<1>3. latest \in Own /\ latest.date <= day /\ latest.date \in Nat
  BY <1>0, <1>1 DEF StatusEvents
<1>4. \E d \in StartDates : d <= day
  <2>1. SUFFICES ASSUME {d \in StartDates : d <= day} = {} PROVE FALSE
    OBVIOUS
  <2>2. StartDates # {} /\ EffectiveFrom(day) = {SetExt!Min(StartDates)}
    BY <2>1 DEF EffectiveFrom
  <2>3. SetExt!Min(StartDates) \in StartDates
    BY <1>0, <2>2, MinOfDays
  <2> QED
    BY <2>1, <2>2, <2>3
<1>5. PICK from \in StartDates : EffectiveFrom(day) = {from} /\ from <= day
  BY <1>4, StartOf
<1>6. PICK start \in StatusEvents(day) : start.date = from
  BY <1>5, StartOf
<1>7. latest.date >= from
  BY <1>0, <1>1, <1>3, <1>6
<1>8. latest \in ending
  BY <1>2, <1>3, <1>5, <1>7
<1>9. ends # {} /\ latest.date \in ends /\ ends \in SUBSET Nat
  BY <1>0, <1>8
<1>10. EffectiveTo(day) = {SetExt!Min(ends)}
  BY <1>9 DEF EffectiveTo
<1>11. SetExt!Min(ends) \in Nat /\ SetExt!Min(ends) <= latest.date
  <2> HIDE DEF ends, latest
  <2> QED
    BY <1>9, MinOfDays
<1>12. SetExt!Min(ends) <= day
  <2> HIDE DEF ends, latest
  <2> QED
    BY <1>0, <1>3, <1>11
<1> QED
  BY <1>10, <1>12

\* A withdrawal is never taken back.
WithdrawalsStay ==
  \A v \in Rulings : /\ DOMAIN registry[v] = {"state", "withdrawal"}
                     /\ registry[v].withdrawal => registry[v].state = "withdrawn"

LEMMA InitRegistry == RegistryInit => EventsAsserted /\ DOMAIN registry = Rulings /\ WithdrawalsStay
BY DEF RegistryInit, EventsAsserted, WithdrawalsStay, NotPublished

LEMMA RegistryStep ==
  /\ EventsAsserted /\ DOMAIN registry = Rulings /\ WithdrawalsStay /\ [RegistryNext]_registryVars
  => (EventsAsserted /\ DOMAIN registry = Rulings /\ WithdrawalsStay)'
<1> SUFFICES ASSUME EventsAsserted, DOMAIN registry = Rulings, WithdrawalsStay,
                    [RegistryNext]_registryVars
             PROVE  (EventsAsserted /\ DOMAIN registry = Rulings /\ WithdrawalsStay)'
  OBVIOUS
<1>1. CASE UNCHANGED registryVars
  BY <1>1 DEF registryVars, EventsAsserted, WithdrawalsStay
<1>2. ASSUME NEW v \in Rulings, PublishReview(v)
      PROVE  (EventsAsserted /\ DOMAIN registry = Rulings /\ WithdrawalsStay)'
  <2>1. PICK row : row = [NotPublished EXCEPT !.state = "published"]
    OBVIOUS
  <2>2. DOMAIN row = {"state", "withdrawal"} /\ row.withdrawal = FALSE
    BY <2>1 DEF NotPublished
  <2>3. /\ DOMAIN registry' = Rulings
        /\ \A w \in Rulings : registry'[w] = registry[w] \/ registry'[w] = row
    <3>1. CASE registry[v] = NotPublished
      BY <1>2, <2>1, <3>1 DEF PublishReview
    <3>2. CASE registry[v] # NotPublished
      BY <1>2, <3>2 DEF PublishReview
    <3> QED
      BY <3>1, <3>2
  <2>4. UNCHANGED reviewed
    BY <1>2 DEF PublishReview
  <2> QED
    BY <2>2, <2>3, <2>4 DEF EventsAsserted, WithdrawalsStay
<1>3. ASSUME NEW v \in Rulings, WithdrawReview(v)
      PROVE  (EventsAsserted /\ DOMAIN registry = Rulings /\ WithdrawalsStay)'
  BY <1>3 DEF WithdrawReview, EventsAsserted, WithdrawalsStay
<1> QED
  BY <1>1, <1>2, <1>3 DEF RegistryNext

\* The status and the interval that registry_view shows agree on every day, for all
\* events and every order of publications and withdrawals.
THEOREM ViewsAgree == RegistrySpec => []ViewAgrees
<1>1. EventsAsserted /\ WithdrawalsStay => ViewAgrees
  BY InForce, NoLonger DEF ViewAgrees, WithdrawalsStay
<1> QED
  BY <1>1, InitRegistry, RegistryStep, PTL DEF RegistrySpec
===============================================================================
