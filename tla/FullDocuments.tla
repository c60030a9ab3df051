---------------------------- MODULE FullDocuments ----------------------------
(***************************************************************************)
(* The full texts of documents and the search of phrases in them:          *)
(* run_supabase_full_doc_upload.py copies the local content store to the   *)
(* Supabase table (app/ingestion/supabase_full_doc.py),                    *)
(* scripts/build_qdrant_full_doc_index.py copies the table to a Qdrant     *)
(* collection and verifies it, and QdrantFullDocBodySearch finds phrases   *)
(* in the collection and shows the documents of the table.                 *)
(*                                                                         *)
(* A text is the set of phrases it holds and stands for its SHA-256 too.   *)
(* Every request to a service is a step; a failed one may have been        *)
(* applied.  Both commands resume from a file, after the last id they      *)
(* copied, whatever became of the source since.  No row and no point is    *)
(* ever deleted.                                                           *)
(***************************************************************************)
EXTENDS Integers, FiniteSets

CONSTANTS Copiers,            \* operators, one command each at a time
          Editions, StoreOf,  \* edition of the content store -> id -> [text, type]
          Picks, Everything,  \* lists of ids a command may be given; none given
          MaxUpload,          \* --max-documents
          UploadRows, PageRows,   \* --batch-size; rows of a page, 100
          Phrases,
          MaxCopies           \* bound: commands, rebuilds and removals

ASSUME DocumentsAssumption ==
  /\ \A e \in Editions : IsFiniteSet(DOMAIN StoreOf[e]) /\ DOMAIN StoreOf[e] \subseteq Nat \ {0}
  /\ \A picked \in Picks : /\ picked \subseteq Nat \ {0} /\ IsFiniteSet(picked)
                          /\ Cardinality(picked) <= MaxUpload
  /\ Everything \notin Picks
  /\ {MaxUpload, UploadRows, PageRows} \subseteq Nat \ {0} /\ MaxCopies \in Nat

VARIABLES
  store,          \* the edition the content store holds
  table,          \* legal_documents: id -> row
  uploaded,       \* checkpoint of the upload: [last, picked]
  completed,      \* what uploads that ended well were asked to copy
  points,         \* the collection: id -> payload
  indexed,        \* checkpoint of the build: [last, count]
  copy,           \* the command of each operator
  verified,       \* a verification passed, and the texts of the table are those it read
  phraseSearch,
  copies

documentVars == <<store, table, uploaded, completed, points, indexed, copy, verified,
                  phraseSearch, copies>>

\* steady: no text of the table changed since the verification began, and no
\* build was about to write another text.
NoCopy == [at |-> "idle", picked |-> Everything, last |-> 0, count |-> 0, expected |-> 0,
           rows |-> << >>, upto |-> 0, steady |-> FALSE]
NoUpload == [last |-> 0, picked |-> {}]
\* verified: the texts of the table are those that were verified when it began.
NoSearch == [at |-> "idle", phrase |-> "", type |-> "", verified |-> FALSE, rows |-> << >>]

\* load_checkpoint and _load_checkpoint of files that do not exist: {} is no list.
DocumentsInit ==
  /\ store \in Editions
  /\ table = << >> /\ points = << >>
  /\ uploaded = NoUpload /\ completed = {}
  /\ indexed = [last |-> 0, count |-> 0]
  /\ copy = [o \in Copiers |-> NoCopy]
  /\ verified = FALSE /\ phraseSearch = NoSearch /\ copies = 0

\* The first `limit` of the ids after one: what a page by ascending id holds.
Page(ids, after, limit) ==
  LET rest == {d \in ids : d > after}
  IN  {d \in rest : Cardinality({e \in rest : e < d}) < limit}
\* The greatest of some ids, or 0.
LastIn(ids) == IF ids = {} THEN {0} ELSE {d \in ids : \A e \in ids : e <= d}
Texts(rows) == [d \in DOMAIN rows |-> rows[d].text]
\* An upsert replaces whole rows.
Merge(rows, into) ==
  [d \in DOMAIN rows \union DOMAIN into |-> IF d \in DOMAIN rows THEN rows[d] ELSE into[d]]

Becomes(o, c) == copy' = [copy EXCEPT ![o] = c]
Spend == copies < MaxCopies /\ copies' = copies + 1

-----------------------------------------------------------------------------
(* The upload                                                              *)

\* mutant: the list that a checkpoint belongs to is not compared
SameList_Any(picked) == TRUE
\* The checkpoint of a list is no other list's; without a list it is not compared.
SameList(picked) == picked = Everything \/ uploaded = NoUpload \/ uploaded.picked = {picked}

StartUpload(o) == \E picked \in Picks \union {Everything} :
  /\ copy[o].at = "idle" /\ Spend /\ SameList(picked)
  /\ Becomes(o, [NoCopy EXCEPT !.at = "batch", !.picked = picked, !.last = uploaded.last])
  /\ UNCHANGED <<store, table, uploaded, completed, points, indexed, verified, phraseSearch>>

UploadIds(o) ==
  Page(IF copy[o].picked = Everything THEN DOMAIN StoreOf[store] ELSE copy[o].picked,
       copy[o].last,
       IF UploadRows < MaxUpload - copy[o].count THEN UploadRows ELSE MaxUpload - copy[o].count)

\* Ids that the store does not hold are passed over.
ReadDocuments(o) ==
  /\ copy[o].at = "batch" /\ copy[o].count < MaxUpload /\ UploadIds(o) # {}
  /\ \E upto \in LastIn(UploadIds(o)) : Becomes(o, [copy[o] EXCEPT
       !.at = "send", !.upto = upto,
       !.rows = [d \in UploadIds(o) \intersect DOMAIN StoreOf[store] |-> StoreOf[store][d]]])
  /\ UNCHANGED <<store, table, uploaded, completed, points, indexed, verified, phraseSearch, copies>>

\* upsert_rows, with what becomes of the command; a changed text voids verifications.
UpsertRows(o, rows, next) ==
  /\ table' = Merge(rows, table)
  /\ LET same == Texts(table') = Texts(table)
     IN  /\ verified' = (verified /\ same)
         /\ phraseSearch' = [phraseSearch EXCEPT !.verified = @ /\ same]
         /\ copy' = [p \in Copiers |-> LET c == IF p = o THEN next ELSE copy[p]
                                       IN  [c EXCEPT !.steady = @ /\ same]]
  /\ UNCHANGED <<store, uploaded, completed, points, indexed, copies>>

SendDocuments(o) ==
  /\ copy[o].at = "send"
  /\ \/ UpsertRows(o, copy[o].rows, [copy[o] EXCEPT !.at = "save"])
     \/ UpsertRows(o, copy[o].rows, NoCopy)
     \/ UpsertRows(o, << >>, NoCopy)

SaveUpload(o) ==
  /\ copy[o].at = "save"
  /\ uploaded' = [last |-> copy[o].upto,
                  picked |-> IF copy[o].picked = Everything THEN {} ELSE {copy[o].picked}]
  /\ Becomes(o, [copy[o] EXCEPT !.at = "batch", !.last = copy[o].upto, !.rows = << >>,
                                !.count = @ + Cardinality(DOMAIN copy[o].rows)])
  /\ UNCHANGED <<store, table, completed, points, indexed, verified, phraseSearch, copies>>

EndUpload(o) ==
  /\ copy[o].at = "batch" /\ (copy[o].count >= MaxUpload \/ UploadIds(o) = {})
  /\ completed' = completed \union {copy[o].picked}
  /\ Becomes(o, NoCopy)
  /\ UNCHANGED <<store, table, uploaded, points, indexed, verified, phraseSearch, copies>>

-----------------------------------------------------------------------------
(* The build of the index, which goes on to verify it                      *)

StartIndex(o) ==
  /\ copy[o].at = "idle" /\ Spend /\ table # << >>
  /\ Becomes(o, [NoCopy EXCEPT !.at = "page", !.expected = Cardinality(DOMAIN table),
                               !.last = indexed.last, !.count = indexed.count])
  /\ UNCHANGED <<store, table, uploaded, completed, points, indexed, verified, phraseSearch>>

ReadPage(o) ==
  LET page == Page(DOMAIN table, copy[o].last, PageRows)
  IN  /\ copy[o].at = "page"
      /\ Becomes(o,
           IF page # {} THEN [copy[o] EXCEPT !.at = "put", !.rows = [d \in page |-> table[d]]]
           ELSE IF copy[o].count = copy[o].expected THEN [copy[o] EXCEPT !.at = "built"]
           ELSE NoCopy)         \* source_count_changed
      /\ UNCHANGED <<store, table, uploaded, completed, points, indexed, verified, phraseSearch, copies>>

\* _request gives up after four attempts, each of which may have been applied.
PutPage(o) ==
  /\ copy[o].at = "put"
  /\ \/ points' = Merge(copy[o].rows, points) /\ Becomes(o, [copy[o] EXCEPT !.at = "mark"])
     \/ points' \in {points, Merge(copy[o].rows, points)} /\ Becomes(o, NoCopy)
  /\ UNCHANGED <<store, table, uploaded, completed, indexed, verified, phraseSearch, copies>>

\* Then the command may stop: for the disk, and when there are too many rows.
SaveIndexed(o) == \E last \in LastIn(DOMAIN copy[o].rows) :
  LET count == copy[o].count + Cardinality(DOMAIN copy[o].rows)
      next == [copy[o] EXCEPT !.at = "page", !.last = last, !.count = count, !.rows = << >>]
  IN  /\ copy[o].at = "mark"
      /\ indexed' = [last |-> last, count |-> count]
      /\ \/ count <= copy[o].expected /\ Becomes(o, next)
         \/ count >= copy[o].expected /\ Becomes(o, NoCopy)
      /\ UNCHANGED <<store, table, uploaded, completed, points, verified, phraseSearch, copies>>

-----------------------------------------------------------------------------
(* The verification                                                        *)

\* After a build, or alone with --verify-only.
StartVerify(o) ==
  /\ \/ copy[o].at = "built" /\ copies' = copies
     \/ copy[o].at = "idle" /\ Spend
  /\ table # << >>
  /\ Becomes(o, [NoCopy EXCEPT
       !.at = "hashes", !.expected = Cardinality(DOMAIN table),
       !.steady = \A p \in Copiers \ {o} : copy[p].at = "put" =>
                    \A d \in DOMAIN copy[p].rows : copy[p].rows[d].text = table[d].text])
  /\ UNCHANGED <<store, table, uploaded, completed, points, indexed, verified, phraseSearch>>

ReadHashes(o) ==
  LET page == Page(DOMAIN table, copy[o].last, PageRows)
  IN  /\ copy[o].at = "hashes"
      /\ \E last \in LastIn(page) : Becomes(o,
           IF page # {}
           THEN [copy[o] EXCEPT !.rows = Merge([d \in page |-> table[d]], @),
                                !.last = last]
           ELSE IF Cardinality(DOMAIN copy[o].rows) = copy[o].expected
           THEN [copy[o] EXCEPT !.at = "scroll", !.last = 0]
           ELSE NoCopy)         \* source_count_changed
      /\ UNCHANGED <<store, table, uploaded, completed, points, indexed, verified, phraseSearch, copies>>

\* mutant: a point is looked up and its text is not compared
PointMatches_Known(o, d) == d \in DOMAIN copy[o].rows
\* Only texts are compared: the types of a point may be older.
PointMatches(o, d) == d \in DOMAIN copy[o].rows /\ points[d].text = copy[o].rows[d].text

\* The count is of the points seen; the last page has no offset of a next one.
ScrollPoints(o) ==
  LET page == Page(DOMAIN points, copy[o].last, PageRows)
      seen == copy[o].count + Cardinality(page)
  IN  /\ copy[o].at = "scroll"
      /\ \E last \in LastIn(page) : Becomes(o,
           IF \E d \in page : ~PointMatches(o, d) THEN NoCopy   \* destination_mismatch
           ELSE [copy[o] EXCEPT !.count = seen, !.last = last,
                   !.at = IF \E d \in DOMAIN points : d > last /\ page # {}
                          THEN "scroll" ELSE "compare"])
      /\ UNCHANGED <<store, table, uploaded, completed, points, indexed, verified, phraseSearch, copies>>

\* The points that were seen, points_count and those of the index of bodies.
EndVerify(o) ==
  LET whole == copy[o].count = copy[o].expected /\ Cardinality(DOMAIN points) = copy[o].expected
  IN  /\ copy[o].at = "compare"
      /\ verified' = (verified \/ (whole /\ copy[o].steady))
      /\ Becomes(o, NoCopy)
      /\ UNCHANGED <<store, table, uploaded, completed, points, indexed, phraseSearch, copies>>

-----------------------------------------------------------------------------
(* The search                                                              *)

\* coverage compares counts only, of the points and of the rows.
StartSearch == \E phrase \in Phrases, type \in {"", "law"} :
  /\ phraseSearch.at \in {"idle", "answered"}
  /\ table # << >> /\ Cardinality(DOMAIN points) = Cardinality(DOMAIN table)
  /\ phraseSearch' = [at |-> "found", phrase |-> phrase, type |-> type, verified |-> verified,
                      rows |-> << >>]
  /\ UNCHANGED <<store, table, uploaded, completed, points, indexed, copy, verified, copies>>

\* The conditions are matched by the payloads.
ScrollPhrase ==
  /\ phraseSearch.at = "found"
  /\ phraseSearch' = [phraseSearch EXCEPT !.at = "read", !.rows =
       [d \in {e \in DOMAIN points : /\ phraseSearch.phrase \in points[e].text
                                    /\ phraseSearch.type \in {"", points[e].type}} |-> points[d]]]
  /\ UNCHANGED <<store, table, uploaded, completed, points, indexed, copy, verified, copies>>

\* Rows that are missing or have another text make the search fail: body_index_stale.
ReadFound ==
  LET found == DOMAIN phraseSearch.rows
      current == /\ found \subseteq DOMAIN table
                 /\ \A d \in found : table[d].text = phraseSearch.rows[d].text
  IN  /\ phraseSearch.at = "read"
      /\ phraseSearch' = IF current
                         THEN [phraseSearch EXCEPT !.at = "answered", !.rows = [d \in found |-> table[d]]]
                         ELSE NoSearch
      /\ UNCHANGED <<store, table, uploaded, completed, points, indexed, copy, verified, copies>>

-----------------------------------------------------------------------------
(* What operators do besides                                               *)

\* build_content_store of another revision renames its file over the store.
RebuildStore ==
  /\ Spend /\ store' \in Editions \ {store}
  /\ UNCHANGED <<table, uploaded, completed, points, indexed, copy, verified, phraseSearch>>

\* A checkpoint is removed to copy everything again.
RemoveCheckpoint ==
  /\ Spend
  /\ \/ uploaded # NoUpload /\ uploaded' = NoUpload /\ UNCHANGED indexed
     \/ indexed.last # 0 /\ indexed' = [last |-> 0, count |-> 0] /\ UNCHANGED uploaded
  /\ UNCHANGED <<store, table, completed, points, copy, verified, phraseSearch>>

KillCopy(o) ==
  /\ copy[o].at # "idle" /\ Becomes(o, NoCopy)
  /\ UNCHANGED <<store, table, uploaded, completed, points, indexed, verified, phraseSearch, copies>>

DocumentsNext ==
  \/ StartSearch \/ ScrollPhrase \/ ReadFound \/ RebuildStore \/ RemoveCheckpoint
  \/ \E o \in Copiers :
       \/ StartUpload(o) \/ ReadDocuments(o) \/ SendDocuments(o) \/ SaveUpload(o) \/ EndUpload(o)
       \/ StartIndex(o) \/ ReadPage(o) \/ PutPage(o) \/ SaveIndexed(o)
       \/ StartVerify(o) \/ ReadHashes(o) \/ ScrollPoints(o) \/ EndVerify(o)
       \/ KillCopy(o)

DocumentsSpec == DocumentsInit /\ [][DocumentsNext]_documentVars

-----------------------------------------------------------------------------
(* Properties                                                              *)

\* An upload of a list that ends well has left every document of the list in
\* the table that the content store had in all its editions, however often it
\* was killed and resumed from the checkpoint, alone or beside another upload
\* (upload_full_documents).
ListUploaded ==
  \A picked \in completed \ {Everything} : \A d \in picked :
    (\A e \in Editions : d \in DOMAIN StoreOf[e]) => d \in DOMAIN table

\* What a search answers holds its phrase, and after a verification that passed
\* it is every document that does, as long as the texts of the table are those
\* verified: builds resume from the id they had reached in other texts, rows
\* arrive below that id, and two builds write side by side (build, verify of
\* build_qdrant_full_doc_index.py; QdrantFullDocBodySearch.search).
PhraseSearchExact ==
  phraseSearch.at = "answered" =>
    /\ \A d \in DOMAIN phraseSearch.rows : phraseSearch.phrase \in phraseSearch.rows[d].text
    /\ phraseSearch.type = "" /\ phraseSearch.verified =>
         DOMAIN phraseSearch.rows = {d \in DOMAIN table : phraseSearch.phrase \in table[d].text}
==============================================================================
