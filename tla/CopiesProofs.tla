----------------------------- MODULE CopiesProofs -----------------------------
(***************************************************************************)
(* That what is copied from the content store and from a corpus is whole   *)
(* when something says so: the lists of full documents in the table, the   *)
(* phrases found in the collection after a verification, the lexical index *)
(* that declares itself ready, and the namespace of a Pinecone pilot.      *)
(*                                                                         *)
(* All of them compare counts, and a count that is equal says little.  The *)
(* invariants relate each count to the records it was taken of: what was   *)
(* counted is there, it is of the records that are expected, and a subset  *)
(* that has as many elements as a finite set is that set.                  *)
(***************************************************************************)
EXTENDS FullDocuments, LexicalIndex, PineconePilot,
        FiniteSetTheorems, WellFoundedInduction, TLAPS

-----------------------------------------------------------------------------
(* Pages by ascending id                                                   *)

\* A set of numbers that is not empty has a least one: its initial segments are
\* finite sets, and strict inclusion of finite sets is well founded.
LEMMA LeastNumber ==
  ASSUME NEW ids \in SUBSET Nat, ids # {}
  PROVE  \E least \in ids : \A d \in ids : least <= d
<1> DEFINE segments == {0..d : d \in ids}
<1>1. segments \subseteq FiniteSubsetsOf(Nat) /\ segments # {}
  <2>1. ASSUME NEW d \in ids PROVE 0..d \in FiniteSubsetsOf(Nat)
    BY FS_Interval DEF FiniteSubsetsOf
  <2> QED
    BY <2>1
<1>2. \E x \in segments : \A y \in segments : ~ <<y, x>> \in StrictSubsetOrdering(Nat)
  <2> HIDE DEF segments
  <2> QED
    BY <1>1, FS_StrictSubsetOrderingWellFounded, WFMin
<1>3. PICK least \in ids : \A d \in ids : ~ <<0..d, 0..least>> \in StrictSubsetOrdering(Nat)
  BY <1>2
<1>4. ASSUME NEW d \in ids PROVE least <= d
  <2>1. SUFFICES ASSUME d < least PROVE FALSE
    OBVIOUS
  <2>2. 0..d \subseteq 0..least /\ least \in 0..least /\ least \notin 0..d
    BY <2>1
  <2>3. <<0..d, 0..least>> \in StrictSubsetOrdering(Nat)
    BY <2>2 DEF StrictSubsetOrdering
  <2> QED
    BY <1>3, <2>3
<1> QED
  BY <1>4

\* A page is of the ids after one, in order, and is empty only when there are none.
LEMMA PageInOrder ==
  ASSUME NEW ids \in SUBSET Nat, IsFiniteSet(ids), NEW after \in Nat, NEW limit \in Nat
  PROVE  /\ Page(ids, after, limit) \subseteq {d \in ids : after < d}
         /\ IsFiniteSet(Page(ids, after, limit))
         /\ \A upto \in Page(ids, after, limit) : \A d \in ids :
              after < d /\ d <= upto => d \in Page(ids, after, limit)
         /\ limit # 0 /\ Page(ids, after, limit) = {} => \A d \in ids : d <= after
<1> DEFINE rest == {d \in ids : d > after}
           Below(d) == {e \in rest : e < d}
           page == Page(ids, after, limit)
<1>1. page = {d \in rest : Cardinality(Below(d)) < limit}
  BY DEF Page
<1>2. IsFiniteSet(rest) /\ \A d : IsFiniteSet(Below(d)) /\ Cardinality(Below(d)) \in Nat
  <2>1. IsFiniteSet(rest)
    BY FS_Subset
  <2>2. \A d : IsFiniteSet(Below(d))
    BY <2>1, FS_Subset
  <2> QED
    BY <2>1, <2>2, FS_CardinalityType
<1>3. page \subseteq rest /\ IsFiniteSet(page)
  BY <1>1, <1>2, FS_Subset
<1>4. ASSUME NEW upto \in page, NEW d \in ids, after < d, d <= upto PROVE d \in page
  <2>0. upto \in rest /\ upto \in Nat /\ d \in Nat
    <3> HIDE DEF page
    <3> QED
      BY <1>3
  <2>1. d \in rest /\ upto \in rest /\ Below(d) \subseteq Below(upto)
    <3>1. d \in rest /\ \A e \in Nat : e < d => e < upto
      BY <1>4, <2>0
    <3> QED
      BY <2>0, <3>1
  <2>2. Cardinality(Below(d)) <= Cardinality(Below(upto))
    <3> HIDE DEF Below
    <3> QED
      BY <1>2, <2>1, FS_Subset
  <2>3. Cardinality(Below(upto)) < limit
    BY <1>1
  <2>4. Cardinality(Below(d)) < limit
    <3> DEFINE x == Cardinality(Below(d))  y == Cardinality(Below(upto))
    <3>1. x \in Nat /\ y \in Nat
      BY <1>2
    <3>2. x <= y /\ y < limit
      BY <2>2, <2>3
    <3> HIDE DEF x, y
    <3>3. x < limit
      BY <3>1, <3>2
    <3> QED
      BY <3>3 DEF x
  <2> QED
    BY <1>1, <2>1, <2>4
<1>5. ASSUME limit # 0, page = {} PROVE rest = {}
  <2>1. SUFFICES ASSUME rest # {} PROVE FALSE
    OBVIOUS
  <2>2. PICK least \in rest : \A d \in rest : least <= d
    BY <2>1, LeastNumber
  <2>3. Below(least) = {}
    <3>1. least \in Nat /\ \A d \in rest : d \in Nat /\ ~ (d < least)
      BY <2>2
    <3> QED
      BY <3>1
  <2>4. Cardinality(Below(least)) = 0
    BY <2>3, FS_EmptySet
  <2> QED
    BY <1>1, <1>5, <2>2, <2>4
<1> QED
  BY <1>3, <1>4, <1>5

-----------------------------------------------------------------------------
(* Full documents: what the state is made of                               *)

CopyTyped(c) ==
  /\ DOMAIN c = {"at", "picked", "last", "count", "expected", "rows", "upto", "steady"}
  /\ c.picked \in Picks \union {Everything} /\ c.steady \in BOOLEAN
  /\ c.last \in Nat /\ c.count \in Nat /\ c.expected \in Nat /\ c.upto \in Nat
  /\ IsFiniteSet(DOMAIN c.rows) /\ DOMAIN c.rows \subseteq Nat

DocumentsTyped ==
  /\ store \in Editions
  /\ IsFiniteSet(DOMAIN table) /\ DOMAIN table \subseteq Nat
  /\ IsFiniteSet(DOMAIN points) /\ DOMAIN points \subseteq Nat
  /\ DOMAIN uploaded = {"last", "picked"} /\ uploaded.last \in Nat
  /\ indexed.last \in Nat /\ indexed.count \in Nat
  /\ DOMAIN copy = Copiers /\ \A o \in Copiers : CopyTyped(copy[o])
  /\ DOMAIN phraseSearch = {"at", "phrase", "type", "verified", "rows"}
  /\ verified \in BOOLEAN /\ phraseSearch.verified \in BOOLEAN

-----------------------------------------------------------------------------
LEMMA MergeRows ==
  ASSUME NEW rows, NEW into
  PROVE  /\ DOMAIN Merge(rows, into) = DOMAIN rows \union DOMAIN into
         /\ \A d \in DOMAIN rows : Merge(rows, into)[d] = rows[d]
         /\ \A d \in DOMAIN into \ DOMAIN rows : Merge(rows, into)[d] = into[d]
BY DEF Merge

LEMMA NoCopyTyped == CopyTyped(NoCopy)
<1>1. DOMAIN << >> = {} /\ IsFiniteSet({})
  BY FS_EmptySet
<1> QED
  BY <1>1 DEF CopyTyped, NoCopy

\* The ids an upload goes through are numbers, and so are those of a store.
LEMMA IdsAreNumbers ==
  /\ \A e \in Editions : IsFiniteSet(DOMAIN StoreOf[e]) /\ DOMAIN StoreOf[e] \subseteq Nat
  /\ \A picked \in Picks : picked \subseteq Nat /\ IsFiniteSet(picked)
BY DocumentsAssumption

LEMMA UploadIdsAreNumbers ==
  ASSUME DocumentsTyped, NEW o \in Copiers, copy[o].count < MaxUpload
  PROVE  /\ UploadIds(o) \subseteq Nat /\ IsFiniteSet(UploadIds(o))
         /\ \E limit \in Nat \ {0} : \E ids \in SUBSET Nat :
              /\ UploadIds(o) = Page(ids, copy[o].last, limit) /\ IsFiniteSet(ids)
              /\ copy[o].picked = Everything => ids = DOMAIN StoreOf[store]
              /\ copy[o].picked # Everything => ids = copy[o].picked
<1> DEFINE ids == IF copy[o].picked = Everything THEN DOMAIN StoreOf[store] ELSE copy[o].picked
           limit == IF UploadRows < MaxUpload - copy[o].count THEN UploadRows
                    ELSE MaxUpload - copy[o].count
<1>1. copy[o].last \in Nat /\ copy[o].count \in Nat /\ copy[o].picked \in Picks \union {Everything}
  BY DEF DocumentsTyped, CopyTyped
<1>2. ids \in SUBSET Nat /\ IsFiniteSet(ids)
  BY <1>1, IdsAreNumbers DEF DocumentsTyped
<1>3. limit \in Nat \ {0}
  BY <1>1, DocumentsAssumption
<1>4. UploadIds(o) = Page(ids, copy[o].last, limit)
  BY DEF UploadIds
<1>5. UploadIds(o) \subseteq Nat /\ IsFiniteSet(UploadIds(o))
  <2> HIDE DEF ids, limit
  <2> QED
    <3>1. copy[o].last \in Nat /\ limit \in Nat
      BY <1>1, <1>3
    <3>2. /\ Page(ids, copy[o].last, limit) \subseteq {d \in ids : copy[o].last < d}
          /\ IsFiniteSet(Page(ids, copy[o].last, limit))
      BY <1>2, <3>1, PageInOrder
    <3> QED
      BY <1>2, <1>4, <3>2
<1>6. /\ copy[o].picked = Everything => ids = DOMAIN StoreOf[store]
      /\ copy[o].picked # Everything => ids = copy[o].picked
  OBVIOUS
<1> QED
  <2> HIDE DEF ids, limit
  <2> QED
    BY <1>2, <1>3, <1>4, <1>5, <1>6

LEMMA LastIsNumber ==
  ASSUME NEW ids \in SUBSET Nat, NEW last \in LastIn(ids)
  PROVE  last \in Nat /\ \A d \in ids : d <= last
BY DEF LastIn

LEMMA InitTyped == DocumentsInit => DocumentsTyped
<1> SUFFICES ASSUME DocumentsInit PROVE DocumentsTyped
  OBVIOUS
<1>1. DOMAIN << >> = {} /\ IsFiniteSet({})
  BY FS_EmptySet
<1>2. \A o \in Copiers : CopyTyped(copy[o])
  BY NoCopyTyped DEF DocumentsInit
<1> QED
  BY <1>1, <1>2 DEF DocumentsInit, DocumentsTyped, NoUpload, NoSearch

\* A step of one command.
LEMMA OneCopy ==
  ASSUME DocumentsTyped, NEW o \in Copiers, NEW c, Becomes(o, c)
  PROVE  /\ DOMAIN copy' = Copiers /\ copy'[o] = c
         /\ \A p \in Copiers \ {o} : copy'[p] = copy[p]
         /\ CopyTyped(c) => \A p \in Copiers : CopyTyped(copy'[p])
<1>1. /\ DOMAIN copy' = Copiers /\ copy'[o] = c
      /\ \A p \in Copiers \ {o} : copy'[p] = copy[p]
  BY DEF DocumentsTyped, Becomes
<1>2. \A p \in Copiers : CopyTyped(copy[p])
  BY DEF DocumentsTyped
<1> QED
  BY <1>1, <1>2

LEMMA UpsertTyped ==
  ASSUME DocumentsTyped, NEW o \in Copiers, NEW rows, NEW next, UpsertRows(o, rows, next),
         CopyTyped(next), IsFiniteSet(DOMAIN rows), DOMAIN rows \subseteq Nat
  PROVE  /\ DocumentsTyped'
         /\ table' = Merge(rows, table)
         /\ DOMAIN table \subseteq DOMAIN table' /\ DOMAIN table' = DOMAIN rows \union DOMAIN table
         /\ \A p \in Copiers : LET c == IF p = o THEN next ELSE copy[p] IN
              /\ CopyTyped(c) /\ CopyTyped(copy'[p])
              /\ copy'[p].at = c.at /\ copy'[p].picked = c.picked /\ copy'[p].last = c.last
              /\ copy'[p].count = c.count /\ copy'[p].expected = c.expected
              /\ copy'[p].rows = c.rows /\ copy'[p].upto = c.upto
<1>1. /\ table' = Merge(rows, table)
      /\ store' = store /\ uploaded' = uploaded /\ points' = points /\ indexed' = indexed
      /\ completed' = completed
  BY DEF UpsertRows
<1>2. PICK same : same = (Texts(table') = Texts(table))
  OBVIOUS
<1>3. /\ same \in BOOLEAN
      /\ verified' = (verified /\ same)
      /\ phraseSearch' = [phraseSearch EXCEPT !.verified = @ /\ same]
      /\ copy' = [p \in Copiers |-> LET c == IF p = o THEN next ELSE copy[p]
                                    IN  [c EXCEPT !.steady = @ /\ same]]
  BY <1>2 DEF UpsertRows
<1>4. DOMAIN table' = DOMAIN rows \union DOMAIN table
  BY <1>1, MergeRows
<1>5. IsFiniteSet(DOMAIN table') /\ DOMAIN table' \subseteq Nat
  <2>1. IsFiniteSet(DOMAIN table) /\ DOMAIN table \subseteq Nat
    BY DEF DocumentsTyped
  <2>2. IsFiniteSet(DOMAIN rows \union DOMAIN table)
    BY <2>1, FS_Union
  <2> QED
    BY <1>4, <2>1, <2>2
<1>6. ASSUME NEW p \in Copiers, NEW c, c = IF p = o THEN next ELSE copy[p]
      PROVE  /\ CopyTyped(c) /\ CopyTyped(copy'[p])
             /\ copy'[p].at = c.at /\ copy'[p].picked = c.picked /\ copy'[p].last = c.last
             /\ copy'[p].count = c.count /\ copy'[p].expected = c.expected
             /\ copy'[p].rows = c.rows /\ copy'[p].upto = c.upto
  <2>1. CopyTyped(c)
    BY <1>6 DEF DocumentsTyped
  <2>2. copy'[p] = [c EXCEPT !.steady = c.steady /\ same]
    BY <1>3, <1>6
  <2>3. (c.steady /\ same) \in BOOLEAN
    BY <1>3, <2>1 DEF CopyTyped
  <2> QED
    BY <2>1, <2>2, <2>3 DEF CopyTyped
<1>7. DOMAIN copy' = Copiers
  BY <1>3
<1>8. /\ DOMAIN phraseSearch' = {"at", "phrase", "type", "verified", "rows"}
      /\ phraseSearch'.verified \in BOOLEAN /\ verified' \in BOOLEAN
  BY <1>3 DEF DocumentsTyped
<1>9. DocumentsTyped'
  BY <1>1, <1>5, <1>6, <1>7, <1>8 DEF DocumentsTyped
<1> QED
  BY <1>1, <1>4, <1>6, <1>9

LEMMA TypedStep == DocumentsTyped /\ [DocumentsNext]_documentVars => DocumentsTyped'
<1> SUFFICES ASSUME DocumentsTyped, [DocumentsNext]_documentVars PROVE DocumentsTyped'
  OBVIOUS
<1>0. /\ store \in Editions
      /\ IsFiniteSet(DOMAIN table) /\ DOMAIN table \subseteq Nat
      /\ IsFiniteSet(DOMAIN points) /\ DOMAIN points \subseteq Nat
      /\ DOMAIN uploaded = {"last", "picked"} /\ uploaded.last \in Nat
      /\ indexed.last \in Nat /\ indexed.count \in Nat
      /\ DOMAIN copy = Copiers /\ \A o \in Copiers : CopyTyped(copy[o])
      /\ DOMAIN phraseSearch = {"at", "phrase", "type", "verified", "rows"}
      /\ verified \in BOOLEAN /\ phraseSearch.verified \in BOOLEAN
  BY DEF DocumentsTyped
<1>1. CASE UNCHANGED documentVars
  BY <1>0, <1>1 DEF DocumentsTyped, documentVars
<1>2. CASE StartSearch
  <2>1. /\ DOMAIN phraseSearch' = {"at", "phrase", "type", "verified", "rows"}
        /\ phraseSearch'.verified \in BOOLEAN
    <3>1. PICK phrase \in Phrases, type \in {"", "law"} :
            phraseSearch' = [at |-> "found", phrase |-> phrase, type |-> type,
                             verified |-> verified, rows |-> << >>]
      BY <1>2 DEF StartSearch
    <3> QED
      BY <1>0, <3>1
  <2>2. UNCHANGED <<store, table, uploaded, points, indexed, copy, verified>>
    BY <1>2 DEF StartSearch
  <2> QED
    BY <1>0, <2>1, <2>2 DEF DocumentsTyped
<1>3. CASE ScrollPhrase
  BY <1>0, <1>3 DEF ScrollPhrase, DocumentsTyped
<1>4. CASE ReadFound
  BY <1>0, <1>4 DEF ReadFound, DocumentsTyped, NoSearch
<1>5. CASE RebuildStore
  BY <1>0, <1>5 DEF RebuildStore, DocumentsTyped
<1>6. CASE RemoveCheckpoint
  BY <1>0, <1>6 DEF RemoveCheckpoint, DocumentsTyped, NoUpload
<1>7. ASSUME NEW o \in Copiers, StartUpload(o) PROVE DocumentsTyped'
  <2>1. PICK picked \in Picks \union {Everything} :
          /\ Becomes(o, [NoCopy EXCEPT !.at = "batch", !.picked = picked, !.last = uploaded.last])
          /\ UNCHANGED <<store, table, uploaded, completed, points, indexed, verified, phraseSearch>>
    BY <1>7 DEF StartUpload
  <2>2. CopyTyped([NoCopy EXCEPT !.at = "batch", !.picked = picked, !.last = uploaded.last])
    BY <1>0, NoCopyTyped DEF CopyTyped
  <2> QED
    BY <1>0, <2>1, <2>2, OneCopy DEF DocumentsTyped
<1>8. ASSUME NEW o \in Copiers, ReadDocuments(o) PROVE DocumentsTyped'
  <2>1. UploadIds(o) \subseteq Nat /\ IsFiniteSet(UploadIds(o))
    BY <1>8, UploadIdsAreNumbers DEF ReadDocuments
  <2>2. PICK rows : rows = [d \in UploadIds(o) \intersect DOMAIN StoreOf[store] |-> StoreOf[store][d]]
    OBVIOUS
  <2>3. PICK upto \in LastIn(UploadIds(o)) :
          Becomes(o, [copy[o] EXCEPT !.at = "send", !.upto = upto, !.rows = rows])
    BY <1>8, <2>2 DEF ReadDocuments
  <2>4. upto \in Nat
    BY <2>1, LastIsNumber
  <2>5. IsFiniteSet(DOMAIN rows) /\ DOMAIN rows \subseteq Nat
    BY <2>1, <2>2, FS_Subset
  <2>6. CopyTyped([copy[o] EXCEPT !.at = "send", !.upto = upto, !.rows = rows])
    BY <1>0, <2>4, <2>5 DEF CopyTyped
  <2>7. UNCHANGED <<store, table, uploaded, completed, points, indexed, verified, phraseSearch, copies>>
    BY <1>8 DEF ReadDocuments
  <2> QED
    BY <1>0, <2>3, <2>6, <2>7, OneCopy DEF DocumentsTyped
<1>9. ASSUME NEW o \in Copiers, SendDocuments(o) PROVE DocumentsTyped'
  <2>1. CopyTyped([copy[o] EXCEPT !.at = "save"])
    BY <1>0 DEF CopyTyped
  <2>2. IsFiniteSet(DOMAIN copy[o].rows) /\ DOMAIN copy[o].rows \subseteq Nat
    BY <1>0 DEF CopyTyped
  <2>3. IsFiniteSet(DOMAIN << >>) /\ DOMAIN << >> \subseteq Nat
    BY FS_EmptySet
  <2> QED
    BY <1>9, <2>1, <2>2, <2>3, NoCopyTyped, UpsertTyped DEF SendDocuments
<1>10. ASSUME NEW o \in Copiers, SaveUpload(o) PROVE DocumentsTyped'
  <2>1. CopyTyped(copy[o]) /\ Cardinality(DOMAIN copy[o].rows) \in Nat
    BY <1>0, FS_CardinalityType DEF CopyTyped
  <2>2. PICK c : c = [copy[o] EXCEPT !.at = "batch", !.last = copy[o].upto, !.rows = << >>,
                                !.count = @ + Cardinality(DOMAIN copy[o].rows)]
    OBVIOUS
  <2>3. IsFiniteSet(DOMAIN << >>) /\ DOMAIN << >> \subseteq Nat
    BY FS_EmptySet
  <2>4. CopyTyped(c)
    BY <2>1, <2>2, <2>3 DEF CopyTyped
  <2>5. Becomes(o, c) /\ UNCHANGED <<store, table, points, indexed, verified, phraseSearch>>
    BY <1>10, <2>2 DEF SaveUpload
  <2>6. DOMAIN uploaded' = {"last", "picked"} /\ uploaded'.last \in Nat
    BY <1>10, <2>1 DEF SaveUpload, CopyTyped
  <2> QED
    BY <1>0, <2>4, <2>5, <2>6, OneCopy DEF DocumentsTyped
<1>11. ASSUME NEW o \in Copiers, EndUpload(o) PROVE DocumentsTyped'
  BY <1>0, <1>11, OneCopy, NoCopyTyped DEF EndUpload, DocumentsTyped
<1>12. ASSUME NEW o \in Copiers, StartIndex(o) PROVE DocumentsTyped'
  <2>1. Cardinality(DOMAIN table) \in Nat
    BY <1>0, FS_CardinalityType
  <2>2. PICK c : c = [NoCopy EXCEPT !.at = "page", !.expected = Cardinality(DOMAIN table),
                               !.last = indexed.last, !.count = indexed.count]
    OBVIOUS
  <2>3. CopyTyped(c)
    BY <1>0, <2>1, <2>2, NoCopyTyped DEF CopyTyped
  <2>4. Becomes(o, c) /\ UNCHANGED <<store, table, uploaded, points, indexed, verified, phraseSearch>>
    BY <1>12, <2>2 DEF StartIndex
  <2> QED
    BY <1>0, <2>3, <2>4, OneCopy DEF DocumentsTyped
<1>13. ASSUME NEW o \in Copiers, ReadPage(o) PROVE DocumentsTyped'
  <2>1. PICK page : page = Page(DOMAIN table, copy[o].last, PageRows)
    OBVIOUS
  <2>2. IsFiniteSet(page) /\ page \subseteq Nat
    BY <1>0, <2>1, PageInOrder, DocumentsAssumption DEF CopyTyped
  <2>3. PICK rows : rows = [d \in page |-> table[d]]
    OBVIOUS
  <2>4. DOMAIN rows = page
    BY <2>3
  <2>5. /\ CopyTyped([copy[o] EXCEPT !.at = "put", !.rows = rows])
        /\ CopyTyped([copy[o] EXCEPT !.at = "built"])
    BY <1>0, <2>2, <2>4 DEF CopyTyped
  <2>6. PICK c : /\ Becomes(o, c)
                 /\ c \in {[copy[o] EXCEPT !.at = "put", !.rows = rows],
                           [copy[o] EXCEPT !.at = "built"], NoCopy}
    BY <1>13, <2>1, <2>3 DEF ReadPage
  <2>7. UNCHANGED <<store, table, uploaded, points, indexed, verified, phraseSearch>>
    BY <1>13 DEF ReadPage
  <2>8. CopyTyped(c)
    BY <2>5, <2>6, NoCopyTyped
  <2> QED
    BY <1>0, <2>6, <2>7, <2>8, OneCopy DEF DocumentsTyped
<1>14. ASSUME NEW o \in Copiers, PutPage(o) PROVE DocumentsTyped'
  <2>1. CopyTyped([copy[o] EXCEPT !.at = "mark"])
    BY <1>0 DEF CopyTyped
  <2>2. PICK c : /\ Becomes(o, c)
                 /\ c \in {[copy[o] EXCEPT !.at = "mark"], NoCopy}
    BY <1>14 DEF PutPage
  <2>3. DOMAIN points' = DOMAIN points \/ DOMAIN points' = DOMAIN copy[o].rows \union DOMAIN points
    BY <1>14, MergeRows DEF PutPage
  <2>4. IsFiniteSet(DOMAIN points') /\ DOMAIN points' \subseteq Nat
    <3>1. IsFiniteSet(DOMAIN copy[o].rows) /\ DOMAIN copy[o].rows \subseteq Nat
      BY <1>0 DEF CopyTyped
    <3>2. IsFiniteSet(DOMAIN copy[o].rows \union DOMAIN points)
      BY <1>0, <3>1, FS_Union
    <3> QED
      BY <1>0, <2>3, <3>1, <3>2
  <2>5. UNCHANGED <<store, table, uploaded, indexed, verified, phraseSearch>>
    BY <1>14 DEF PutPage
  <2>6. CopyTyped(c)
    BY <2>1, <2>2, NoCopyTyped
  <2> QED
    BY <1>0, <2>2, <2>4, <2>5, <2>6, OneCopy DEF DocumentsTyped
<1>15. ASSUME NEW o \in Copiers, SaveIndexed(o) PROVE DocumentsTyped'
  <2>1. CopyTyped(copy[o]) /\ Cardinality(DOMAIN copy[o].rows) \in Nat
    BY <1>0, FS_CardinalityType DEF CopyTyped
  <2>2. PICK count : count = copy[o].count + Cardinality(DOMAIN copy[o].rows)
    OBVIOUS
  <2>3. PICK last \in LastIn(DOMAIN copy[o].rows) :
          /\ indexed' = [last |-> last, count |-> count]
          /\ \/ Becomes(o, [copy[o] EXCEPT !.at = "page", !.last = last, !.count = count, !.rows = << >>])
             \/ Becomes(o, NoCopy)
    BY <1>15, <2>2 DEF SaveIndexed
  <2>4. last \in Nat /\ count \in Nat
    BY <2>1, <2>2, LastIsNumber DEF CopyTyped
  <2>5. IsFiniteSet(DOMAIN << >>) /\ DOMAIN << >> \subseteq Nat
    BY FS_EmptySet
  <2>6. CopyTyped([copy[o] EXCEPT !.at = "page", !.last = last, !.count = count, !.rows = << >>])
    BY <2>1, <2>4, <2>5 DEF CopyTyped
  <2>7. DOMAIN copy' = Copiers /\ \A p \in Copiers : CopyTyped(copy'[p])
    BY <2>3, <2>6, NoCopyTyped, OneCopy
  <2>8. UNCHANGED <<store, table, uploaded, points, verified, phraseSearch>>
    BY <1>15 DEF SaveIndexed
  <2> QED
    BY <1>0, <2>3, <2>4, <2>7, <2>8 DEF DocumentsTyped
<1>16. ASSUME NEW o \in Copiers, StartVerify(o) PROVE DocumentsTyped'
  <2>1. Cardinality(DOMAIN table) \in Nat
    BY <1>0, FS_CardinalityType
  <2>2. PICK steady \in BOOLEAN :
          Becomes(o, [NoCopy EXCEPT !.at = "hashes", !.expected = Cardinality(DOMAIN table),
                                    !.steady = steady])
    BY <1>16 DEF StartVerify
  <2>3. CopyTyped([NoCopy EXCEPT !.at = "hashes", !.expected = Cardinality(DOMAIN table),
                                 !.steady = steady])
    BY <2>1, NoCopyTyped DEF CopyTyped
  <2>4. UNCHANGED <<store, table, uploaded, points, indexed, verified, phraseSearch>>
    BY <1>16 DEF StartVerify
  <2> QED
    BY <1>0, <2>2, <2>3, <2>4, OneCopy DEF DocumentsTyped
<1>17. ASSUME NEW o \in Copiers, ReadHashes(o) PROVE DocumentsTyped'
  <2>1. PICK page : page = Page(DOMAIN table, copy[o].last, PageRows)
    OBVIOUS
  <2>2. IsFiniteSet(page) /\ page \subseteq Nat
    BY <1>0, <2>1, PageInOrder, DocumentsAssumption DEF CopyTyped
  <2>3. PICK rows : rows = Merge([d \in page |-> table[d]], copy[o].rows)
    OBVIOUS
  <2>4. DOMAIN rows = page \union DOMAIN copy[o].rows
    <3>1. PICK read : read = [d \in page |-> table[d]]
      OBVIOUS
    <3>2. DOMAIN read = page /\ rows = Merge(read, copy[o].rows)
      BY <2>3, <3>1
    <3> QED
      BY <3>2, MergeRows
  <2>5. IsFiniteSet(DOMAIN rows) /\ DOMAIN rows \subseteq Nat
    <3>1. IsFiniteSet(DOMAIN copy[o].rows) /\ DOMAIN copy[o].rows \subseteq Nat
      BY <1>0 DEF CopyTyped
    <3>2. IsFiniteSet(page \union DOMAIN copy[o].rows)
      BY <2>2, <3>1, FS_Union
    <3> QED
      BY <2>2, <2>4, <3>1, <3>2
  <2>6. PICK last \in LastIn(page) : \E c \in {[copy[o] EXCEPT !.rows = rows, !.last = last],
                                               [copy[o] EXCEPT !.at = "scroll", !.last = 0], NoCopy} :
          Becomes(o, c)
    BY <1>17, <2>1, <2>3 DEF ReadHashes
  <2>7. last \in Nat
    BY <2>2, LastIsNumber
  <2>8. /\ CopyTyped([copy[o] EXCEPT !.rows = rows, !.last = last])
        /\ CopyTyped([copy[o] EXCEPT !.at = "scroll", !.last = 0])
    BY <1>0, <2>5, <2>7 DEF CopyTyped
  <2>9. DOMAIN copy' = Copiers /\ \A p \in Copiers : CopyTyped(copy'[p])
    BY <2>6, <2>8, NoCopyTyped, OneCopy
  <2>10. UNCHANGED <<store, table, uploaded, points, indexed, verified, phraseSearch>>
    BY <1>17 DEF ReadHashes
  <2> QED
    BY <1>0, <2>9, <2>10 DEF DocumentsTyped
<1>18. ASSUME NEW o \in Copiers, ScrollPoints(o) PROVE DocumentsTyped'
  <2>1. PICK page : page = Page(DOMAIN points, copy[o].last, PageRows)
    OBVIOUS
  <2>2. IsFiniteSet(page) /\ page \subseteq Nat
    BY <1>0, <2>1, PageInOrder, DocumentsAssumption DEF CopyTyped
  <2>3. PICK seen : seen = copy[o].count + Cardinality(page)
    OBVIOUS
  <2>4. seen \in Nat
    BY <1>0, <2>2, <2>3, FS_CardinalityType DEF CopyTyped
  <2>5. PICK last \in LastIn(page) : \E at \in {"scroll", "compare"} :
          \E c \in {[copy[o] EXCEPT !.count = seen, !.last = last, !.at = at], NoCopy} : Becomes(o, c)
    BY <1>18, <2>1, <2>3 DEF ScrollPoints
  <2>6. last \in Nat
    BY <2>2, LastIsNumber
  <2>7. \A at : CopyTyped([copy[o] EXCEPT !.count = seen, !.last = last, !.at = at])
    BY <1>0, <2>4, <2>6 DEF CopyTyped
  <2>8. DOMAIN copy' = Copiers /\ \A p \in Copiers : CopyTyped(copy'[p])
    BY <2>5, <2>7, NoCopyTyped, OneCopy
  <2>9. UNCHANGED <<store, table, uploaded, points, indexed, verified, phraseSearch>>
    BY <1>18 DEF ScrollPoints
  <2> QED
    BY <1>0, <2>8, <2>9 DEF DocumentsTyped
<1>19. ASSUME NEW o \in Copiers, EndVerify(o) PROVE DocumentsTyped'
  <2>1. verified' \in BOOLEAN
    BY <1>0, <1>19 DEF EndVerify, CopyTyped
  <2>2. UNCHANGED <<store, table, uploaded, points, indexed, phraseSearch>> /\ Becomes(o, NoCopy)
    BY <1>19 DEF EndVerify
  <2> QED
    BY <1>0, <2>1, <2>2, NoCopyTyped, OneCopy DEF DocumentsTyped
<1>20. ASSUME NEW o \in Copiers, KillCopy(o) PROVE DocumentsTyped'
  BY <1>0, <1>20, OneCopy, NoCopyTyped DEF KillCopy, DocumentsTyped
<1> QED
  BY <1>1, <1>2, <1>3, <1>4, <1>5, <1>6, <1>7, <1>8, <1>9, <1>10, <1>11, <1>12, <1>13, <1>14,
     <1>15, <1>16, <1>17, <1>18, <1>19, <1>20 DEF DocumentsNext

-----------------------------------------------------------------------------
(* Lists that were uploaded                                                *)

\* The table has every document of the ids that all editions of the store have.
Copied(ids) == \A d \in ids : (\A e \in Editions : d \in DOMAIN StoreOf[e]) => d \in DOMAIN table
\* A command has copied its list up to where it is, and counted no more than that.
ListHeld(c) ==
  c.picked # Everything /\ c.at \in {"batch", "send", "save"} =>
    /\ Copied({d \in c.picked : d <= c.last})
    /\ c.count <= Cardinality({d \in c.picked : d <= c.last})
    /\ c.at \in {"send", "save"} =>
         c.last <= c.upto /\ DOMAIN c.rows \subseteq {d \in c.picked : c.last < d /\ d <= c.upto}
    /\ c.at = "send" =>
         \A d \in c.picked : c.last < d /\ d <= c.upto /\
           (\A e \in Editions : d \in DOMAIN StoreOf[e]) => d \in DOMAIN c.rows
    /\ c.at = "save" => Copied({d \in c.picked : d <= c.upto})

ListInv ==
  /\ completed \subseteq Picks \union {Everything}
  /\ \A picked \in completed \ {Everything} : Copied(picked)
  /\ \A picked \in Picks :
       uploaded.picked = {picked} => Copied({d \in picked : d <= uploaded.last})
  /\ \A o \in Copiers : ListHeld(copy[o])

LEMMA InitList == DocumentsInit => ListInv
<1>1. ListHeld(NoCopy)
  BY DEF ListHeld, NoCopy
<1>2. \A picked \in Picks : {picked} # {}
  OBVIOUS
<1> QED
  BY <1>1, <1>2 DEF DocumentsInit, ListInv, NoUpload

\* The table loses no document, and so what was copied stays copied.
LEMMA CopiedStays ==
  ASSUME DOMAIN table \subseteq DOMAIN table'
  PROVE  /\ \A ids : Copied(ids) => Copied(ids)'
         /\ \A c : ListHeld(c) => ListHeld(c)'
<1>1. ASSUME NEW ids, Copied(ids) PROVE Copied(ids)'
  BY <1>1 DEF Copied
<1>2. ASSUME NEW c, ListHeld(c) PROVE ListHeld(c)'
  BY <1>1, <1>2 DEF ListHeld
<1> QED
  BY <1>1, <1>2

\* A step of a command that ends or goes on elsewhere.
LEMMA OtherCopies ==
  ASSUME DocumentsTyped, ListInv, NEW o \in Copiers, NEW c, Becomes(o, c), ListHeld(c)',
         DOMAIN table \subseteq DOMAIN table', uploaded' = uploaded, completed' = completed
  PROVE  ListInv'
<1>1. \A p \in Copiers : ListHeld(copy[p])
  BY DEF ListInv
<1>2. ASSUME NEW p \in Copiers PROVE ListHeld(copy[p])'
  <2>1. PICK k : k = copy'[p]
    OBVIOUS
  <2>2. k = IF p = o THEN c ELSE copy[p]
    BY <2>1, OneCopy
  <2>3. ListHeld(k)'
    <3>1. CASE p = o
      BY <2>2, <3>1
    <3>2. CASE p # o
      <4>1. k = copy[p]
        BY <2>2, <3>2
      <4>2. ListHeld(k)
        BY <1>1, <4>1
      <4> QED
        BY <4>2, CopiedStays
    <3> QED
      BY <3>1, <3>2
  <2> QED
    BY <2>1, <2>3
<1>3. /\ \A picked \in completed \ {Everything} : Copied(picked)'
      /\ \A picked \in Picks :
           uploaded.picked = {picked} => Copied({d \in picked : d <= uploaded.last})'
  <2>1. \A ids : Copied(ids) => Copied(ids)'
    BY CopiedStays
  <2>2. ASSUME NEW picked \in Picks, uploaded.picked = {picked}
        PROVE  Copied({d \in picked : d <= uploaded.last})'
    <3>1. PICK ids : ids = {d \in picked : d <= uploaded.last}
      OBVIOUS
    <3>2. Copied(ids)'
      BY <2>1, <2>2, <3>1 DEF ListInv
    <3>3. ids = {d \in picked : d <= uploaded'.last}
      BY <3>1
    <3> QED
      BY <3>2, <3>3
  <2> QED
    BY <2>1, <2>2 DEF ListInv
<1> QED
  BY <1>2, <1>3 DEF ListInv

\* A command that copies no list.
LEMMA NoListHeld ==
  ASSUME NEW c, c.picked = Everything \/ c.at \notin {"batch", "send", "save"}
  PROVE  ListHeld(c) /\ ListHeld(c)'
BY DEF ListHeld

LEMMA ListStep == DocumentsTyped /\ ListInv /\ [DocumentsNext]_documentVars => ListInv'
<1> SUFFICES ASSUME DocumentsTyped, ListInv, [DocumentsNext]_documentVars PROVE ListInv'
  OBVIOUS
<1>0. /\ store \in Editions /\ uploaded.last \in Nat /\ DOMAIN uploaded = {"last", "picked"}
      /\ \A o \in Copiers : CopyTyped(copy[o])
  BY DEF DocumentsTyped
<1>c. \A o \in Copiers :
        DOMAIN copy[o] = {"at", "picked", "last", "count", "expected", "rows", "upto", "steady"}
  BY <1>0 DEF CopyTyped
<1>a. /\ completed \subseteq Picks \union {Everything}
      /\ \A picked \in completed \ {Everything} : Copied(picked)
      /\ \A picked \in Picks :
           uploaded.picked = {picked} => Copied({d \in picked : d <= uploaded.last})
      /\ \A o \in Copiers : ListHeld(copy[o])
  BY DEF ListInv
<1>b. ListHeld(NoCopy)'
  BY NoListHeld DEF NoCopy
<1>1. ASSUME UNCHANGED <<table, uploaded, completed, copy>> PROVE ListInv'
  BY <1>1 DEF ListInv, ListHeld, Copied
<1>2. CASE UNCHANGED documentVars
  BY <1>1, <1>2 DEF documentVars
<1>3. CASE StartSearch \/ ScrollPhrase \/ ReadFound \/ RebuildStore
  BY <1>1, <1>3 DEF StartSearch, ScrollPhrase, ReadFound, RebuildStore
<1>4. CASE RemoveCheckpoint
  <2>1. UNCHANGED <<table, completed, copy>> /\ (uploaded' = uploaded \/ uploaded' = NoUpload)
    BY <1>4 DEF RemoveCheckpoint
  <2>2. \A picked \in Picks : {} # {picked}
    OBVIOUS
  <2>3. CASE uploaded' = NoUpload
    BY <2>1, <2>2, <2>3 DEF ListInv, ListHeld, Copied, NoUpload
  <2> QED
    BY <1>1, <2>1, <2>3
<1>5. ASSUME NEW o \in Copiers, StartUpload(o) PROVE ListInv'
  <2>1. PICK picked \in Picks \union {Everything} :
          /\ SameList(picked)
          /\ Becomes(o, [NoCopy EXCEPT !.at = "batch", !.picked = picked, !.last = uploaded.last])
          /\ UNCHANGED <<table, uploaded, completed>>
    BY <1>5 DEF StartUpload
  <2>2. PICK c : c = [NoCopy EXCEPT !.at = "batch", !.picked = picked, !.last = uploaded.last]
    OBVIOUS
  <2>3. c.at = "batch" /\ c.picked = picked /\ c.last = uploaded.last /\ c.count = 0
    BY <2>2 DEF NoCopy
  <2>4. CASE picked # Everything
    <3>1. picked \in Picks /\ picked \subseteq Nat \ {0} /\ IsFiniteSet(picked)
      BY <2>4, DocumentsAssumption
    <3>2. PICK ids : ids = {d \in picked : d <= uploaded.last}
      OBVIOUS
    <3>3. Copied(ids)
      <4>1. CASE uploaded = NoUpload
        <5>1. ids = {}
          <6>1. uploaded.last = 0
            BY <4>1 DEF NoUpload
          <6>2. \A d \in picked : ~ (d <= 0)
            BY <3>1
          <6> QED
            BY <3>2, <6>1, <6>2
        <5> QED
          BY <5>1 DEF Copied
      <4>2. CASE uploaded.picked = {picked}
        BY <1>a, <3>1, <3>2, <4>2
      <4> QED
        BY <2>1, <2>4, <4>1, <4>2 DEF SameList
    <3>4. IsFiniteSet(ids) /\ 0 <= Cardinality(ids)
      <4>1. IsFiniteSet(ids)
        BY <3>1, <3>2, FS_Subset
      <4> QED
        BY <4>1, FS_CardinalityType
    <3>5. ListHeld(c)
      BY <2>3, <3>2, <3>3, <3>4 DEF ListHeld
    <3>6. ListHeld(c)'
      BY <2>1, <3>5, CopiedStays
    <3> QED
      BY <2>1, <2>2, <3>6, OtherCopies
  <2>5. CASE picked = Everything
    <3>1. ListHeld(c)'
      BY <2>3, <2>5, NoListHeld
    <3> QED
      BY <2>1, <2>2, <3>1, OtherCopies
  <2> QED
    BY <2>4, <2>5
<1>6. ASSUME NEW o \in Copiers, ReadDocuments(o) PROVE ListInv'
  <2>1. PICK rows : rows = [d \in UploadIds(o) \intersect DOMAIN StoreOf[store] |-> StoreOf[store][d]]
    OBVIOUS
  <2>2. /\ copy[o].at = "batch" /\ copy[o].count < MaxUpload
        /\ UNCHANGED <<table, uploaded, completed>> /\ UploadIds(o) # {}
    BY <1>6 DEF ReadDocuments
  <2>3. PICK upto \in LastIn(UploadIds(o)) :
          Becomes(o, [copy[o] EXCEPT !.at = "send", !.upto = upto, !.rows = rows])
    BY <1>6, <2>1 DEF ReadDocuments
  <2>4. PICK c : c = [copy[o] EXCEPT !.at = "send", !.upto = upto, !.rows = rows]
    OBVIOUS
  <2>5. /\ c.at = "send" /\ c.upto = upto /\ c.rows = rows /\ c.last = copy[o].last
        /\ c.count = copy[o].count /\ c.picked = copy[o].picked
    BY <1>0, <2>4 DEF CopyTyped
  <2>6. CASE c.picked # Everything
    <3>1. c.picked \in Picks /\ c.picked \subseteq Nat /\ IsFiniteSet(c.picked) /\ c.last \in Nat
      BY <1>0, <2>5, <2>6, IdsAreNumbers DEF CopyTyped
    <3>2. PICK limit \in Nat : UploadIds(o) = Page(c.picked, c.last, limit)
      BY <2>2, <2>5, <2>6, UploadIdsAreNumbers
    <3>3. /\ UploadIds(o) \subseteq {d \in c.picked : c.last < d}
          /\ \A last \in UploadIds(o) : \A d \in c.picked :
               c.last < d /\ d <= last => d \in UploadIds(o)
      BY <3>1, <3>2, PageInOrder
    <3>4. upto \in UploadIds(o) /\ (\A d \in UploadIds(o) : d <= upto)
      BY <2>2, <2>3 DEF LastIn
    <3>5. DOMAIN rows = UploadIds(o) \intersect DOMAIN StoreOf[store]
      BY <2>1
    <3>6. c.last <= c.upto /\ DOMAIN c.rows \subseteq {d \in c.picked : c.last < d /\ d <= c.upto}
      <4>1. upto \in Nat /\ c.last < upto
        BY <3>1, <3>3, <3>4
      <4> QED
        BY <2>5, <3>1, <3>3, <3>4, <3>5, <4>1
    <3>7. \A d \in c.picked : c.last < d /\ d <= c.upto /\
            (\A e \in Editions : d \in DOMAIN StoreOf[e]) => d \in DOMAIN c.rows
      BY <1>0, <2>5, <3>3, <3>4, <3>5
    <3>8. /\ Copied({d \in c.picked : d <= c.last})
          /\ c.count <= Cardinality({d \in c.picked : d <= c.last})
      BY <1>a, <2>2, <2>5, <2>6 DEF ListHeld
    <3>9. ListHeld(c)
      BY <2>5, <3>6, <3>7, <3>8 DEF ListHeld
    <3>10. ListHeld(c)'
      BY <2>2, <3>9, CopiedStays
    <3> QED
      BY <2>2, <2>3, <2>4, <3>10, OtherCopies
  <2>7. CASE c.picked = Everything
    <3>1. ListHeld(c)'
      BY <2>7, NoListHeld
    <3> QED
      BY <2>2, <2>3, <2>4, <3>1, OtherCopies
  <2> QED
    BY <2>6, <2>7
<1>7. ASSUME NEW o \in Copiers, SendDocuments(o) PROVE ListInv'
  <2>1. PICK rows, next :
          /\ UpsertRows(o, rows, next)
          /\ \/ rows = copy[o].rows /\ next = [copy[o] EXCEPT !.at = "save"]
             \/ rows \in {copy[o].rows, << >>} /\ next = NoCopy
    BY <1>7 DEF SendDocuments
  <2>2. CopyTyped(next) /\ IsFiniteSet(DOMAIN rows) /\ DOMAIN rows \subseteq Nat
    <3>1. IsFiniteSet(DOMAIN << >>) /\ DOMAIN << >> \subseteq Nat
      BY FS_EmptySet
    <3> QED
      BY <1>0, <2>1, <3>1, NoCopyTyped DEF CopyTyped
  <2>3. /\ DOMAIN table \subseteq DOMAIN table' /\ DOMAIN table' = DOMAIN rows \union DOMAIN table
        /\ \A p \in Copiers : LET c == IF p = o THEN next ELSE copy[p] IN
              /\ copy'[p].at = c.at /\ copy'[p].picked = c.picked /\ copy'[p].last = c.last
              /\ copy'[p].count = c.count /\ copy'[p].rows = c.rows /\ copy'[p].upto = c.upto
        /\ uploaded' = uploaded /\ completed' = completed
    <3>1. uploaded' = uploaded /\ completed' = completed
      BY <2>1 DEF UpsertRows
    <3>2. /\ DOMAIN table \subseteq DOMAIN table' /\ DOMAIN table' = DOMAIN rows \union DOMAIN table
          /\ \A p \in Copiers : LET c == IF p = o THEN next ELSE copy[p] IN
               /\ CopyTyped(c) /\ CopyTyped(copy'[p])
               /\ copy'[p].at = c.at /\ copy'[p].picked = c.picked /\ copy'[p].last = c.last
               /\ copy'[p].count = c.count /\ copy'[p].expected = c.expected
               /\ copy'[p].rows = c.rows /\ copy'[p].upto = c.upto
      BY <2>1, <2>2, UpsertTyped
    <3> QED
      BY <3>1, <3>2
  <2>4. ListHeld(next)'
    <3>1. CASE next = NoCopy
      BY <1>b, <3>1
    <3>2. CASE rows = copy[o].rows /\ next = [copy[o] EXCEPT !.at = "save"]
      <4>1. /\ next.at = "save" /\ next.picked = copy[o].picked /\ next.last = copy[o].last
            /\ next.count = copy[o].count /\ next.rows = rows /\ next.upto = copy[o].upto
        BY <1>0, <3>2 DEF CopyTyped
      <4>2. SUFFICES ASSUME next.picked # Everything PROVE ListHeld(next)'
        BY DEF ListHeld
      <4>3. /\ Copied({d \in next.picked : d <= next.last})
            /\ next.count <= Cardinality({d \in next.picked : d <= next.last})
            /\ next.last <= next.upto
            /\ DOMAIN next.rows \subseteq {d \in next.picked : next.last < d /\ d <= next.upto}
            /\ \A d \in next.picked : next.last < d /\ d <= next.upto /\
                 (\A e \in Editions : d \in DOMAIN StoreOf[e]) => d \in DOMAIN next.rows
        <5>1. copy[o].at = "send" /\ ListHeld(copy[o])
          BY <1>7, <1>a DEF SendDocuments
        <5>2. copy[o].picked # Everything /\ copy[o].at \in {"batch", "send", "save"}
          BY <4>1, <4>2, <5>1
        <5>3. /\ Copied({d \in copy[o].picked : d <= copy[o].last})
              /\ copy[o].count <= Cardinality({d \in copy[o].picked : d <= copy[o].last})
              /\ copy[o].last <= copy[o].upto
              /\ DOMAIN copy[o].rows \subseteq
                   {d \in copy[o].picked : copy[o].last < d /\ d <= copy[o].upto}
              /\ \A d \in copy[o].picked : copy[o].last < d /\ d <= copy[o].upto /\
                   (\A e \in Editions : d \in DOMAIN StoreOf[e]) => d \in DOMAIN copy[o].rows
          BY <5>1, <5>2 DEF ListHeld
        <5>4. next.rows = copy[o].rows
          BY <3>2, <4>1
        <5> QED
          BY <4>1, <5>3, <5>4
      <4>4. next.picked \subseteq Nat /\ next.last \in Nat /\ next.upto \in Nat
        BY <2>2, <4>2, IdsAreNumbers DEF CopyTyped
      <4>5. Copied({d \in next.picked : d <= next.upto})'
        <5>1. ASSUME NEW d \in next.picked, d <= next.upto,
                     \A e \in Editions : d \in DOMAIN StoreOf[e]
              PROVE  d \in DOMAIN table'
          <6>1. CASE d <= next.last
            BY <2>3, <4>3, <5>1, <6>1 DEF Copied
          <6>2. CASE next.last < d
            BY <2>3, <4>1, <4>3, <5>1, <6>2
          <6> QED
            BY <4>4, <6>1, <6>2
        <5> QED
          BY <5>1 DEF Copied
      <4>6. Copied({d \in next.picked : d <= next.last})'
        BY <2>3, <4>3 DEF Copied
      <4> QED
        BY <4>1, <4>3, <4>5, <4>6 DEF ListHeld
    <3> QED
      BY <2>1, <3>1, <3>2
  <2>5. \A p \in Copiers : ListHeld(copy[p])'
    <3> SUFFICES ASSUME NEW p \in Copiers PROVE ListHeld(copy[p])'
      OBVIOUS
    <3>1. PICK k, c : k = copy'[p] /\ c = IF p = o THEN next ELSE copy[p]
      OBVIOUS
    <3>2. /\ k.at = c.at /\ k.picked = c.picked /\ k.last = c.last
          /\ k.count = c.count /\ k.rows = c.rows /\ k.upto = c.upto
      BY <2>3, <3>1
    <3>3. ListHeld(c)'
      <4>1. CASE p = o
        BY <2>4, <3>1, <4>1
      <4>2. CASE p # o
        BY <1>a, <2>3, <3>1, <4>2, CopiedStays
      <4> QED
        BY <4>1, <4>2
    <3>4. ListHeld(k)'
      BY <3>2, <3>3 DEF ListHeld
    <3> QED
      BY <3>1, <3>4
  <2>6. \A picked \in completed \ {Everything} : Copied(picked)'
    BY <1>a, <2>3, CopiedStays
  <2>7. ASSUME NEW picked \in Picks, uploaded'.picked = {picked}
        PROVE  Copied({d \in picked : d <= uploaded.last})'
    BY <1>a, <2>3, <2>7 DEF Copied
  <2> QED
    BY <1>a, <2>3, <2>5, <2>6, <2>7 DEF ListInv
<1>8. ASSUME NEW o \in Copiers, SaveUpload(o) PROVE ListInv'
  <2>1. PICK c : c = [copy[o] EXCEPT !.at = "batch", !.last = copy[o].upto, !.rows = << >>,
                                !.count = @ + Cardinality(DOMAIN copy[o].rows)]
    OBVIOUS
  <2>2. /\ copy[o].at = "save" /\ Becomes(o, c) /\ UNCHANGED <<table, completed>>
        /\ uploaded'.last = copy[o].upto
        /\ uploaded'.picked = IF copy[o].picked = Everything THEN {} ELSE {copy[o].picked}
    BY <1>8, <2>1 DEF SaveUpload
  <2>3. /\ c.at = "batch" /\ c.last = copy[o].upto /\ c.picked = copy[o].picked
        /\ c.count = copy[o].count + Cardinality(DOMAIN copy[o].rows)
    BY <1>0, <2>1 DEF CopyTyped
  <2>4. ListHeld(c) /\ \A picked \in Picks :
          uploaded'.picked = {picked} => Copied({d \in picked : d <= uploaded'.last})
    <3>1. CASE copy[o].picked = Everything
      <4>1. \A picked \in Picks : uploaded'.picked # {picked}
        BY <2>2, <3>1
      <4> QED
        BY <2>3, <3>1, <4>1, NoListHeld
    <3>2. CASE copy[o].picked # Everything
      <4>1. /\ Copied({d \in copy[o].picked : d <= copy[o].upto})
            /\ copy[o].count <= Cardinality({d \in copy[o].picked : d <= copy[o].last})
            /\ copy[o].last <= copy[o].upto
            /\ DOMAIN copy[o].rows \subseteq
                 {d \in copy[o].picked : copy[o].last < d /\ d <= copy[o].upto}
        BY <1>a, <2>2, <3>2 DEF ListHeld
      <4>2. PICK before, now, rows :
              /\ before = {d \in copy[o].picked : d <= copy[o].last}
              /\ now = {d \in copy[o].picked : d <= copy[o].upto}
              /\ rows = DOMAIN copy[o].rows
        OBVIOUS
      <4>3. /\ copy[o].picked \subseteq Nat /\ IsFiniteSet(copy[o].picked)
            /\ copy[o].last \in Nat /\ copy[o].upto \in Nat /\ copy[o].count \in Nat
        BY <1>0, <3>2, IdsAreNumbers DEF CopyTyped
      <4>4. before \union rows \subseteq now /\ before \intersect rows = {}
        BY <4>1, <4>2, <4>3
      <4>5. IsFiniteSet(before) /\ IsFiniteSet(now) /\ IsFiniteSet(rows)
        <5>1. before \subseteq copy[o].picked /\ now \subseteq copy[o].picked /\ rows \subseteq now
          BY <4>2, <4>4
        <5> QED
          BY <4>3, <5>1, FS_Subset
      <4>6. /\ Cardinality(before) \in Nat /\ Cardinality(rows) \in Nat /\ Cardinality(now) \in Nat
            /\ Cardinality(before) + Cardinality(rows) <= Cardinality(now)
        <5>1. /\ Cardinality(before) \in Nat /\ Cardinality(rows) \in Nat
              /\ Cardinality(now) \in Nat
          BY <4>5, FS_CardinalityType
        <5>2. Cardinality(before \union rows) = Cardinality(before) + Cardinality(rows) - Cardinality({})
          BY <4>4, <4>5, FS_Union
        <5>3. Cardinality({}) = 0
          BY FS_EmptySet
        <5>4. Cardinality(before \union rows) <= Cardinality(now)
          BY <4>4, <4>5, FS_Subset
        <5> QED
          BY <5>1, <5>2, <5>3, <5>4
      <4>7. c.count <= Cardinality({d \in c.picked : d <= c.last})
        <5>1. copy[o].count <= Cardinality(before) /\ now = {d \in c.picked : d <= c.last}
              /\ c.count = copy[o].count + Cardinality(rows)
          BY <2>3, <4>1, <4>2
        <5> QED
          BY <4>3, <4>6, <5>1
      <4>8. Copied({d \in c.picked : d <= c.last})
        BY <2>3, <4>1
      <4>9. ListHeld(c)
        BY <2>3, <4>7, <4>8 DEF ListHeld
      <4>10. \A picked : uploaded'.picked = {picked} => picked = copy[o].picked
        BY <2>2, <3>2
      <4> QED
        BY <2>2, <4>1, <4>9, <4>10
    <3> QED
      BY <3>1, <3>2
  <2>5. \A p \in Copiers : ListHeld(copy'[p])
    BY <1>a, <2>2, <2>4, OneCopy
  <2>6. \A picked \in Picks :
          uploaded'.picked = {picked} => Copied({d \in picked : d <= uploaded.last})'
    BY <2>2, <2>4 DEF Copied
  <2>7. \A p \in Copiers : ListHeld(copy[p])'
    <3> SUFFICES ASSUME NEW p \in Copiers PROVE ListHeld(copy[p])'
      OBVIOUS
    <3>1. PICK k : k = copy'[p]
      OBVIOUS
    <3>2. ListHeld(k)'
      BY <2>2, <2>5, <3>1, CopiedStays
    <3> QED
      BY <3>1, <3>2
  <2>8. \A picked \in completed' \ {Everything} : Copied(picked)'
    BY <1>a, <2>2 DEF Copied
  <2> QED
    BY <1>a, <2>2, <2>6, <2>7, <2>8 DEF ListInv
<1>9. ASSUME NEW o \in Copiers, EndUpload(o) PROVE ListInv'
  <2>1. /\ copy[o].at = "batch" /\ (copy[o].count >= MaxUpload \/ UploadIds(o) = {})
        /\ completed' = completed \union {copy[o].picked}
        /\ Becomes(o, NoCopy) /\ UNCHANGED <<table, uploaded>>
    BY <1>9 DEF EndUpload
  <2>2. copy[o].picked # Everything => Copied(copy[o].picked)
    <3> SUFFICES ASSUME copy[o].picked # Everything PROVE Copied(copy[o].picked)
      OBVIOUS
    <3>1. /\ copy[o].picked \in Picks /\ copy[o].picked \subseteq Nat /\ IsFiniteSet(copy[o].picked)
          /\ Cardinality(copy[o].picked) <= MaxUpload
          /\ copy[o].last \in Nat /\ copy[o].count \in Nat
      BY <1>0, IdsAreNumbers, DocumentsAssumption DEF CopyTyped
    <3>2. PICK ids : ids = {d \in copy[o].picked : d <= copy[o].last}
      OBVIOUS
    <3>3. Copied(ids) /\ copy[o].count <= Cardinality(ids)
      BY <1>a, <2>1, <3>2 DEF ListHeld
    <3>4. ids \subseteq copy[o].picked /\ MaxUpload \in Nat
      BY <3>2, DocumentsAssumption
    <3>5. ids = copy[o].picked
      <4>1. CASE copy[o].count >= MaxUpload
        <5>1. /\ Cardinality(ids) \in Nat /\ Cardinality(copy[o].picked) \in Nat
              /\ Cardinality(ids) <= Cardinality(copy[o].picked)
          BY <3>1, <3>4, FS_Subset, FS_CardinalityType
        <5>2. Cardinality(copy[o].picked) = Cardinality(ids)
          BY <3>1, <3>3, <3>4, <4>1, <5>1
        <5> QED
          BY <3>1, <3>4, <5>2, FS_Subset
      <4>2. CASE copy[o].count < MaxUpload
        <5>1. PICK limit \in Nat \ {0} : UploadIds(o) = Page(copy[o].picked, copy[o].last, limit)
          BY <4>2, UploadIdsAreNumbers
        <5>2. Page(copy[o].picked, copy[o].last, limit) = {}
          BY <2>1, <3>1, <3>4, <4>2, <5>1
        <5>3. \A d \in copy[o].picked : d <= copy[o].last
          BY <3>1, <5>2, PageInOrder
        <5> QED
          BY <3>2, <5>3
      <4> QED
        BY <3>1, <3>4, <4>1, <4>2
    <3> QED
      BY <3>3, <3>5
  <2>3. copy[o].picked \in Picks \union {Everything}
    BY <1>0 DEF CopyTyped
  <2>4. ASSUME NEW picked \in completed' \ {Everything} PROVE Copied(picked)'
    <3>1. Copied(picked)
      BY <1>a, <2>1, <2>2, <2>4
    <3> QED
      BY <2>1, <3>1 DEF Copied
  <2>5. \A p \in Copiers : ListHeld(copy[p])'
    <3> SUFFICES ASSUME NEW p \in Copiers PROVE ListHeld(copy[p])'
      OBVIOUS
    <3>1. PICK k : k = copy'[p]
      OBVIOUS
    <3>2. k = NoCopy \/ ListHeld(k)
      BY <1>a, <2>1, <3>1, OneCopy
    <3>3. ListHeld(k)'
      BY <1>b, <2>1, <3>2, CopiedStays
    <3> QED
      BY <3>1, <3>3
  <2>6. \A picked \in Picks :
          uploaded'.picked = {picked} => Copied({d \in picked : d <= uploaded.last})'
    BY <1>a, <2>1 DEF Copied
  <2> QED
    BY <1>a, <2>1, <2>3, <2>4, <2>5, <2>6 DEF ListInv
<1>10. ASSUME NEW o \in Copiers, NEW c, Becomes(o, c), UNCHANGED <<table, uploaded, completed>>,
              c.picked = Everything \/ c.at \notin {"batch", "send", "save"}
       PROVE  ListInv'
  BY <1>10, NoListHeld, OtherCopies
<1>11. ASSUME NEW o \in Copiers, StartIndex(o) \/ StartVerify(o) PROVE ListInv'
  <2>1. PICK c : Becomes(o, c) /\ c.picked = Everything /\ UNCHANGED <<table, uploaded, completed>>
    BY <1>11 DEF StartIndex, StartVerify, NoCopy
  <2> QED
    BY <1>10, <2>1
<1>12. ASSUME NEW o \in Copiers, ReadPage(o) PROVE ListInv'
  <2>1. PICK rows : \E c \in {[copy[o] EXCEPT !.at = "put", !.rows = rows],
                            [copy[o] EXCEPT !.at = "built"], NoCopy} : Becomes(o, c)
    <3>1. PICK rows : rows = [d \in Page(DOMAIN table, copy[o].last, PageRows) |-> table[d]]
      OBVIOUS
    <3> QED
      BY <1>12, <3>1 DEF ReadPage
  <2>2. PICK c : Becomes(o, c) /\ c.at \in {"put", "built", "idle"}
    <3>1. PICK c \in {[copy[o] EXCEPT !.at = "put", !.rows = rows],
                     [copy[o] EXCEPT !.at = "built"], NoCopy} : Becomes(o, c)
      BY <2>1
    <3>2. c.at \in {"put", "built", "idle"}
      <4>1. CASE c = [copy[o] EXCEPT !.at = "put", !.rows = rows]
        BY <1>c, <4>1
      <4>2. CASE c = [copy[o] EXCEPT !.at = "built"]
        BY <1>c, <4>2
      <4>3. CASE c = NoCopy
        BY <1>c, <4>3 DEF NoCopy
      <4> QED
        BY <3>1, <4>1, <4>2, <4>3
    <3> QED
      BY <3>1, <3>2
  <2> QED
    BY <1>10, <1>12, <2>2 DEF ReadPage
<1>13. ASSUME NEW o \in Copiers, PutPage(o) PROVE ListInv'
  <2>1. PICK c : Becomes(o, c) /\ c.at \in {"mark", "idle"}
    BY <1>0, <1>13 DEF PutPage, NoCopy, CopyTyped
  <2> QED
    BY <1>10, <1>13, <2>1 DEF PutPage
<1>14. ASSUME NEW o \in Copiers, SaveIndexed(o) PROVE ListInv'
  <2>1. PICK c : Becomes(o, c) /\ c.at \in {"page", "idle"} /\ UNCHANGED <<table, uploaded, completed>>
    BY <1>0, <1>14 DEF SaveIndexed, NoCopy, CopyTyped
  <2> QED
    BY <1>10, <2>1
<1>15. ASSUME NEW o \in Copiers, ReadHashes(o) PROVE ListInv'
  <2>1. PICK page : page = Page(DOMAIN table, copy[o].last, PageRows)
    OBVIOUS
  <2>2. PICK rows : rows = Merge([d \in page |-> table[d]], copy[o].rows)
    OBVIOUS
  <2>3. PICK last : \E c \in {[copy[o] EXCEPT !.rows = rows, !.last = last],
                            [copy[o] EXCEPT !.at = "scroll", !.last = 0], NoCopy} : Becomes(o, c)
    BY <1>15, <2>1, <2>2 DEF ReadHashes
  <2>4. PICK c : Becomes(o, c) /\ c.at \in {"hashes", "scroll", "idle"}
    <3>1. PICK c \in {[copy[o] EXCEPT !.rows = rows, !.last = last],
                     [copy[o] EXCEPT !.at = "scroll", !.last = 0], NoCopy} : Becomes(o, c)
      BY <2>3
    <3>2. copy[o].at = "hashes"
      BY <1>15 DEF ReadHashes
    <3>3. c.at \in {"hashes", "scroll", "idle"}
      <4>1. CASE c = [copy[o] EXCEPT !.rows = rows, !.last = last]
        BY <1>c, <3>2, <4>1
      <4>2. CASE c = [copy[o] EXCEPT !.at = "scroll", !.last = 0]
        BY <1>c, <3>2, <4>2
      <4>3. CASE c = NoCopy
        BY <1>c, <3>2, <4>3 DEF NoCopy
      <4> QED
        BY <3>1, <4>1, <4>2, <4>3
    <3> QED
      BY <3>1, <3>3
  <2> QED
    BY <1>10, <1>15, <2>4 DEF ReadHashes
<1>16. ASSUME NEW o \in Copiers, ScrollPoints(o) PROVE ListInv'
  <2>1. PICK page, seen : /\ page = Page(DOMAIN points, copy[o].last, PageRows)
                          /\ seen = copy[o].count + Cardinality(page)
    OBVIOUS
  <2>2. PICK last : \E at \in {"scroll", "compare"} :
          \E c \in {[copy[o] EXCEPT !.count = seen, !.last = last, !.at = at], NoCopy} : Becomes(o, c)
    BY <1>16, <2>1 DEF ScrollPoints
  <2>3. PICK c : Becomes(o, c) /\ c.at \in {"compare", "scroll", "idle"}
    <3>1. PICK at \in {"scroll", "compare"} : \E c \in
            {[copy[o] EXCEPT !.count = seen, !.last = last, !.at = at], NoCopy} : Becomes(o, c)
      BY <2>2
    <3>2. PICK c \in {[copy[o] EXCEPT !.count = seen, !.last = last, !.at = at], NoCopy} :
            Becomes(o, c)
      BY <3>1
    <3>3. c.at \in {"compare", "scroll", "idle"}
      <4>1. CASE c = [copy[o] EXCEPT !.count = seen, !.last = last, !.at = at]
        BY <1>c, <4>1
      <4>2. CASE c = NoCopy
        BY <1>c, <4>2 DEF NoCopy
      <4> QED
        BY <3>2, <4>1, <4>2
    <3> QED
      BY <3>2, <3>3
  <2> QED
    BY <1>10, <1>16, <2>3 DEF ScrollPoints
<1>17. ASSUME NEW o \in Copiers, EndVerify(o) \/ KillCopy(o) PROVE ListInv'
  <2>1. Becomes(o, NoCopy) /\ UNCHANGED <<table, uploaded, completed>>
    BY <1>17 DEF EndVerify, KillCopy
  <2> QED
    BY <1>10, <2>1 DEF NoCopy
<1> QED
  BY <1>2, <1>3, <1>4, <1>5, <1>6, <1>7, <1>8, <1>9, <1>11, <1>12, <1>13, <1>14, <1>15, <1>16,
     <1>17 DEF DocumentsNext

LEMMA ListInvUploaded == ListInv => ListUploaded
BY DEF ListInv, ListUploaded, Copied

(* An upload of a list that ends well has left every document of the list  *)
(* in the table that all editions of the store have, for any operators,    *)
(* editions, lists and sizes of a batch: whatever was killed, resumed from *)
(* the file or run beside another, a command has copied its list up to the *)
(* id it reached and counted no more documents than that                   *)
(* (upload_full_documents).                                                *)
THEOREM ListsUploaded == DocumentsSpec => []ListUploaded
<1>1. DocumentsInit => DocumentsTyped /\ ListInv
  BY InitTyped, InitList
<1>2. (DocumentsTyped /\ ListInv) /\ [DocumentsNext]_documentVars => (DocumentsTyped /\ ListInv)'
  BY TypedStep, ListStep
<1> QED
  BY <1>1, <1>2, ListInvUploaded, PTL DEF DocumentsSpec

-----------------------------------------------------------------------------
(* Phrases after a verification                                            *)

\* The rows have the texts of the table; the points that do; and those a
\* verification may have counted.
Agree(rows) == \A d \in DOMAIN rows : d \in DOMAIN table /\ table[d].text = rows[d].text
Matched == {d \in DOMAIN points : d \in DOMAIN table /\ points[d].text = table[d].text}

VerifyHeld(c) ==
  c.steady =>
    /\ c.at \in {"hashes", "scroll", "compare"}
    /\ Agree(c.rows) /\ c.expected = Cardinality(DOMAIN table)
    /\ c.at = "hashes" => c.count = 0
    /\ c.at \in {"scroll", "compare"} => DOMAIN c.rows = DOMAIN table
    /\ c.at = "scroll" => c.count <= Cardinality({d \in Matched : d <= c.last})
    /\ c.at = "compare" => c.count <= Cardinality(Matched)
BuildHeld(c) == c.at \in {"put", "mark"} => DOMAIN c.rows \subseteq DOMAIN table
PutsCurrent == \A p \in Copiers : copy[p].at = "put" => Agree(copy[p].rows)

SearchHeld(s) ==
  /\ s.verified => verified
  /\ s.at \in {"read", "answered"} =>
       /\ \A d \in DOMAIN s.rows : s.phrase \in s.rows[d].text
       /\ s.type = "" /\ s.verified =>
            DOMAIN s.rows = {d \in DOMAIN table : s.phrase \in table[d].text}

SearchInv ==
  /\ DOMAIN points \subseteq DOMAIN table
  /\ \A o \in Copiers : BuildHeld(copy[o]) /\ VerifyHeld(copy[o])
  /\ verified \/ (\E o \in Copiers : copy[o].steady) => PutsCurrent
  /\ verified => Matched = DOMAIN table
  /\ SearchHeld(phraseSearch)

LEMMA NoCopyHeld == BuildHeld(NoCopy) /\ VerifyHeld(NoCopy) /\ ~NoCopy.steady /\ NoCopy.at = "idle"
BY DEF BuildHeld, VerifyHeld, NoCopy

LEMMA InitSearch == DocumentsInit => SearchInv
<1> SUFFICES ASSUME DocumentsInit PROVE SearchInv
  OBVIOUS
<1>1. \A o \in Copiers : copy[o] = NoCopy
  BY DEF DocumentsInit
<1>2. \A o \in Copiers : BuildHeld(copy[o]) /\ VerifyHeld(copy[o]) /\ ~copy[o].steady
  BY <1>1, NoCopyHeld
<1>3. SearchHeld(phraseSearch) /\ ~verified
  BY DEF DocumentsInit, SearchHeld, NoSearch
<1>4. DOMAIN points = {} /\ DOMAIN table = {}
  BY DEF DocumentsInit
<1> QED
  BY <1>2, <1>3, <1>4 DEF SearchInv

\* A step that changes the texts of no row and no point.
LEMMA SameTexts ==
  ASSUME points' = points, DOMAIN table' = DOMAIN table,
         \A d \in DOMAIN table : table'[d].text = table[d].text
  PROVE  /\ Matched' = Matched
         /\ \A rows : Agree(rows) => Agree(rows)'
         /\ \A c : BuildHeld(c) => BuildHeld(c)'
         /\ \A c : VerifyHeld(c) => VerifyHeld(c)'
<1>1. Matched' = Matched
  BY DEF Matched
<1>2. \A rows : Agree(rows) => Agree(rows)'
  BY DEF Agree
<1>3. \A c : BuildHeld(c) => BuildHeld(c)'
  BY DEF BuildHeld
<1>4. ASSUME NEW c, VerifyHeld(c) PROVE VerifyHeld(c)'
  BY <1>1, <1>2, <1>4 DEF VerifyHeld
<1> QED
  BY <1>1, <1>2, <1>3, <1>4

\* A step of one command that changes only what it knows.
LEMMA OneKnows ==
  ASSUME DocumentsTyped, SearchInv, NEW o \in Copiers, NEW c, Becomes(o, c),
         UNCHANGED <<table, points, verified, phraseSearch>>,
         BuildHeld(c), VerifyHeld(c), c.at = "put" => Agree(c.rows), c.steady => PutsCurrent
  PROVE  SearchInv'
<1>1. /\ \A k : BuildHeld(k) => BuildHeld(k)'
      /\ \A k : VerifyHeld(k) => VerifyHeld(k)'
      /\ \A rows : Agree(rows) => Agree(rows)'
      /\ Matched' = Matched
  BY SameTexts
<1>2. \A p \in Copiers : copy'[p] = IF p = o THEN c ELSE copy[p]
  BY OneCopy
<1>3. ASSUME NEW p \in Copiers PROVE BuildHeld(copy[p])' /\ VerifyHeld(copy[p])'
  <2>1. PICK k : k = copy'[p]
    OBVIOUS
  <2>2. BuildHeld(k) /\ VerifyHeld(k)
    BY <1>2, <2>1 DEF SearchInv
  <2> QED
    BY <1>1, <2>1, <2>2
<1>4. ASSUME verified' \/ (\E p \in Copiers : copy'[p].steady) PROVE PutsCurrent'
  <2>1. PutsCurrent
    BY <1>2, <1>4 DEF SearchInv
  <2>2. ASSUME NEW p \in Copiers, copy'[p].at = "put" PROVE Agree(copy[p].rows)'
    <3>1. PICK rows : rows = copy'[p].rows
      OBVIOUS
    <3>2. Agree(rows)
      BY <1>2, <2>1, <2>2, <3>1 DEF PutsCurrent
    <3> QED
      BY <1>1, <3>1, <3>2
  <2> QED
    BY <2>2 DEF PutsCurrent
<1>5. SearchHeld(phraseSearch)'
  BY DEF SearchInv, SearchHeld
<1> QED
  BY <1>1, <1>3, <1>4, <1>5 DEF SearchInv

LEMMA SearchStep == DocumentsTyped /\ SearchInv /\ [DocumentsNext]_documentVars => SearchInv'
<1> SUFFICES ASSUME DocumentsTyped, SearchInv, [DocumentsNext]_documentVars PROVE SearchInv'
  OBVIOUS
<1>0. /\ IsFiniteSet(DOMAIN table) /\ DOMAIN table \subseteq Nat
      /\ IsFiniteSet(DOMAIN points) /\ DOMAIN points \subseteq Nat
      /\ DOMAIN phraseSearch = {"at", "phrase", "type", "verified", "rows"}
      /\ verified \in BOOLEAN /\ phraseSearch.verified \in BOOLEAN
      /\ DOMAIN copy = Copiers
      /\ \A o \in Copiers : CopyTyped(copy[o])
      /\ \A o \in Copiers : DOMAIN copy[o] =
           {"at", "picked", "last", "count", "expected", "rows", "upto", "steady"}
  BY DEF DocumentsTyped, CopyTyped
<1>a. /\ DOMAIN points \subseteq DOMAIN table
      /\ \A o \in Copiers : BuildHeld(copy[o]) /\ VerifyHeld(copy[o])
      /\ verified \/ (\E o \in Copiers : copy[o].steady) => PutsCurrent
      /\ verified => Matched = DOMAIN table
      /\ SearchHeld(phraseSearch)
  BY DEF SearchInv
<1>b. \A o \in Copiers : copy[o].at \notin {"hashes", "scroll", "compare"} => ~copy[o].steady
  BY <1>a DEF VerifyHeld
<1>c. IsFiniteSet(Matched)
  BY <1>0, FS_Subset DEF Matched
\* Steps that leave the commands alone.
<1>1. ASSUME UNCHANGED <<table, points, copy, verified>>, SearchHeld(phraseSearch)' PROVE SearchInv'
  BY <1>1, <1>a DEF SearchInv, BuildHeld, VerifyHeld, PutsCurrent, Agree, Matched
<1>2. CASE UNCHANGED <<table, points, copy, verified, phraseSearch>>
  BY <1>1, <1>2, <1>a DEF SearchHeld
<1>3. CASE StartSearch
  <2>1. PICK phrase \in Phrases, type \in {"", "law"} :
          phraseSearch' = [at |-> "found", phrase |-> phrase, type |-> type,
                           verified |-> verified, rows |-> << >>]
    BY <1>3 DEF StartSearch
  <2>2. UNCHANGED <<table, points, copy, verified>>
    BY <1>3 DEF StartSearch
  <2>3. SearchHeld(phraseSearch)'
    BY <2>1, <2>2 DEF SearchHeld
  <2> QED
    BY <1>1, <2>2, <2>3
<1>4. CASE ScrollPhrase
  <2>1. PICK rows : rows =
          [d \in {e \in DOMAIN points : /\ phraseSearch.phrase \in points[e].text
                                       /\ phraseSearch.type \in {"", points[e].type}} |-> points[d]]
    OBVIOUS
  <2>2. /\ UNCHANGED <<table, points, copy, verified>>
        /\ phraseSearch' = [phraseSearch EXCEPT !.at = "read", !.rows = rows]
    BY <1>4, <2>1 DEF ScrollPhrase
  <2>3. /\ phraseSearch'.phrase = phraseSearch.phrase /\ phraseSearch'.type = phraseSearch.type
        /\ phraseSearch'.verified = phraseSearch.verified /\ phraseSearch'.rows = rows
    BY <1>0, <2>2
  <2>4. \A d \in DOMAIN rows : phraseSearch.phrase \in rows[d].text
    BY <2>1
  <2>5. ASSUME phraseSearch.type = "", phraseSearch.verified
        PROVE  DOMAIN rows = {d \in DOMAIN table : phraseSearch.phrase \in table[d].text}
    <3>1. Matched = DOMAIN table
      BY <1>a, <2>5 DEF SearchHeld
    <3>2. DOMAIN points = DOMAIN table /\ \A d \in DOMAIN table : points[d].text = table[d].text
      BY <1>a, <3>1 DEF Matched
    <3>3. DOMAIN rows = {e \in DOMAIN points : phraseSearch.phrase \in points[e].text}
      BY <2>1, <2>5
    <3> QED
      BY <3>2, <3>3
  <2>6. SearchHeld(phraseSearch)'
    <3>1. phraseSearch'.verified => verified'
      BY <1>a, <2>2, <2>3 DEF SearchHeld
    <3>2. PICK s : s = phraseSearch'
      OBVIOUS
    <3>3. /\ \A d \in DOMAIN s.rows : s.phrase \in s.rows[d].text
          /\ s.type = "" /\ s.verified =>
               DOMAIN s.rows = {d \in DOMAIN table' : s.phrase \in table'[d].text}
      BY <2>2, <2>3, <2>4, <2>5, <3>2
    <3> QED
      BY <3>1, <3>2, <3>3 DEF SearchHeld
  <2> QED
    BY <1>1, <2>2, <2>6
<1>5. CASE ReadFound
  <2>1. UNCHANGED <<table, points, copy, verified>> /\ phraseSearch.at = "read"
    BY <1>5 DEF ReadFound
  <2>2. PICK found : found = DOMAIN phraseSearch.rows
    OBVIOUS
  <2>3. PICK rows : rows = [d \in found |-> table[d]]
    OBVIOUS
  <2>4. \/ phraseSearch' = NoSearch
        \/ /\ phraseSearch' = [phraseSearch EXCEPT !.at = "answered", !.rows = rows]
           /\ \A d \in found : table[d].text = phraseSearch.rows[d].text
    BY <1>5, <2>2, <2>3 DEF ReadFound
  <2>5. CASE phraseSearch' = NoSearch
    <3>1. SearchHeld(phraseSearch)'
      BY <2>5 DEF SearchHeld, NoSearch
    <3> QED
      BY <1>1, <2>1, <3>1
  <2>6. CASE /\ phraseSearch' = [phraseSearch EXCEPT !.at = "answered", !.rows = rows]
             /\ \A d \in found : table[d].text = phraseSearch.rows[d].text
    <3>1. /\ phraseSearch'.phrase = phraseSearch.phrase /\ phraseSearch'.type = phraseSearch.type
          /\ phraseSearch'.verified = phraseSearch.verified /\ phraseSearch'.rows = rows
      BY <1>0, <2>6
    <3>2. DOMAIN rows = found /\ \A d \in found : rows[d].text = phraseSearch.rows[d].text
      BY <2>3, <2>6
    <3>3. /\ phraseSearch.verified => verified
          /\ \A d \in found : phraseSearch.phrase \in phraseSearch.rows[d].text
          /\ phraseSearch.type = "" /\ phraseSearch.verified =>
               found = {d \in DOMAIN table : phraseSearch.phrase \in table[d].text}
      BY <1>a, <2>1, <2>2 DEF SearchHeld
    <3>4. SearchHeld(phraseSearch)'
      BY <2>1, <3>1, <3>2, <3>3 DEF SearchHeld
    <3> QED
      BY <1>1, <2>1, <3>4
  <2> QED
    BY <2>4, <2>5, <2>6
<1>6. CASE RebuildStore \/ RemoveCheckpoint
  BY <1>2, <1>6 DEF RebuildStore, RemoveCheckpoint
\* Steps of a command that change neither the table nor the collection.
<1>7. ASSUME NEW o \in Copiers, NEW c, Becomes(o, c),
             UNCHANGED <<table, points, verified, phraseSearch>>,
             c = NoCopy \/ (~c.steady /\ c.at \notin {"put", "mark"})
      PROVE  SearchInv'
  <2>1. BuildHeld(c) /\ VerifyHeld(c) /\ ~c.steady /\ c.at # "put"
    BY <1>7, NoCopyHeld DEF BuildHeld, VerifyHeld
  <2> QED
    BY <1>7, <2>1, OneKnows
<1>8. ASSUME NEW o \in Copiers, StartUpload(o) PROVE SearchInv'
  <2>1. PICK picked :
          Becomes(o, [NoCopy EXCEPT !.at = "batch", !.picked = picked, !.last = uploaded.last])
    BY <1>8 DEF StartUpload
  <2>2. PICK c : c = [NoCopy EXCEPT !.at = "batch", !.picked = picked, !.last = uploaded.last]
    OBVIOUS
  <2>3. ~c.steady /\ c.at = "batch"
    BY <2>2 DEF NoCopy
  <2> QED
    BY <1>7, <1>8, <2>1, <2>2, <2>3 DEF StartUpload
<1>9. ASSUME NEW o \in Copiers, ReadDocuments(o) PROVE SearchInv'
  <2>1. PICK rows : rows = [d \in UploadIds(o) \intersect DOMAIN StoreOf[store] |-> StoreOf[store][d]]
    OBVIOUS
  <2>2. PICK upto : Becomes(o, [copy[o] EXCEPT !.at = "send", !.upto = upto, !.rows = rows])
    BY <1>9, <2>1 DEF ReadDocuments
  <2>3. PICK c : c = [copy[o] EXCEPT !.at = "send", !.upto = upto, !.rows = rows]
    OBVIOUS
  <2>4. c.at = "send" /\ c.steady = copy[o].steady
    BY <1>0, <2>3
  <2>5. copy[o].at = "batch" /\ UNCHANGED <<table, points, verified, phraseSearch>>
    BY <1>9 DEF ReadDocuments
  <2> QED
    BY <1>7, <1>b, <2>2, <2>3, <2>4, <2>5
<1>10. ASSUME NEW o \in Copiers, SaveUpload(o) PROVE SearchInv'
  <2>1. PICK c : c = [copy[o] EXCEPT !.at = "batch", !.last = copy[o].upto, !.rows = << >>,
                                !.count = @ + Cardinality(DOMAIN copy[o].rows)]
    OBVIOUS
  <2>2. /\ copy[o].at = "save" /\ Becomes(o, c)
        /\ UNCHANGED <<table, points, verified, phraseSearch>>
    BY <1>10, <2>1 DEF SaveUpload
  <2>3. c.at = "batch" /\ c.steady = copy[o].steady
    BY <1>0, <2>1
  <2> QED
    BY <1>7, <1>b, <2>2, <2>3
<1>11. ASSUME NEW o \in Copiers, EndUpload(o) \/ KillCopy(o) PROVE SearchInv'
  <2>1. Becomes(o, NoCopy) /\ UNCHANGED <<table, points, verified, phraseSearch>>
    BY <1>11 DEF EndUpload, KillCopy
  <2> QED
    BY <1>7, <2>1
<1>12. ASSUME NEW o \in Copiers, StartIndex(o) PROVE SearchInv'
  <2>1. PICK c : c = [NoCopy EXCEPT !.at = "page", !.expected = Cardinality(DOMAIN table),
                               !.last = indexed.last, !.count = indexed.count]
    OBVIOUS
  <2>2. Becomes(o, c)
    BY <1>12, <2>1 DEF StartIndex
  <2>3. ~c.steady /\ c.at = "page"
    BY <2>1 DEF NoCopy
  <2> QED
    BY <1>7, <1>12, <2>2, <2>3 DEF StartIndex
<1>13. ASSUME NEW o \in Copiers, ReadPage(o) PROVE SearchInv'
  <2>1. PICK page : page = Page(DOMAIN table, copy[o].last, PageRows)
    OBVIOUS
  <2>2. PICK rows : rows = [d \in page |-> table[d]]
    OBVIOUS
  <2>3. PICK c \in {[copy[o] EXCEPT !.at = "put", !.rows = rows], [copy[o] EXCEPT !.at = "built"],
                    NoCopy} : Becomes(o, c)
    BY <1>13, <2>1, <2>2 DEF ReadPage
  <2>4. copy[o].at = "page" /\ UNCHANGED <<table, points, verified, phraseSearch>>
    BY <1>13 DEF ReadPage
  <2>5. page \subseteq DOMAIN table
    BY <2>1 DEF Page
  <2>6. CASE c = [copy[o] EXCEPT !.at = "put", !.rows = rows]
    <3>1. c.at = "put" /\ c.rows = rows /\ ~c.steady
      BY <1>0, <1>b, <2>4, <2>6
    <3>2. DOMAIN rows \subseteq DOMAIN table /\ Agree(rows)
      BY <2>2, <2>5 DEF Agree
    <3>3. BuildHeld(c) /\ VerifyHeld(c)
      BY <3>1, <3>2 DEF BuildHeld, VerifyHeld
    <3> QED
      BY <2>3, <2>4, <3>1, <3>2, <3>3, OneKnows
  <2>7. CASE c = [copy[o] EXCEPT !.at = "built"]
    <3>1. c.at = "built" /\ ~c.steady
      BY <1>0, <1>b, <2>4, <2>7
    <3> QED
      BY <1>7, <2>3, <2>4, <3>1
  <2> QED
    BY <1>7, <2>3, <2>4, <2>6, <2>7
<1>14. ASSUME NEW o \in Copiers, SaveIndexed(o) PROVE SearchInv'
  <2>1. PICK count : count = copy[o].count + Cardinality(DOMAIN copy[o].rows)
    OBVIOUS
  <2>2. /\ copy[o].at = "mark" /\ UNCHANGED <<table, points, verified, phraseSearch>>
        /\ \E last : \/ Becomes(o, [copy[o] EXCEPT !.at = "page", !.last = last, !.count = count,
                                                   !.rows = << >>])
                     \/ Becomes(o, NoCopy)
    BY <1>14, <2>1 DEF SaveIndexed
  <2>3. ASSUME NEW last,
               Becomes(o, [copy[o] EXCEPT !.at = "page", !.last = last, !.count = count, !.rows = << >>])
        PROVE  SearchInv'
    <3>1. PICK c : c = [copy[o] EXCEPT !.at = "page", !.last = last, !.count = count, !.rows = << >>]
      OBVIOUS
    <3>2. c.at = "page" /\ ~c.steady
      BY <1>0, <1>b, <2>2, <3>1
    <3> QED
      BY <1>7, <2>2, <2>3, <3>1, <3>2
  <2> QED
    BY <1>7, <2>2, <2>3
\* The verification.
<1>15. ASSUME NEW o \in Copiers, StartVerify(o) PROVE SearchInv'
  <2>1. PICK steady : steady = \A p \in Copiers \ {o} : copy[p].at = "put" =>
                    \A d \in DOMAIN copy[p].rows : copy[p].rows[d].text = table[d].text
    OBVIOUS
  <2>2. PICK c : c = [NoCopy EXCEPT !.at = "hashes", !.expected = Cardinality(DOMAIN table),
                                    !.steady = steady]
    OBVIOUS
  <2>3. /\ Becomes(o, c) /\ copy[o].at \in {"built", "idle"}
        /\ UNCHANGED <<table, points, verified, phraseSearch>>
    BY <1>15, <2>1, <2>2 DEF StartVerify
  <2>4. /\ c.at = "hashes" /\ c.expected = Cardinality(DOMAIN table) /\ c.rows = << >>
        /\ c.count = 0 /\ c.steady = steady
    BY <2>2 DEF NoCopy
  <2>5. ASSUME steady PROVE PutsCurrent
    <3>1. ASSUME NEW p \in Copiers, copy[p].at = "put" PROVE Agree(copy[p].rows)
      <4>1. p # o /\ DOMAIN copy[p].rows \subseteq DOMAIN table
        BY <1>a, <2>3, <3>1 DEF BuildHeld
      <4> QED
        BY <2>1, <2>5, <3>1, <4>1 DEF Agree
    <3> QED
      BY <3>1 DEF PutsCurrent
  <2>6. BuildHeld(c) /\ VerifyHeld(c)
    BY <2>4 DEF BuildHeld, VerifyHeld, Agree
  <2> QED
    BY <2>3, <2>4, <2>5, <2>6, OneKnows
<1>16. ASSUME NEW o \in Copiers, ReadHashes(o) PROVE SearchInv'
  <2>1. PICK page : page = Page(DOMAIN table, copy[o].last, PageRows)
    OBVIOUS
  <2>2. PICK read : read = [d \in page |-> table[d]]
    OBVIOUS
  <2>3. PICK rows : rows = Merge(read, copy[o].rows)
    OBVIOUS
  <2>4. PICK last : \/ Becomes(o, [copy[o] EXCEPT !.rows = rows, !.last = last])
                    \/ /\ Becomes(o, [copy[o] EXCEPT !.at = "scroll", !.last = 0])
                       /\ Cardinality(DOMAIN copy[o].rows) = copy[o].expected
                    \/ Becomes(o, NoCopy)
    BY <1>16, <2>1, <2>2, <2>3 DEF ReadHashes
  <2>5. copy[o].at = "hashes" /\ UNCHANGED <<table, points, verified, phraseSearch>>
    BY <1>16 DEF ReadHashes
  <2>6. copy[o].steady => /\ Agree(copy[o].rows) /\ copy[o].expected = Cardinality(DOMAIN table)
                          /\ copy[o].count = 0 /\ PutsCurrent
    BY <1>a, <2>5 DEF VerifyHeld
  <2>7. CASE Becomes(o, [copy[o] EXCEPT !.rows = rows, !.last = last])
    <3>1. PICK c : c = [copy[o] EXCEPT !.rows = rows, !.last = last]
      OBVIOUS
    <3>2. /\ c.at = "hashes" /\ c.rows = rows /\ c.steady = copy[o].steady
          /\ c.count = copy[o].count /\ c.expected = copy[o].expected
      BY <1>0, <2>5, <3>1
    <3>3. ASSUME Agree(copy[o].rows) PROVE Agree(rows)
      <4>1. /\ DOMAIN rows = page \union DOMAIN copy[o].rows
            /\ \A d \in page : rows[d] = table[d]
            /\ \A d \in DOMAIN copy[o].rows \ page : rows[d] = copy[o].rows[d]
        <5>1. DOMAIN read = page /\ \A d \in page : read[d] = table[d]
          BY <2>2
        <5> QED
          BY <2>3, <5>1 DEF Merge
      <4>2. page \subseteq DOMAIN table
        BY <2>1 DEF Page
      <4> QED
        BY <3>3, <4>1, <4>2 DEF Agree
    <3>4. BuildHeld(c) /\ VerifyHeld(c)
      BY <2>6, <3>2, <3>3 DEF BuildHeld, VerifyHeld
    <3> QED
      BY <2>5, <2>6, <2>7, <3>1, <3>2, <3>4, OneKnows
  <2>8. CASE /\ Becomes(o, [copy[o] EXCEPT !.at = "scroll", !.last = 0])
             /\ Cardinality(DOMAIN copy[o].rows) = copy[o].expected
    <3>1. PICK c : c = [copy[o] EXCEPT !.at = "scroll", !.last = 0]
      OBVIOUS
    <3>2. /\ c.at = "scroll" /\ c.rows = copy[o].rows /\ c.steady = copy[o].steady
          /\ c.count = copy[o].count /\ c.expected = copy[o].expected /\ c.last = 0
      BY <1>0, <3>1
    <3>3. ASSUME copy[o].steady PROVE DOMAIN copy[o].rows = DOMAIN table
      <4>1. DOMAIN copy[o].rows \subseteq DOMAIN table
        BY <2>6, <3>3 DEF Agree
      <4>2. Cardinality(DOMAIN table) = Cardinality(DOMAIN copy[o].rows)
        BY <2>6, <2>8, <3>3
      <4> QED
        BY <1>0, <4>1, <4>2, FS_Subset
    <3>4. 0 <= Cardinality({d \in Matched : d <= 0})
      <4>1. IsFiniteSet({d \in Matched : d <= 0})
        BY <1>c, FS_Subset
      <4> QED
        BY <4>1, FS_CardinalityType
    <3>5. BuildHeld(c) /\ VerifyHeld(c)
      BY <2>6, <3>2, <3>3, <3>4 DEF BuildHeld, VerifyHeld
    <3> QED
      BY <2>5, <2>6, <2>8, <3>1, <3>2, <3>5, OneKnows
  <2> QED
    BY <1>7, <2>4, <2>5, <2>7, <2>8
<1>17. ASSUME NEW o \in Copiers, ScrollPoints(o) PROVE SearchInv'
  <2>1. PICK page, seen : /\ page = Page(DOMAIN points, copy[o].last, PageRows)
                          /\ seen = copy[o].count + Cardinality(page)
    OBVIOUS
  <2>2. PICK last \in LastIn(page), at \in {"scroll", "compare"} :
          \/ /\ Becomes(o, [copy[o] EXCEPT !.count = seen, !.last = last, !.at = at])
             /\ \A d \in page : PointMatches(o, d)
             /\ at = IF \E d \in DOMAIN points : d > last /\ page # {} THEN "scroll" ELSE "compare"
          \/ Becomes(o, NoCopy)
    BY <1>17, <2>1 DEF ScrollPoints
  <2>3. copy[o].at = "scroll" /\ UNCHANGED <<table, points, verified, phraseSearch>>
    BY <1>17 DEF ScrollPoints
  <2>4. CASE /\ Becomes(o, [copy[o] EXCEPT !.count = seen, !.last = last, !.at = at])
             /\ \A d \in page : PointMatches(o, d)
             /\ at = IF \E d \in DOMAIN points : d > last /\ page # {} THEN "scroll" ELSE "compare"
    <3>1. PICK c : c = [copy[o] EXCEPT !.count = seen, !.last = last, !.at = at]
      OBVIOUS
    <3>2. /\ c.at = at /\ c.rows = copy[o].rows /\ c.steady = copy[o].steady
          /\ c.count = seen /\ c.expected = copy[o].expected /\ c.last = last
          /\ at \in {"scroll", "compare"}
      BY <1>0, <2>4, <3>1
    <3>3. ASSUME copy[o].steady
          PROVE  /\ PutsCurrent /\ VerifyHeld(c)
      <4>1. /\ PutsCurrent /\ Agree(copy[o].rows) /\ copy[o].expected = Cardinality(DOMAIN table)
            /\ DOMAIN copy[o].rows = DOMAIN table
            /\ copy[o].count <= Cardinality({d \in Matched : d <= copy[o].last})
        BY <1>a, <2>3, <3>3 DEF VerifyHeld
      <4>2. /\ page \subseteq {d \in DOMAIN points : copy[o].last < d} /\ IsFiniteSet(page)
            /\ copy[o].last \in Nat /\ copy[o].count \in Nat
        <5>1. copy[o].last \in Nat /\ copy[o].count \in Nat /\ PageRows \in Nat
          BY <1>0, DocumentsAssumption DEF CopyTyped
        <5> QED
          BY <1>0, <2>1, <5>1, PageInOrder
      <4>3. page \subseteq Matched
        <5> SUFFICES ASSUME NEW d \in page PROVE d \in Matched
          OBVIOUS
        <5>1. d \in DOMAIN copy[o].rows /\ points[d].text = copy[o].rows[d].text /\ d \in DOMAIN points
          BY <2>4, <4>2 DEF PointMatches
        <5> QED
          BY <4>1, <5>1 DEF Agree, Matched
      <4>4. PICK before : before = {d \in Matched : d <= copy[o].last}
        OBVIOUS
      <4>5. /\ IsFiniteSet(before) /\ before \intersect page = {}
            /\ before \union page \subseteq Matched
        <5>1. before \subseteq Matched
          BY <4>4
        <5>2. \A d \in page : d \in Nat /\ ~ (d <= copy[o].last)
          BY <1>0, <4>2
        <5> QED
          BY <1>c, <4>3, <4>4, <5>1, <5>2, FS_Subset
      <4>6. /\ Cardinality(before \union page) = Cardinality(before) + Cardinality(page)
            /\ Cardinality(before) \in Nat /\ Cardinality(page) \in Nat
        <5>1. Cardinality(before \union page) = Cardinality(before) + Cardinality(page) - Cardinality({})
          BY <4>2, <4>5, FS_Union
        <5>2. Cardinality(before) \in Nat /\ Cardinality(page) \in Nat
          BY <4>2, <4>5, FS_CardinalityType
        <5> QED
          BY <5>1, <5>2, FS_EmptySet
      <4>7. seen <= Cardinality(before \union page)
        BY <2>1, <4>1, <4>2, <4>4, <4>6
      <4>8. ASSUME NEW held \in SUBSET Matched, before \union page \subseteq held
            PROVE  seen <= Cardinality(held)
        <5>1. IsFiniteSet(held)
          BY <1>c, FS_Subset
        <5>2. Cardinality(before \union page) <= Cardinality(held) /\ Cardinality(held) \in Nat
          BY <4>8, <5>1, FS_Subset, FS_CardinalityType
        <5>3. seen \in Nat
          BY <2>1, <4>2, <4>6
        <5> QED
          BY <4>6, <4>7, <5>2, <5>3
      <4>9. seen <= Cardinality(Matched)
        BY <4>5, <4>8
      <4>10. at = "scroll" => seen <= Cardinality({d \in Matched : d <= last})
        <5> SUFFICES ASSUME at = "scroll" PROVE seen <= Cardinality({d \in Matched : d <= last})
          OBVIOUS
        <5>1. page # {} /\ page \subseteq Nat
          BY <1>0, <2>4, <4>2
        <5>2. last \in page /\ last \in Nat /\ \A d \in page : d <= last
          BY <5>1 DEF LastIn
        <5>3. copy[o].last < last /\ (\A d \in before : d \in Nat /\ d <= copy[o].last)
          BY <1>0, <4>2, <4>4, <5>2 DEF Matched
        <5>4. before \union page \subseteq {d \in Matched : d <= last}
          <6>1. ASSUME NEW d \in page PROVE d \in Matched /\ d <= last
            BY <4>3, <5>2, <6>1
          <6>2. ASSUME NEW d \in before PROVE d \in Matched /\ d <= last
            BY <4>2, <4>4, <5>2, <5>3, <6>2
          <6> QED
            BY <6>1, <6>2
        <5> QED
          BY <4>8, <5>4
      <4> QED
        BY <3>2, <4>1, <4>9, <4>10 DEF VerifyHeld
    <3>4. BuildHeld(c) /\ VerifyHeld(c)
      BY <3>2, <3>3 DEF BuildHeld, VerifyHeld
    <3> QED
      BY <2>3, <2>4, <3>1, <3>2, <3>3, <3>4, OneKnows
  <2> QED
    BY <1>7, <2>2, <2>3, <2>4
<1>18. ASSUME NEW o \in Copiers, EndVerify(o) PROVE SearchInv'
  <2>1. PICK whole : whole = (/\ copy[o].count = copy[o].expected
                             /\ Cardinality(DOMAIN points) = copy[o].expected)
    OBVIOUS
  <2>2. /\ copy[o].at = "compare" /\ verified' = (verified \/ (whole /\ copy[o].steady))
        /\ Becomes(o, NoCopy) /\ UNCHANGED <<table, points, phraseSearch>>
    BY <1>18, <2>1 DEF EndVerify
  <2>3. ASSUME verified' PROVE Matched = DOMAIN table /\ PutsCurrent
    <3>1. CASE verified
      BY <1>a, <3>1
    <3>2. CASE whole /\ copy[o].steady
      <4>1. /\ PutsCurrent /\ copy[o].expected = Cardinality(DOMAIN table)
            /\ copy[o].count <= Cardinality(Matched)
        BY <1>a, <2>2, <3>2 DEF VerifyHeld
      <4>2. Matched \subseteq DOMAIN table
        BY DEF Matched
      <4>3. /\ Cardinality(Matched) <= Cardinality(DOMAIN table)
            /\ Cardinality(Matched) \in Nat /\ Cardinality(DOMAIN table) \in Nat
        BY <1>0, <1>c, <4>2, FS_Subset, FS_CardinalityType
      <4>4. Cardinality(DOMAIN table) = Cardinality(Matched)
        <5>1. copy[o].count = Cardinality(DOMAIN table)
          BY <2>1, <3>2, <4>1
        <5>2. PICK n, k : n = Cardinality(DOMAIN table) /\ k = Cardinality(Matched)
          OBVIOUS
        <5>3. n \in Nat /\ k \in Nat /\ n <= k /\ k <= n
          BY <4>1, <4>3, <5>1, <5>2
        <5> QED
          BY <5>2, <5>3
      <4> QED
        BY <1>0, <4>1, <4>2, <4>4, FS_Subset
    <3> QED
      BY <2>2, <2>3, <3>1, <3>2
  <2>4. /\ Matched' = Matched
        /\ \A rows : Agree(rows) => Agree(rows)'
        /\ \A c : BuildHeld(c) => BuildHeld(c)'
        /\ \A c : VerifyHeld(c) => VerifyHeld(c)'
    BY <2>2, SameTexts
  <2>5. \A p \in Copiers : copy'[p] = IF p = o THEN NoCopy ELSE copy[p]
    BY <2>2, OneCopy
  <2>6. ASSUME NEW p \in Copiers PROVE BuildHeld(copy[p])' /\ VerifyHeld(copy[p])'
    <3>1. PICK k : k = copy'[p]
      OBVIOUS
    <3>2. BuildHeld(k) /\ VerifyHeld(k)
      BY <1>a, <2>5, <3>1, NoCopyHeld
    <3> QED
      BY <2>4, <3>1, <3>2
  <2>7. ASSUME verified' \/ (\E p \in Copiers : copy'[p].steady) PROVE PutsCurrent'
    <3>1. PutsCurrent
      BY <1>a, <2>3, <2>5, <2>7, NoCopyHeld
    <3>2. ASSUME NEW p \in Copiers, copy'[p].at = "put" PROVE Agree(copy[p].rows)'
      <4>1. PICK rows : rows = copy'[p].rows
        OBVIOUS
      <4>2. Agree(rows)
        BY <2>5, <3>1, <3>2, <4>1, NoCopyHeld DEF PutsCurrent
      <4> QED
        BY <2>4, <4>1, <4>2
    <3> QED
      BY <3>2 DEF PutsCurrent
  <2>8. SearchHeld(phraseSearch)'
    BY <1>a, <2>2 DEF SearchHeld
  <2> QED
    BY <1>a, <2>2, <2>3, <2>4, <2>6, <2>7, <2>8 DEF SearchInv
\* The steps that write.
<1>19. ASSUME NEW o \in Copiers, PutPage(o) PROVE SearchInv'
  <2>1. PICK c \in {[copy[o] EXCEPT !.at = "mark"], NoCopy} : Becomes(o, c)
    BY <1>19 DEF PutPage
  <2>2. /\ copy[o].at = "put" /\ UNCHANGED <<table, verified, phraseSearch>>
        /\ points' \in {points, Merge(copy[o].rows, points)}
    BY <1>19 DEF PutPage
  <2>3. BuildHeld(c) /\ ~c.steady /\ c.at # "put"
    <3>1. CASE c = [copy[o] EXCEPT !.at = "mark"]
      <4>1. c.at = "mark" /\ c.rows = copy[o].rows /\ c.steady = copy[o].steady
        BY <1>0, <3>1
      <4> QED
        BY <1>a, <1>b, <2>2, <4>1 DEF BuildHeld
    <3>2. CASE c = NoCopy
      BY <3>2, NoCopyHeld
    <3> QED
      BY <2>1, <3>1, <3>2
  <2>4. DOMAIN copy[o].rows \subseteq DOMAIN table
    BY <1>a, <2>2 DEF BuildHeld
  <2>5. /\ DOMAIN points' \subseteq DOMAIN points \union DOMAIN copy[o].rows
        /\ DOMAIN points \subseteq DOMAIN points'
        /\ \A d \in DOMAIN points :
             points'[d] = points[d] \/ (d \in DOMAIN copy[o].rows /\ points'[d] = copy[o].rows[d])
    <3>1. CASE points' = points
      BY <3>1
    <3>2. CASE points' = Merge(copy[o].rows, points)
      BY <3>2 DEF Merge
    <3> QED
      BY <2>2, <3>1, <3>2
  <2>6. ASSUME PutsCurrent PROVE Matched \subseteq Matched'
    <3>1. Agree(copy[o].rows)
      BY <2>2, <2>6 DEF PutsCurrent
    <3> QED
      BY <2>2, <2>5, <3>1 DEF Agree, Matched
  <2>7. DOMAIN points' \subseteq DOMAIN table' /\ IsFiniteSet(Matched')
    <3>1. DOMAIN points' \subseteq DOMAIN table'
      BY <1>a, <2>2, <2>4, <2>5
    <3>2. Matched' \subseteq DOMAIN table
      BY <2>2 DEF Matched
    <3> QED
      BY <1>0, <3>1, <3>2, FS_Subset
  <2>8. \A p \in Copiers : copy'[p] = IF p = o THEN c ELSE copy[p]
    BY <2>1, OneCopy
  <2>9. ASSUME NEW p \in Copiers PROVE BuildHeld(copy[p])' /\ VerifyHeld(copy[p])'
    <3>1. PICK k : k = copy'[p]
      OBVIOUS
    <3>2. BuildHeld(k) /\ (k.steady => p # o /\ k = copy[p] /\ VerifyHeld(k))
      BY <1>a, <2>3, <2>8, <3>1
    <3>3. BuildHeld(k)'
      BY <2>2, <3>2 DEF BuildHeld
    <3>4. VerifyHeld(k)'
      <4> SUFFICES ASSUME k.steady PROVE VerifyHeld(k)'
        BY DEF VerifyHeld
      <4>1. Matched \subseteq Matched' /\ VerifyHeld(k) /\ k.count \in Nat
        BY <1>0, <1>a, <2>6, <3>2 DEF CopyTyped
      <4>2. ASSUME NEW held, NEW more, IsFiniteSet(more), held \subseteq more,
                   k.count <= Cardinality(held)
            PROVE  k.count <= Cardinality(more)
        <5>1. /\ Cardinality(held) <= Cardinality(more) /\ Cardinality(more) \in Nat
              /\ Cardinality(held) \in Nat
          BY <4>2, FS_Subset, FS_CardinalityType
        <5> QED
          BY <4>1, <4>2, <5>1
      <4>3. k.at = "compare" => k.count <= Cardinality(Matched')
        BY <2>7, <4>1, <4>2 DEF VerifyHeld
      <4>4. k.at = "scroll" => k.count <= Cardinality({d \in Matched' : d <= k.last})
        <5>1. IsFiniteSet({d \in Matched' : d <= k.last})
          BY <2>7, FS_Subset
        <5>2. {d \in Matched : d <= k.last} \subseteq {d \in Matched' : d <= k.last}
          BY <4>1
        <5> QED
          BY <4>1, <4>2, <5>1, <5>2 DEF VerifyHeld
      <4>5. Agree(k.rows)'
        BY <2>2, <4>1 DEF VerifyHeld, Agree
      <4> QED
        BY <2>2, <4>1, <4>3, <4>4, <4>5 DEF VerifyHeld
    <3> QED
      BY <3>1, <3>3, <3>4
  <2>10. ASSUME verified' \/ (\E p \in Copiers : copy'[p].steady) PROVE PutsCurrent'
    <3>1. PutsCurrent
      BY <1>a, <2>2, <2>3, <2>8, <2>10
    <3>2. ASSUME NEW p \in Copiers, copy'[p].at = "put" PROVE Agree(copy[p].rows)'
      <4>1. PICK rows : rows = copy'[p].rows
        OBVIOUS
      <4>2. Agree(rows)
        BY <2>3, <2>8, <3>1, <3>2, <4>1 DEF PutsCurrent
      <4> QED
        BY <2>2, <4>1, <4>2 DEF Agree
    <3> QED
      BY <3>2 DEF PutsCurrent
  <2>11. verified' => Matched' = DOMAIN table'
    <3> SUFFICES ASSUME verified PROVE Matched' = DOMAIN table
      BY <2>2
    <3>1. Matched = DOMAIN table /\ Matched \subseteq Matched'
      BY <1>a, <2>6
    <3>2. Matched' \subseteq DOMAIN table
      BY <2>2 DEF Matched
    <3> QED
      BY <3>1, <3>2
  <2>12. SearchHeld(phraseSearch)'
    BY <1>a, <2>2 DEF SearchHeld
  <2> QED
    BY <2>7, <2>9, <2>10, <2>11, <2>12 DEF SearchInv
<1>20. ASSUME NEW o \in Copiers, SendDocuments(o) PROVE SearchInv'
  <2>1. PICK rows, next :
          /\ UpsertRows(o, rows, next)
          /\ \/ rows = copy[o].rows /\ next = [copy[o] EXCEPT !.at = "save"]
             \/ rows \in {copy[o].rows, << >>} /\ next = NoCopy
    BY <1>20 DEF SendDocuments
  <2>2. CopyTyped(next) /\ IsFiniteSet(DOMAIN rows) /\ DOMAIN rows \subseteq Nat
    <3>1. IsFiniteSet(DOMAIN << >>) /\ DOMAIN << >> \subseteq Nat
      BY FS_EmptySet
    <3> QED
      BY <1>0, <2>1, <3>1, NoCopyTyped DEF CopyTyped
  <2>3. ~next.steady /\ next.at \in {"save", "idle"}
    <3>1. copy[o].at = "send"
      BY <1>20 DEF SendDocuments
    <3>2. CASE next = [copy[o] EXCEPT !.at = "save"]
      BY <1>0, <1>b, <3>1, <3>2
    <3> QED
      BY <2>1, <3>2, NoCopyHeld
  <2>4. DOMAIN table \subseteq DOMAIN table' /\ points' = points
    <3>1. points' = points
      BY <2>1 DEF UpsertRows
    <3> QED
      BY <2>1, <2>2, <3>1, UpsertTyped
  <2>5. PICK same : same = (Texts(table') = Texts(table))
    OBVIOUS
  <2>6. /\ same \in BOOLEAN
        /\ verified' = (verified /\ same)
        /\ phraseSearch' = [phraseSearch EXCEPT !.verified = @ /\ same]
        /\ copy' = [p \in Copiers |-> LET c == IF p = o THEN next ELSE copy[p]
                                      IN  [c EXCEPT !.steady = @ /\ same]]
    BY <2>1, <2>5 DEF UpsertRows
  <2>7. ASSUME NEW p \in Copiers, NEW c, c = IF p = o THEN next ELSE copy[p]
        PROVE  /\ copy'[p].at = c.at /\ copy'[p].last = c.last
               /\ copy'[p].count = c.count /\ copy'[p].expected = c.expected
               /\ copy'[p].rows = c.rows
               /\ copy'[p].steady = (c.steady /\ same)
    <3>1. CopyTyped(c)
      BY <1>0, <2>2, <2>7
    <3>2. copy'[p] = [c EXCEPT !.steady = c.steady /\ same]
      BY <2>6, <2>7
    <3> QED
      BY <3>1, <3>2 DEF CopyTyped
  <2>8. /\ phraseSearch'.at = phraseSearch.at /\ phraseSearch'.phrase = phraseSearch.phrase
        /\ phraseSearch'.type = phraseSearch.type /\ phraseSearch'.rows = phraseSearch.rows
        /\ phraseSearch'.verified = (phraseSearch.verified /\ same)
    BY <1>0, <2>6
  <2>9. ASSUME same
        PROVE  /\ DOMAIN table' = DOMAIN table
               /\ \A d \in DOMAIN table : table'[d].text = table[d].text
    <3>1. [d \in DOMAIN table' |-> table'[d].text] = [d \in DOMAIN table |-> table[d].text]
      BY <2>5, <2>9 DEF Texts
    <3>2. DOMAIN table' = DOMAIN table
      BY <3>1
    <3>3. ASSUME NEW d \in DOMAIN table PROVE table'[d].text = table[d].text
      BY <3>1, <3>2
    <3> QED
      BY <3>2, <3>3
  <2>10. ASSUME NEW p \in Copiers PROVE BuildHeld(copy[p])' /\ VerifyHeld(copy[p])'
    <3>1. PICK k, c : k = copy'[p] /\ c = IF p = o THEN next ELSE copy[p]
      OBVIOUS
    <3>2. /\ k.at = c.at /\ k.last = c.last /\ k.count = c.count /\ k.expected = c.expected
          /\ k.rows = c.rows /\ k.steady = (c.steady /\ same)
      BY <2>7, <3>1
    <3>3. BuildHeld(c) /\ VerifyHeld(c)
      BY <1>a, <2>3, <3>1 DEF BuildHeld, VerifyHeld
    <3>4. BuildHeld(k)'
      BY <2>4, <3>2, <3>3 DEF BuildHeld
    <3>5. VerifyHeld(k)'
      <4> SUFFICES ASSUME k.steady PROVE VerifyHeld(k)'
        BY DEF VerifyHeld
      <4>1. same /\ c.steady
        BY <3>2
      <4>2. VerifyHeld(c)'
        BY <2>4, <2>9, <3>3, <4>1, SameTexts
      <4> QED
        BY <3>2, <4>1, <4>2 DEF VerifyHeld
    <3> QED
      BY <3>1, <3>4, <3>5
  <2>11. ASSUME verified' \/ (\E p \in Copiers : copy'[p].steady) PROVE PutsCurrent'
    <3>1. same /\ PutsCurrent
      <4>1. CASE verified'
        BY <1>a, <2>6, <4>1
      <4>2. ASSUME NEW p \in Copiers, copy'[p].steady PROVE same /\ PutsCurrent
        <5>1. PICK c : c = IF p = o THEN next ELSE copy[p]
          OBVIOUS
        <5>2. c.steady /\ same
          BY <2>7, <4>2, <5>1
        <5> QED
          BY <1>a, <2>3, <5>1, <5>2
      <4> QED
        BY <2>11, <4>1, <4>2
    <3>2. ASSUME NEW p \in Copiers, copy'[p].at = "put" PROVE Agree(copy[p].rows)'
      <4>1. PICK r, c : r = copy'[p].rows /\ c = IF p = o THEN next ELSE copy[p]
        OBVIOUS
      <4>2. c.at = "put" /\ r = c.rows
        BY <2>7, <3>2, <4>1
      <4>3. Agree(r)
        BY <2>3, <3>1, <4>1, <4>2 DEF PutsCurrent
      <4>4. Agree(r)'
        BY <2>4, <2>9, <3>1, <4>3, SameTexts
      <4> QED
        BY <4>1, <4>4
    <3> QED
      BY <3>2 DEF PutsCurrent
  <2>12. verified' => Matched' = DOMAIN table'
    BY <1>a, <2>4, <2>6, <2>9, SameTexts
  <2>13. SearchHeld(phraseSearch)'
    <3>1. PICK s : s = phraseSearch'
      OBVIOUS
    <3>2. /\ s.verified => verified'
          /\ s.at \in {"read", "answered"} => \A d \in DOMAIN s.rows : s.phrase \in s.rows[d].text
      BY <1>a, <2>6, <2>8, <3>1 DEF SearchHeld
    <3>3. ASSUME s.at \in {"read", "answered"}, s.type = "", s.verified
          PROVE  DOMAIN s.rows = {d \in DOMAIN table' : s.phrase \in table'[d].text}
      <4>1. /\ same /\ DOMAIN s.rows = {d \in DOMAIN table : s.phrase \in table[d].text}
        BY <1>a, <2>8, <3>1, <3>3 DEF SearchHeld
      <4> QED
        BY <2>9, <4>1
    <3> QED
      BY <3>1, <3>2, <3>3 DEF SearchHeld
  <2> QED
    BY <1>a, <2>4, <2>10, <2>11, <2>12, <2>13 DEF SearchInv
<1>21. CASE UNCHANGED documentVars
  BY <1>2, <1>21 DEF documentVars
<1> QED
  BY <1>3, <1>4, <1>5, <1>6, <1>8, <1>9, <1>10, <1>11, <1>12, <1>13, <1>14, <1>15, <1>16, <1>17,
     <1>18, <1>19, <1>20, <1>21 DEF DocumentsNext

LEMMA SearchInvExact == SearchInv => PhraseSearchExact
BY DEF SearchInv, SearchHeld, PhraseSearchExact

(* A search answers documents that hold its phrase, and all of them as long *)
(* as the texts of the table are those a verification read, for any        *)
(* operators, editions, pages and phrases: no build under way is about to  *)
(* write another text then, and the points that were counted are as many   *)
(* as the rows (QdrantFullDocBodySearch.search, build, verify).            *)
THEOREM PhraseSearchesExact == DocumentsSpec => []PhraseSearchExact
<1>1. DocumentsInit => DocumentsTyped /\ SearchInv
  BY InitTyped, InitSearch
<1>2. (DocumentsTyped /\ SearchInv) /\ [DocumentsNext]_documentVars => (DocumentsTyped /\ SearchInv)'
  BY TypedStep, SearchStep
<1> QED
  BY <1>1, <1>2, SearchInvExact, PTL DEF DocumentsSpec

-----------------------------------------------------------------------------
(* The lexical index                                                       *)

\* Documents with the revision of the store that has them.
StoredRows == {row \in Nat \X Revisions : row[1] \in Snapshots[row[2]].metadata}

\* A file says of itself that it has at most as many documents as it has.
FileSound(f) ==
  /\ DOMAIN f = {"body", "label", "whole", "count", "rows", "titles"}
  /\ f.rows \subseteq StoredRows /\ f.titles \subseteq StoredRows
  /\ IsFiniteSet(f.rows)
  /\ f.count \in Int /\ f.count <= Cardinality(f.rows)

\* What a build has counted is in its file, however that changed since.
BuildSound(b) ==
  /\ DOMAIN b = {"at", "revision", "on", "after", "inserted"}
  /\ b.on \in IndexFiles \union {0} /\ b.inserted \in Nat
  /\ b.at \in {"check", "idle"} => b.on = 0 /\ b.inserted = 0
  /\ b.at \in {"copy", "insert"} => b.on \in IndexFiles
  /\ b.at = "insert" => b.inserted <= Cardinality(file[b.on].rows)

\* A compaction, which replaces all of its file, has it for itself.
CopyApart ==
  \A p \in Builders : builder[p].at = "copy" =>
    /\ builder[p].on # named.building
    /\ \A q \in Builders \ {p} : builder[q].on # builder[p].on

IndexInv ==
  /\ setting \in Revisions /\ prepared \in Revisions /\ Joined(prepared)
  /\ named \in [{"index", "building", "compacting"} -> IndexFiles \union {0}]
  /\ DOMAIN file = IndexFiles /\ \A f \in IndexFiles : FileSound(file[f])
  /\ DOMAIN builder = Builders /\ \A p \in Builders : BuildSound(builder[p])
  /\ CopyApart

-----------------------------------------------------------------------------
LEMMA NoBuildSound ==
  /\ NoBuild.on = 0 /\ NoBuild.inserted = 0 /\ NoBuild.at = "idle"
  /\ DOMAIN NoBuild = {"at", "revision", "on", "after", "inserted"}
BY DEF NoBuild

LEMMA BlankSound == FileSound(Blank)
BY FS_EmptySet DEF FileSound, Blank

\* The documents of a snapshot, as rows of an index.
LEMMA SnapshotRows ==
  ASSUME NEW v \in Revisions, NEW ids \in SUBSET Snapshots[v].metadata
  PROVE  /\ IsFiniteSet(ids) /\ Cardinality(ids) \in Nat
         /\ ids \X {v} \subseteq StoredRows
         /\ IsFiniteSet(ids \X {v}) /\ Cardinality(ids \X {v}) = Cardinality(ids)
<1>1. IsFiniteSet(Snapshots[v].metadata) /\ Snapshots[v].metadata \subseteq Nat
  BY IndexAssumption
<1>2. IsFiniteSet(ids) /\ Cardinality(ids) \in Nat
  BY <1>1, FS_Subset, FS_CardinalityType
<1>3. IsFiniteSet({v}) /\ Cardinality({v}) = 1
  BY FS_Singleton
<1>4. IsFiniteSet(ids \X {v}) /\ Cardinality(ids \X {v}) = Cardinality(ids) * Cardinality({v})
  BY <1>2, <1>3, FS_Product
<1>5. ids \X {v} \subseteq StoredRows
  BY <1>1 DEF StoredRows
<1> QED
  BY <1>2, <1>3, <1>4, <1>5

\* Documents that are added leave a file sound.
LEMMA MoreRows ==
  ASSUME NEW f, FileSound(f), NEW rows \in SUBSET StoredRows, NEW titles \in SUBSET StoredRows,
         IsFiniteSet(rows)
  PROVE  LET g == [f EXCEPT !.rows = @ \union rows, !.titles = @ \union titles]
         IN  FileSound(g) /\ Cardinality(f.rows) <= Cardinality(g.rows)
<1> DEFINE g == [f EXCEPT !.rows = @ \union rows, !.titles = @ \union titles]
<1>1. /\ DOMAIN g = {"body", "label", "whole", "count", "rows", "titles"}
      /\ g.rows = f.rows \union rows /\ g.titles = f.titles \union titles /\ g.count = f.count
  BY DEF FileSound
<1>2. IsFiniteSet(g.rows) /\ f.rows \in SUBSET g.rows
  BY <1>1, FS_Union DEF FileSound
<1> HIDE DEF g
<1>3. Cardinality(f.rows) <= Cardinality(g.rows)
  BY <1>2, FS_Subset
<1>4. Cardinality(f.rows) \in Nat /\ Cardinality(g.rows) \in Nat
  BY <1>2, FS_CardinalityType DEF FileSound
<1>5. FileSound(g)
  BY <1>1, <1>2, <1>3, <1>4 DEF FileSound
<1> QED
  BY <1>3, <1>5 DEF g

LEMMA InitIndex == IndexInit => IndexInv
<1> SUFFICES ASSUME IndexInit PROVE IndexInv
  OBVIOUS
<1>1. PICK v \in Revisions : /\ Joined(v) /\ setting = v /\ prepared = v
                             /\ \/ /\ named = [index |-> 0, building |-> 0, compacting |-> 0]
                                   /\ file = [f \in IndexFiles |-> Blank]
                                \/ /\ named = [index |-> 1, building |-> 0, compacting |-> 0]
                                   /\ \E count \in {ExpectedCount, ExpectedCount - 1} :
                                        file = [f \in IndexFiles |->
                                                  IF f = 1 THEN LegacyIndex(v, count) ELSE Blank]
  BY DEF IndexInit
<1>2. builder = [p \in Builders |-> NoBuild]
  BY DEF IndexInit
<1>3. \A p \in Builders : BuildSound(builder[p])
  BY <1>2 DEF BuildSound, NoBuild
<1>4. CopyApart
  BY <1>2 DEF CopyApart, NoBuild
<1>5. 1 \in IndexFiles
  <2>1. MaxFiles \in Nat \ {0}
    BY IndexAssumption
  <2> QED
    BY <2>1 DEF IndexFiles
<1>6. CASE file = [f \in IndexFiles |-> Blank]
  BY <1>1, <1>2, <1>3, <1>4, <1>5, <1>6, BlankSound DEF IndexInv
<1>7. ASSUME NEW count \in {ExpectedCount, ExpectedCount - 1},
             file = [f \in IndexFiles |-> IF f = 1 THEN LegacyIndex(v, count) ELSE Blank]
      PROVE  IndexInv
  <2> DEFINE ids == Snapshots[v].metadata
  <2>1. ExpectedCount = Cardinality(ids)
    BY <1>1 DEF Joined
  <2>2. /\ IsFiniteSet(ids \X {v}) /\ ids \X {v} \subseteq StoredRows
        /\ Cardinality(ids) \in Nat /\ Cardinality(ids \X {v}) = Cardinality(ids)
    BY SnapshotRows
  <2>3. /\ DOMAIN LegacyIndex(v, count) = {"body", "label", "whole", "count", "rows", "titles"}
        /\ LegacyIndex(v, count).count = count
        /\ LegacyIndex(v, count).rows = ids \X {v} /\ LegacyIndex(v, count).titles = {}
    BY DEF LegacyIndex, Blank
  <2> HIDE DEF ids
  <2>4. count \in Int /\ count <= Cardinality(ids \X {v})
    BY <2>1, <2>2
  <2>5. FileSound(LegacyIndex(v, count))
    BY <2>2, <2>3, <2>4 DEF FileSound
  <2>6. \A f \in IndexFiles : FileSound(file[f])
    BY <1>7, <2>5, BlankSound
  <2> QED
    BY <1>1, <1>2, <1>3, <1>4, <1>5, <1>7, <2>6 DEF IndexInv
<1> QED
  BY <1>1, <1>6, <1>7

FilesGrow(f, rows, titles) ==
  file' = [file EXCEPT ![f].rows = @ \union rows, ![f].titles = @ \union titles]

\* What a build has counted stays in its file when any process adds to a file.
LEMMA GrownFiles ==
  ASSUME IndexInv, NEW f \in IndexFiles, NEW rows \in SUBSET StoredRows,
         NEW titles \in SUBSET StoredRows, IsFiniteSet(rows), FilesGrow(f, rows, titles)
  PROVE  /\ DOMAIN file' = IndexFiles /\ \A g \in IndexFiles : FileSound(file'[g])
         /\ \A q \in Builders : builder[q].at = "insert" =>
              builder[q].inserted <= Cardinality(file'[builder[q].on].rows)
         /\ file'[f].rows = file[f].rows \union rows
<1> DEFINE grown == [file[f] EXCEPT !.rows = @ \union rows, !.titles = @ \union titles]
<1>1. FileSound(file[f])
  BY DEF IndexInv
<1>2. FileSound(grown) /\ Cardinality(file[f].rows) <= Cardinality(grown.rows)
  BY <1>1, MoreRows
<1>3. grown.rows = file[f].rows \union rows
  BY <1>1 DEF FileSound
<1>4. file' = [file EXCEPT ![f] = grown]
  BY DEF FilesGrow
<1> HIDE DEF grown
<1>5. /\ DOMAIN file' = IndexFiles /\ file'[f] = grown
      /\ \A g \in IndexFiles \ {f} : file'[g] = file[g]
  BY <1>4 DEF IndexInv
<1>6. ASSUME NEW q \in Builders, builder[q].at = "insert"
      PROVE  builder[q].inserted <= Cardinality(file'[builder[q].on].rows)
  <2>1. /\ builder[q].on \in IndexFiles /\ builder[q].inserted \in Nat
        /\ builder[q].inserted <= Cardinality(file[builder[q].on].rows)
    BY <1>6 DEF IndexInv, BuildSound
  <2>2. CASE builder[q].on # f
    BY <1>5, <2>1, <2>2
  <2>3. CASE builder[q].on = f
    <3>1. Cardinality(file[f].rows) \in Nat /\ Cardinality(grown.rows) \in Nat
      BY <1>1, <1>2, FS_CardinalityType DEF FileSound
    <3> QED
      BY <1>2, <1>5, <2>1, <2>3, <3>1
  <2> QED
    BY <2>2, <2>3
<1>7. \A g \in IndexFiles : FileSound(file'[g])
  BY <1>2, <1>5 DEF IndexInv
<1> QED
  BY <1>3, <1>5, <1>6, <1>7

\* A build that leaves its file, or goes on in it without copying, does not
\* disturb a compaction.
LEMMA StepsAside ==
  ASSUME IndexInv, NEW p \in Builders, NEW b,
         builder' = [builder EXCEPT ![p] = b], b.at # "copy", b.on \in {0, builder[p].on},
         named'.building \in {named.building, 0}
  PROVE  CopyApart'
<1> SUFFICES ASSUME NEW q \in Builders, builder'[q].at = "copy"
             PROVE  /\ builder'[q].on # named'.building
                    /\ \A c \in Builders \ {q} : builder'[c].on # builder'[q].on
  BY DEF CopyApart
<1>1. q # p /\ builder'[q] = builder[q]
  BY DEF IndexInv
<1>2. builder[q].on \in IndexFiles
  BY <1>1 DEF IndexInv, BuildSound
<1>3. builder[q].on # 0
  BY <1>2 DEF IndexFiles
<1>4. builder[q].on # named.building /\ \A c \in Builders \ {q} : builder[c].on # builder[q].on
  BY <1>1 DEF IndexInv, CopyApart
<1>5. ASSUME NEW c \in Builders \ {q} PROVE builder'[c].on # builder'[q].on
  <2>1. builder'[c] = IF c = p THEN b ELSE builder[c]
    BY DEF IndexInv
  <2> QED
    BY <1>1, <1>3, <1>4, <2>1
<1> QED
  BY <1>1, <1>3, <1>4, <1>5

LEMMA IndexStep == IndexInv /\ [IndexNext]_indexVars => IndexInv'
<1> SUFFICES ASSUME IndexInv, [IndexNext]_indexVars PROVE IndexInv'
  OBVIOUS
<1>0. /\ CopyApart /\ DOMAIN builder = Builders /\ DOMAIN file = IndexFiles
      /\ \A p \in Builders : BuildSound(builder[p])
      /\ \A f \in IndexFiles : FileSound(file[f])
  BY DEF IndexInv
<1> USE DEF IndexInv
<1>1. CASE UNCHANGED indexVars
  BY <1>1 DEF indexVars, CopyApart, BuildSound, Joined
<1>2. CASE PrepareStore \/ SetRevision
  BY <1>2 DEF PrepareStore, SetRevision, CopyApart, BuildSound, Joined
<1>3. ASSUME NEW p \in Builders, EnsureBuilt(p) PROVE IndexInv'
  <2>1. builder' = [builder EXCEPT ![p] = [NoBuild EXCEPT !.at = "check", !.revision = setting]]
    BY <1>3 DEF EnsureBuilt
  <2>2. BuildSound(builder[p])' /\ \A q \in Builders \ {p} : BuildSound(builder[q])'
    BY <1>3, <2>1 DEF EnsureBuilt, BuildSound, NoBuild
  <2>3. CopyApart'
    BY <1>3, <2>1 DEF EnsureBuilt, CopyApart, BuildSound, NoBuild, IndexFiles
  <2> QED
    BY <1>3, <2>1, <2>2, <2>3 DEF EnsureBuilt, Joined
<1>4. ASSUME NEW p \in Builders, StartCompacting(p) PROVE IndexInv'
  <2>1. PICK f \in Fresh : /\ named' = [named EXCEPT !.compacting = f]
                           /\ builder' = [builder EXCEPT ![p].at = "copy", ![p].on = f]
    BY <1>4 DEF StartCompacting, NewFile
  <2>2. f \in IndexFiles /\ f # named.building /\ \A q \in Builders : f # builder[q].on
    BY <2>1 DEF Fresh
  <2>3. BuildSound(builder[p])' /\ \A q \in Builders \ {p} : BuildSound(builder[q])'
    BY <1>4, <2>1, <2>2 DEF StartCompacting, BuildSound
  <2>4. CopyApart'
    BY <1>4, <2>1, <2>2 DEF StartCompacting, CopyApart, BuildSound
  <2> QED
    BY <1>4, <2>1, <2>2, <2>3, <2>4 DEF StartCompacting, Joined
<1>5. ASSUME NEW p \in Builders, Copy(p) PROVE IndexInv'
  <2> DEFINE f == builder[p].on
             own == named.index = f
             rows == IF own THEN {} ELSE Index.rows
             copied == [Blank EXCEPT !.rows = rows, !.titles = rows,
                          !.label = IF own THEN "" ELSE Index.label,
                          !.whole = IF own THEN "" ELSE Index.whole,
                          !.count = IF own THEN 0 ELSE Index.count]
  <2>1. /\ f \in IndexFiles /\ named.index \in IndexFiles
        /\ file' = [file EXCEPT ![f] = copied]
        /\ \/ builder' = [builder EXCEPT ![p].at = "rename compacting"]
           \/ builder' = [builder EXCEPT ![p] = NoBuild]
    BY <1>5 DEF Copy, BuildSound, Proceeds, Stops
  <2>2. FileSound(copied)
    <3>1. FileSound(Index)
      BY <2>1 DEF Index
    <3> QED
      BY <3>1, FS_EmptySet DEF FileSound, Blank
  <2>3. \A q \in Builders \ {p} : builder[q].on # f
    BY <1>5 DEF Copy, CopyApart
  <2> HIDE DEF copied
  <2>4. \A q \in Builders \ {p} : BuildSound(builder[q])'
    BY <2>1, <2>3 DEF BuildSound
  <2> DEFINE b == builder'[p]
  <2>5. /\ builder' = [builder EXCEPT ![p] = b]
        /\ \/ /\ b = [builder[p] EXCEPT !.at = "rename compacting"]
              /\ b.at = "rename compacting" /\ b.on = builder[p].on
              /\ b.inserted = builder[p].inserted
              /\ DOMAIN b = DOMAIN builder[p]
           \/ b = NoBuild
    BY <2>1 DEF BuildSound
  <2>51. BuildSound(builder[p])'
    <3> HIDE DEF IndexInv
    <3>1. BuildSound(builder[p]) /\ builder[p].at = "copy"
      BY <1>0, <1>5 DEF Copy
    <3>2. CASE b = NoBuild
      BY <3>2, NoBuildSound DEF BuildSound
    <3>3. CASE /\ b.at = "rename compacting" /\ b.on = builder[p].on
               /\ b.inserted = builder[p].inserted /\ DOMAIN b = DOMAIN builder[p]
      BY <3>1, <3>3 DEF BuildSound
    <3> QED
      BY <2>5, <3>2, <3>3
  <2>52. b.at # "copy" /\ b.on \in {0, builder[p].on} /\ named' = named
    BY <1>5, <2>5, NoBuildSound DEF Copy
  <2>6. CopyApart'
    <3> HIDE DEF b, IndexInv
    <3> QED
      BY <2>5, <2>52, StepsAside
  <2>7. \A g \in IndexFiles : FileSound(file'[g])
    BY <2>1, <2>2
  <2> QED
    BY <1>5, <2>1, <2>4, <2>51, <2>6, <2>7 DEF Copy, Joined
<1>6. ASSUME NEW p \in Builders, OpenBuilding(p) PROVE IndexInv'
  <2>1. CASE /\ named.building # 0 /\ UNCHANGED <<named, file>>
             /\ builder' = [builder EXCEPT ![p].at = "insert", ![p].on = named.building,
                  ![p].after = IF file[named.building].rows = {} THEN 0
                               ELSE LastOf(IdsOf(file[named.building].rows)),
                  ![p].inserted = Cardinality(file[named.building].rows)]
    <3>1. named.building \in IndexFiles
      BY <2>1
    <3>2. Cardinality(file[named.building].rows) \in Nat
      BY <3>1, FS_CardinalityType DEF FileSound
    <3>3. BuildSound(builder[p])'
      <4>1. /\ DOMAIN builder'[p] = {"at", "revision", "on", "after", "inserted"}
            /\ builder'[p].at = "insert" /\ builder'[p].on = named.building
            /\ builder'[p].inserted = Cardinality(file[named.building].rows)
        BY <2>1 DEF BuildSound
      <4> QED
        <5> HIDE DEF IndexInv
        <5> QED
          <6>1. file'[named.building].rows = file[named.building].rows
            BY <2>1
          <6> QED
            BY <3>1, <3>2, <4>1, <6>1 DEF BuildSound
    <3>4. \A q \in Builders \ {p} : BuildSound(builder[q])'
      BY <2>1 DEF BuildSound
    <3>5. CopyApart'
      <4>1. /\ builder'[p].at = "insert" /\ builder'[p].on = named.building
            /\ \A q \in Builders \ {p} : builder'[q] = builder[q]
        BY <2>1 DEF BuildSound
      <4> QED
        <5> HIDE DEF IndexInv
        <5> QED
          <6>1. SUFFICES ASSUME NEW q \in Builders, builder'[q].at = "copy"
                         PROVE  /\ builder'[q].on # named'.building
                                /\ \A c \in Builders \ {q} : builder'[c].on # builder'[q].on
            BY DEF CopyApart
          <6>2. q # p /\ builder'[q] = builder[q]
            BY <4>1, <6>1
          <6>3. builder[q].on # named.building
                /\ \A c \in Builders \ {q} : builder[c].on # builder[q].on
            BY <1>0, <6>1, <6>2 DEF CopyApart
          <6> QED
            BY <2>1, <4>1, <6>2, <6>3
    <3> QED
      BY <1>6, <2>1, <3>3, <3>4, <3>5 DEF OpenBuilding, Joined
  <2>2. ASSUME NEW g \in NewFile, named' = [named EXCEPT !.building = g],
               file' = [file EXCEPT ![g].label = builder[p].revision],
               builder' = [builder EXCEPT ![p].at = "insert", ![p].on = g]
        PROVE  IndexInv'
    <3>1. g \in IndexFiles /\ file[g] = Blank /\ \A q \in Builders : g # builder[q].on
      BY <2>2 DEF NewFile, Fresh
    <3>2. Blank.rows = {} /\ Cardinality({}) = 0
      BY FS_EmptySet DEF Blank
    <3>3. \A f \in IndexFiles : FileSound(file'[f]) /\ file'[f].rows = file[f].rows
      BY <2>2, <3>1 DEF FileSound
    <3>4. BuildSound(builder[p])'
      <4>1. /\ DOMAIN builder'[p] = {"at", "revision", "on", "after", "inserted"}
            /\ builder'[p].at = "insert" /\ builder'[p].on = g
            /\ builder'[p].inserted = 0
        <5>1. DOMAIN builder[p] = {"at", "revision", "on", "after", "inserted"}
              /\ builder[p].inserted = 0
          BY <1>6 DEF BuildSound, OpenBuilding
        <5>2. builder'[p] = [builder[p] EXCEPT !.at = "insert", !.on = g]
          BY <2>2
        <5> QED
          BY <5>1, <5>2
      <4>2. file'[g].rows = {}
        BY <3>1, <3>2, <3>3
      <4> QED
        BY <3>1, <3>2, <4>1, <4>2 DEF BuildSound
    <3>5. \A q \in Builders \ {p} : BuildSound(builder[q])'
      BY <2>2, <3>3 DEF BuildSound
    <3>6. CopyApart'
      BY <2>2, <3>1 DEF CopyApart, BuildSound
    <3>7. named' \in [{"index", "building", "compacting"} -> IndexFiles \union {0}]
      BY <2>2, <3>1
    <3>8. DOMAIN file' = IndexFiles /\ DOMAIN builder' = Builders
      BY <2>2
    <3> QED
      BY <1>6, <3>3, <3>4, <3>5, <3>6, <3>7, <3>8 DEF OpenBuilding, Joined
  <2> QED
    BY <1>6, <2>1, <2>2 DEF OpenBuilding
<1>7. ASSUME NEW p \in Builders, InsertBatch(p) PROVE IndexInv'
  <2>1. CASE Stops(p) /\ UNCHANGED file
    <3>1. \A q \in Builders : BuildSound(builder[q])'
      BY <2>1 DEF Stops, BuildSound, NoBuild
    <3>2. CopyApart'
      <4> HIDE DEF IndexInv
      <4> QED
        BY <1>7, <2>1, StepsAside, NoBuildSound DEF Stops, InsertBatch
    <3> QED
      BY <1>7, <2>1, <3>1, <3>2 DEF InsertBatch, Stops, Joined
  <2>2. CASE /\ ~Conflicts(p)
             /\ file' = [file EXCEPT
                  ![builder[p].on].rows = @ \union (NextBatch(p) \X {prepared}),
                  ![builder[p].on].titles = @ \union (NextBatch(p) \X {prepared})]
             /\ builder' = [builder EXCEPT ![p].after = LastOf(NextBatch(p)),
                                           ![p].inserted = @ + Cardinality(NextBatch(p))]
    <3> DEFINE f == builder[p].on
               more == NextBatch(p) \X {prepared}
    <3>1. f \in IndexFiles /\ builder[p].at = "insert"
      BY <1>7 DEF InsertBatch, BuildSound
    <3>2. NextBatch(p) \in SUBSET Snapshots[prepared].metadata
      BY DEF NextBatch, NextIds, StoreIds
    <3>3. /\ IsFiniteSet(more) /\ more \subseteq StoredRows
          /\ Cardinality(NextBatch(p)) \in Nat /\ Cardinality(more) = Cardinality(NextBatch(p))
      BY <3>2, SnapshotRows
    <3>4. file[f].rows \intersect more = {}
      BY <2>2 DEF Conflicts, Held, IdsOf
    <3>5. Cardinality(file[f].rows \union more) = Cardinality(file[f].rows) + Cardinality(more)
      <4>1. IsFiniteSet(file[f].rows)
        BY <3>1 DEF FileSound
      <4>2. Cardinality(file[f].rows) \in Nat
        BY <4>1, FS_CardinalityType
      <4> HIDE DEF more
      <4> QED
        <5>1. Cardinality(file[f].rows \intersect more) = 0
          BY <3>4, FS_EmptySet
        <5>2. Cardinality(file[f].rows \union more)
                = Cardinality(file[f].rows) + Cardinality(more)
                  - Cardinality(file[f].rows \intersect more)
          BY <3>3, <4>1, FS_Union
        <5> QED
          BY <3>3, <4>2, <5>1, <5>2
    <3>6. FilesGrow(f, more, more)
      BY <2>2 DEF FilesGrow
    <3>7. /\ builder'[p].inserted = builder[p].inserted + Cardinality(more)
          /\ builder'[p].at = builder[p].at /\ builder'[p].on = f
          /\ DOMAIN builder'[p] = DOMAIN builder[p]
          /\ DOMAIN builder' = Builders
          /\ \A q \in Builders \ {p} : builder'[q] = builder[q]
      BY <2>2, <3>3 DEF BuildSound
    <3>8. /\ DOMAIN file' = IndexFiles /\ \A g \in IndexFiles : FileSound(file'[g])
          /\ \A q \in Builders : builder[q].at = "insert" =>
               builder[q].inserted <= Cardinality(file'[builder[q].on].rows)
          /\ file'[f].rows = file[f].rows \union more
      <4> HIDE DEF IndexInv, more
      <4> QED
        BY <3>1, <3>3, <3>6, GrownFiles
    <3>9. BuildSound(builder[p])'
      <4>1. Cardinality(file[f].rows) \in Nat
        BY <3>1, FS_CardinalityType DEF FileSound
      <4>2. builder[p].inserted \in Nat /\ builder[p].inserted <= Cardinality(file[f].rows)
        BY <3>1 DEF BuildSound
      <4> HIDE DEF more
      <4>3. builder'[p].inserted \in Nat
        BY <3>3, <3>7, <4>2
      <4>4. builder'[p].inserted <= Cardinality(file'[f].rows)
        BY <3>3, <3>5, <3>7, <3>8, <4>1, <4>2
      <4> QED
        BY <3>1, <3>7, <4>3, <4>4 DEF BuildSound
    <3>10. \A q \in Builders \ {p} : BuildSound(builder[q])'
      BY <3>7, <3>8 DEF BuildSound
    <3>11. CopyApart'
      BY <1>7, <3>1, <3>7 DEF CopyApart, InsertBatch
    <3> QED
      BY <1>7, <3>7, <3>8, <3>9, <3>10, <3>11 DEF InsertBatch, Joined
  <2> QED
    BY <1>7, <2>1, <2>2 DEF InsertBatch
<1>8. ASSUME NEW p \in Builders, Seal(p) PROVE IndexInv'
  <2> DEFINE f == builder[p].on
  <2>1. f \in IndexFiles /\ builder[p].inserted \in Nat
        /\ builder[p].inserted <= Cardinality(file[f].rows)
    BY <1>8 DEF Seal, BuildSound
  <2>2. \/ UNCHANGED file
        \/ file' = [file EXCEPT ![f].whole = builder[p].revision, ![f].count = builder[p].inserted]
    BY <1>8 DEF Seal
  <2>3. /\ DOMAIN file' = IndexFiles /\ \A g \in IndexFiles : FileSound(file'[g])
        /\ \A g \in IndexFiles : file'[g].rows = file[g].rows
    BY <2>1, <2>2 DEF FileSound
  <2>4. /\ \E b : /\ builder' = [builder EXCEPT ![p] = b] /\ b.at # "copy"
                  /\ b.on \in {0, builder[p].on}
        /\ \A q \in Builders \ {p} : builder'[q] = builder[q]
        /\ DOMAIN builder' = Builders
        /\ \/ builder'[p] = NoBuild
           \/ /\ builder'[p].at = "rename building" /\ builder'[p].on = f
              /\ builder'[p].inserted = builder[p].inserted
              /\ DOMAIN builder'[p] = DOMAIN builder[p]
    <3>1. CASE Stops(p)
      BY <3>1, NoBuildSound DEF Stops
    <3>2. CASE Proceeds(p, "rename building")
      <4> DEFINE b == [builder[p] EXCEPT !.at = "rename building"]
      <4>1. /\ b.at = "rename building" /\ b.on = f /\ b.inserted = builder[p].inserted
            /\ DOMAIN b = DOMAIN builder[p]
        BY DEF BuildSound
      <4>2. builder' = [builder EXCEPT ![p] = b]
        BY <3>2 DEF Proceeds
      <4> HIDE DEF b
      <4> QED
        BY <4>1, <4>2
    <3> QED
      BY <1>8, <3>1, <3>2 DEF Seal
  <2>5. \A q \in Builders : BuildSound(builder[q])'
    <3> HIDE DEF IndexInv
    <3>1. ASSUME NEW q \in Builders \ {p} PROVE BuildSound(builder[q])'
      <4>1. builder'[q] = builder[q] /\ BuildSound(builder[q])
        BY <1>0, <2>4
      <4>2. builder[q].at = "insert" => file'[builder[q].on].rows = file[builder[q].on].rows
        BY <2>3, <4>1 DEF BuildSound
      <4> QED
        BY <4>1, <4>2 DEF BuildSound
    <3>2. BuildSound(builder[p])'
      <4>1. CASE builder'[p] = NoBuild
        BY <4>1, NoBuildSound DEF BuildSound
      <4>2. CASE /\ builder'[p].at = "rename building" /\ builder'[p].on = f
                 /\ builder'[p].inserted = builder[p].inserted
                 /\ DOMAIN builder'[p] = DOMAIN builder[p]
        BY <1>0, <2>1, <4>2 DEF BuildSound
      <4> QED
        BY <2>4, <4>1, <4>2
    <3> QED
      BY <3>1, <3>2
  <2>6. CopyApart'
    <3> HIDE DEF IndexInv
    <3> QED
      BY <1>8, <2>4, StepsAside DEF Seal
  <2> QED
    BY <1>8, <2>3, <2>4, <2>5, <2>6 DEF Seal, Joined
<1>9. ASSUME NEW p \in Builders, NEW name \in {"building", "compacting"}, Rename(p, name)
      PROVE  IndexInv'
  <2>1. /\ builder' = [builder EXCEPT ![p] = NoBuild]
        /\ \/ named' = named
           \/ named' = [named EXCEPT !.index = named[name], ![name] = 0]
    BY <1>9 DEF Rename, Stops
  <2>2. named' \in [{"index", "building", "compacting"} -> IndexFiles \union {0}]
        /\ named'.building \in {named.building, 0}
    BY <2>1
  <2>3. \A q \in Builders : BuildSound(builder[q])'
    BY <1>9, <2>1 DEF Rename, BuildSound, NoBuild
  <2>4. CopyApart'
    <3> HIDE DEF IndexInv
    <3> QED
      BY <2>1, <2>2, StepsAside, NoBuildSound
  <2> QED
    BY <1>9, <2>1, <2>2, <2>3, <2>4 DEF Rename, Joined
<1>10. ASSUME NEW p \in Builders, CrashBuild(p) PROVE IndexInv'
  <2>1. builder' = [builder EXCEPT ![p] = NoBuild]
    BY <1>10 DEF CrashBuild, Stops
  <2>2. CopyApart'
    <3> HIDE DEF IndexInv
    <3> QED
      BY <1>10, <2>1, StepsAside, NoBuildSound DEF CrashBuild
  <2>3. CASE UNCHANGED file
    <3>1. \A q \in Builders : BuildSound(builder[q])'
      BY <2>1, <2>3 DEF BuildSound, NoBuild
    <3> QED
      BY <1>10, <2>1, <2>2, <2>3, <3>1 DEF CrashBuild, Joined
  <2>4. ASSUME builder[p].at = "insert",
               NEW rows \in SUBSET NextBatch(p), NEW titles \in SUBSET NextBatch(p),
               file' = [file EXCEPT ![builder[p].on].rows = @ \union (rows \X {prepared}),
                                    ![builder[p].on].titles = @ \union (titles \X {prepared})]
        PROVE  IndexInv'
    <3>1. builder[p].on \in IndexFiles
      BY <2>4 DEF BuildSound
    <3>2. rows \in SUBSET Snapshots[prepared].metadata /\ titles \in SUBSET Snapshots[prepared].metadata
      BY DEF NextBatch, NextIds, StoreIds
    <3>3. /\ rows \X {prepared} \subseteq StoredRows /\ titles \X {prepared} \subseteq StoredRows
          /\ IsFiniteSet(rows \X {prepared})
      BY <3>2, SnapshotRows
    <3>4. FilesGrow(builder[p].on, rows \X {prepared}, titles \X {prepared})
      BY <2>4 DEF FilesGrow
    <3>5. /\ DOMAIN file' = IndexFiles /\ \A g \in IndexFiles : FileSound(file'[g])
          /\ \A q \in Builders : builder[q].at = "insert" =>
               builder[q].inserted <= Cardinality(file'[builder[q].on].rows)
      <4> HIDE DEF IndexInv
      <4> QED
        BY <3>1, <3>3, <3>4, GrownFiles
    <3>6. \A q \in Builders : BuildSound(builder[q])'
      BY <2>1, <3>5 DEF BuildSound, NoBuild
    <3> QED
      BY <1>10, <2>1, <2>2, <3>5, <3>6 DEF CrashBuild, Joined
  <2> QED
    BY <1>10, <2>3, <2>4 DEF CrashBuild
<1> QED
  BY <1>1, <1>2, <1>3, <1>4, <1>5, <1>6, <1>7, <1>8, <1>9, <1>10 DEF IndexNext

\* A usable index that was built from the store's own revision holds at least as
\* many of its documents as there are.
LEMMA WholeWhenReady == IndexInv => ReadyIsWhole
<1> SUFFICES ASSUME IndexInv, IndexReady(setting), prepared = setting,
                    \A row \in Index.rows \union Index.titles : row[2] = setting
             PROVE  IdsOf(Index.rows) = StoreIds /\ IdsOf(Index.titles) = StoreIds
  BY DEF ReadyIsWhole
<1> DEFINE ids == Snapshots[setting].metadata
<1>1. StoreIds = ids /\ JoinedCount = Cardinality(ids)
  BY DEF StoreIds, JoinedCount
<1>2. /\ IsFiniteSet(ids) /\ Cardinality(ids) \in Nat
      /\ IsFiniteSet(ids \X {setting}) /\ Cardinality(ids \X {setting}) = Cardinality(ids)
  BY SnapshotRows DEF IndexInv
<1>3. FileSound(Index)
  BY DEF IndexInv, IndexReady, Index
<1>4. Index.rows \subseteq ids \X {setting} /\ Index.titles \subseteq ids \X {setting}
  BY <1>3 DEF FileSound, StoredRows
<1>5. IdsOf(Index.titles) \subseteq ids
  BY <1>4 DEF IdsOf
<1>6. Cardinality(IdsOf(Index.titles)) = Cardinality(ids) /\ Index.count = Cardinality(ids)
  BY <1>1 DEF IndexReady
<1>7. IdsOf(Index.titles) = ids
  BY <1>2, <1>5, <1>6, FS_Subset
<1>8. Cardinality(ids) <= Cardinality(Index.rows)
  BY <1>3, <1>6 DEF FileSound
<1>9. Index.rows = ids \X {setting}
  <2> DEFINE all == ids \X {setting}
  <2> HIDE DEF all, ids
  <2>1. IsFiniteSet(all) /\ Index.rows \in SUBSET all /\ Cardinality(all) <= Cardinality(Index.rows)
        /\ Cardinality(all) \in Nat
    BY <1>2, <1>4, <1>8 DEF all
  <2>2. /\ IsFiniteSet(Index.rows) /\ Cardinality(Index.rows) <= Cardinality(all)
        /\ Cardinality(all) = Cardinality(Index.rows) => all = Index.rows
    BY <2>1, FS_Subset
  <2>3. Cardinality(Index.rows) \in Nat
    BY <2>2, FS_CardinalityType
  <2> QED
    BY <2>1, <2>2, <2>3 DEF all
<1>10. IdsOf(Index.rows) = ids
  <2> DEFINE rows == Index.rows
  <2> HIDE DEF rows, ids
  <2>1. rows = ids \X {setting}
    BY <1>9 DEF rows
  <2>2. \A d \in ids : <<d, setting>> \in rows /\ <<d, setting>>[1] = d
    BY <2>1
  <2>3. \A row \in rows : row[1] \in ids
    BY <2>1
  <2> QED
    BY <2>2, <2>3 DEF IdsOf, rows
<1> QED
  BY <1>1, <1>7, <1>10

(* A usable index has every document of the store and its title, if what   *)
(* it holds was read from a store of the revision the setting names: for   *)
(* any snapshots, processes, batches, files, builds and settings, whatever *)
(* is cut short, resumed, compacted or renamed by another process          *)
(* (legal_fts.py, is_ready).                                               *)
THEOREM ReadyIndexes == IndexSpec => []ReadyIsWhole
<1>1. IndexSpec => []IndexInv
  BY InitIndex, IndexStep, PTL DEF IndexSpec
<1> QED
  BY <1>1, WholeWhenReady, PTL

-----------------------------------------------------------------------------
(* The Pinecone pilot                                                      *)

Manifests == {IdsIn[c] : c \in Corpora}
InNamespace(records) == records \subseteq DOMAIN namespace

\* What a checkpoint lists is in the namespace; and of the plan it is bound to,
\* unless an upload read something else.
LedgerHeld(l) ==
  /\ DOMAIN l = {"plan", "committed", "torn"}
  /\ l.plan \in Manifests \union {<< >>}
  /\ InNamespace(DOMAIN l.committed)
  /\ ~l.torn => DOMAIN l.committed \subseteq RecordsOf(l.plan)

\* Batches under way are of the records that were checked; those done are there.
Uploading(p) ==
  /\ p.ledger \in Ledgers /\ ledgers[p.ledger].plan = p.plan
  /\ \A batch \in p.done : InNamespace(batch)
  /\ \A batch \in p.flying \union p.done :
       ledgers[p.ledger].torn \/ batch \subseteq RecordsOf(p.plan)

Verifying(p) ==
  /\ ~p.torn => InNamespace(RecordsOf(p.plan))
  /\ p.at = "sample" /\ ~p.torn => p.done = RecordsOf(p.plan)

PilotHeld(p) ==
  /\ DOMAIN p = {"at", "plan", "ledger", "text", "skip", "next", "sample", "flying", "done",
                 "failed", "torn"}
  /\ p.at \in {"idle", "bind", "wave", "fly", "wait", "count", "sample"}
  /\ p.at # "idle" => p.plan \in Manifests
  /\ p.at = "bind" => p.ledger \in Ledgers
  /\ p.at \in {"idle", "bind", "count", "sample"} => p.flying = {}
  /\ p.at = "bind" => p.done = {}
  /\ IsFiniteSet(UNION p.flying)
  /\ p.at \in {"wave", "fly", "wait"} => Uploading(p)
  /\ p.at \in {"count", "sample"} => Verifying(p)

PineconeInv ==
  /\ local.corpus \in Corpora /\ audited \subseteq Manifests
  /\ IsFiniteSet(DOMAIN namespace)
  /\ DOMAIN ledgers = Ledgers /\ \A f \in Ledgers : LedgerHeld(ledgers[f])
  /\ DOMAIN pilot = Pilots /\ \A o \in Pilots : PilotHeld(pilot[o])
  /\ \A u \in uploads : u.plan \in Manifests /\ (~u.torn => InNamespace(RecordsOf(u.plan)))
  /\ \A v \in verifications : ~v.torn => v.held = RecordsOf(v.plan)
  /\ \A c \in canaries : c.verification \in verifications

-----------------------------------------------------------------------------
\* A plan names as many records as it is long.
LEMMA PlanRecords ==
  ASSUME NEW plan \in Manifests
  PROVE  /\ IsFiniteSet(RecordsOf(plan)) /\ Cardinality(RecordsOf(plan)) = Len(plan)
         /\ plan # << >> /\ DOMAIN plan = 1..Len(plan) /\ Len(plan) \in Nat
<1>1. PICK c \in Corpora : plan = IdsIn[c]
  BY DEF Manifests
<1>2. /\ plan = [i \in 1..Len(plan) |-> plan[i]] /\ Len(plan) \in Nat \ {0}
      /\ \A i, j \in DOMAIN plan : plan[i] = plan[j] => i = j
  BY <1>1, PineconeAssumption
<1>3. DOMAIN plan = 1..Len(plan) /\ 1 \in DOMAIN plan
  BY <1>2
<1>4. plan \in Bijection(1..Len(plan), RecordsOf(plan))
  <2>1. plan \in [1..Len(plan) -> RecordsOf(plan)]
    BY <1>2, <1>3 DEF RecordsOf
  <2>2. \A r \in RecordsOf(plan) : \E i \in 1..Len(plan) : plan[i] = r
    BY <1>3 DEF RecordsOf
  <2>3. \A i, j \in 1..Len(plan) : plan[i] = plan[j] => i = j
    BY <1>2, <1>3
  <2> DEFINE n == Len(plan)
             records == RecordsOf(plan)
  <2> HIDE DEF n, records
  <2> QED
    BY <2>1, <2>2, <2>3 DEF n, records, Bijection, Injection, Surjection, IsInjective
<1>5. IsFiniteSet(1..Len(plan)) /\ Cardinality(1..Len(plan)) = Len(plan)
  <2> DEFINE n == Len(plan)
  <2>1. n \in Nat \ {0}
    BY <1>2
  <2> HIDE DEF n
  <2>2. IsFiniteSet(1..n) /\ Cardinality(1..n) = n
    BY <2>1, FS_Interval
  <2> QED
    BY <2>2 DEF n
<1>6. ExistsBijection(1..Len(plan), RecordsOf(plan))
  BY <1>4 DEF ExistsBijection
<1>7. IsFiniteSet(RecordsOf(plan)) /\ Cardinality(RecordsOf(plan)) = Len(plan)
  BY <1>5, <1>6, FS_Bijection
<1>8. plan # << >>
  BY <1>3
<1> QED
  BY <1>2, <1>3, <1>7, <1>8

\* As many records of a plan as there are are all of them.
LEMMA AllOfPlan ==
  ASSUME NEW plan \in Manifests, NEW records \in SUBSET RecordsOf(plan),
         Cardinality(records) = Len(plan)
  PROVE  records = RecordsOf(plan)
BY PlanRecords, FS_Subset

LEMMA HeldIsPlan ==
  ASSUME NEW plan \in Manifests, NEW held, IsFiniteSet(held), RecordsOf(plan) \subseteq held,
         Cardinality(held) = Len(plan)
  PROVE  held = RecordsOf(plan)
BY PlanRecords, FS_Subset

LEMMA NoPilotHeld == PilotHeld(NoPilot)
BY FS_EmptySet DEF PilotHeld, NoPilot

LEMMA InitPinecone == PineconeInit => PineconeInv
<1> SUFFICES ASSUME PineconeInit PROVE PineconeInv
  OBVIOUS
<1>1. IsFiniteSet(DOMAIN namespace)
  BY DEF PineconeInit
<1>2. \A f \in Ledgers : LedgerHeld(ledgers[f])
  BY DEF PineconeInit, LedgerHeld, NoLedger, InNamespace
<1>3. \A o \in Pilots : PilotHeld(pilot[o])
  BY NoPilotHeld DEF PineconeInit
<1> QED
  BY <1>1, <1>2, <1>3 DEF PineconeInit, PineconeInv, Manifests

\* What the namespace holds stays, and so does what rests on it, as long as the
\* checkpoints keep their plans and what is torn.
LEMMA HeldStays ==
  ASSUME PineconeInv, DOMAIN namespace \subseteq DOMAIN namespace',
         \A f \in Ledgers :
           /\ ledgers[f].plan \in Manifests => ledgers'[f].plan = ledgers[f].plan
           /\ ledgers[f].torn => ledgers'[f].torn
  PROVE  /\ \A p : PilotHeld(p) => PilotHeld(p)'
         /\ \A l : LedgerHeld(l) => LedgerHeld(l)'
<1>1. ASSUME NEW records, InNamespace(records) PROVE InNamespace(records)'
  BY <1>1 DEF InNamespace
<1>2. ASSUME NEW p, PilotHeld(p) PROVE PilotHeld(p)'
  <2>1. p.at \in {"wave", "fly", "wait"} => Uploading(p)'
    <3> SUFFICES ASSUME p.at \in {"wave", "fly", "wait"} PROVE Uploading(p)'
      OBVIOUS
    <3>1. Uploading(p) /\ p.plan \in Manifests
      BY <1>2 DEF PilotHeld
    <3>2. p.ledger \in Ledgers /\ ledgers'[p.ledger].plan = p.plan
          /\ (ledgers[p.ledger].torn => ledgers'[p.ledger].torn)
      BY <3>1 DEF Uploading
    <3>3. \A batch \in p.done : InNamespace(batch)'
      BY <1>1, <3>1 DEF Uploading
    <3>4. \A batch \in p.flying \union p.done :
            ledgers'[p.ledger].torn \/ batch \subseteq RecordsOf(p.plan)
      BY <3>1, <3>2 DEF Uploading
    <3> QED
      BY <3>1, <3>2, <3>3, <3>4 DEF Uploading
  <2>2. p.at \in {"count", "sample"} => Verifying(p)'
    BY <1>1, <1>2 DEF PilotHeld, Verifying
  <2> QED
    BY <1>2, <2>1, <2>2 DEF PilotHeld
<1>3. ASSUME NEW l, LedgerHeld(l) PROVE LedgerHeld(l)'
  BY <1>1, <1>3 DEF LedgerHeld
<1> QED
  BY <1>2, <1>3

LEMMA OthersHeld ==
  ASSUME PineconeInv, NEW o \in Pilots, NEW p, Puts(o, p), PilotHeld(p)',
         DOMAIN namespace \subseteq DOMAIN namespace',
         \A f \in Ledgers :
           /\ ledgers[f].plan \in Manifests => ledgers'[f].plan = ledgers[f].plan
           /\ ledgers[f].torn => ledgers'[f].torn
  PROVE  DOMAIN pilot' = Pilots /\ \A q \in Pilots : PilotHeld(pilot[q])'
<1>1. pilot' = [pilot EXCEPT ![o] = p] /\ DOMAIN pilot = Pilots
  BY DEF Puts, PineconeInv
<1>2. \A q \in Pilots : PilotHeld(pilot[q])
  BY DEF PineconeInv
<1>3. \A r : PilotHeld(r) => PilotHeld(r)'
  BY HeldStays
<1>4. ASSUME NEW q \in Pilots \ {o} PROVE PilotHeld(pilot[q])'
  <2>1. PICK r : r = pilot[q]
    OBVIOUS
  <2>2. PilotHeld(r)'
    BY <1>2, <1>3, <2>1
  <2>3. pilot'[q] = r
    BY <1>1, <2>1
  <2> QED
    BY <2>2, <2>3
<1> QED
  BY <1>1, <1>4

\* The ledgers and the reports after a step that only lets the namespace grow.
LEMMA ReportsHeld ==
  ASSUME PineconeInv, DOMAIN namespace \subseteq DOMAIN namespace',
         UNCHANGED <<ledgers, uploads, verifications, canaries>>
  PROVE  /\ \A f \in Ledgers : LedgerHeld(ledgers[f])'
         /\ \A u \in uploads' : u.plan \in Manifests /\ (~u.torn => InNamespace(RecordsOf(u.plan))')
         /\ \A v \in verifications' : ~v.torn => v.held = RecordsOf(v.plan)
         /\ \A c \in canaries' : c.verification \in verifications'
<1>1. \A f \in Ledgers : LedgerHeld(ledgers[f])'
  BY DEF PineconeInv, LedgerHeld, InNamespace
<1>2. \A u \in uploads' : u.plan \in Manifests /\ (~u.torn => InNamespace(RecordsOf(u.plan))')
  BY DEF PineconeInv, InNamespace
<1> QED
  BY <1>1, <1>2 DEF PineconeInv

LEMMA PineconeStep == PineconeInv /\ [PineconeNext]_pineconeVars => PineconeInv'
<1> SUFFICES ASSUME PineconeInv, [PineconeNext]_pineconeVars PROVE PineconeInv'
  OBVIOUS
<1>0. /\ local.corpus \in Corpora /\ Manifest \in Manifests /\ audited \subseteq Manifests
      /\ IsFiniteSet(DOMAIN namespace)
      /\ DOMAIN ledgers = Ledgers /\ \A f \in Ledgers : LedgerHeld(ledgers[f])
      /\ DOMAIN pilot = Pilots /\ \A o \in Pilots : PilotHeld(pilot[o])
      /\ \A u \in uploads : u.plan \in Manifests /\ (~u.torn => InNamespace(RecordsOf(u.plan)))
      /\ \A v \in verifications : ~v.torn => v.held = RecordsOf(v.plan)
      /\ \A c \in canaries : c.verification \in verifications
  BY DEF PineconeInv, Manifest, Manifests
<1>1. CASE UNCHANGED pineconeVars
  BY <1>1 DEF pineconeVars, PineconeInv, PilotHeld, LedgerHeld, Uploading, Verifying, InNamespace
<1>2. CASE Audit \/ RunCanary \/ ChangeLocal
  <2>1. UNCHANGED <<ledgers, namespace, pilot, uploads, verifications>>
    BY <1>2 DEF Audit, RunCanary, ChangeLocal
  <2>2. /\ \A f \in Ledgers : LedgerHeld(ledgers[f])'
        /\ \A o \in Pilots : PilotHeld(pilot[o])'
        /\ \A u \in uploads : ~u.torn => InNamespace(RecordsOf(u.plan))'
    BY <1>0, <2>1 DEF PilotHeld, LedgerHeld, Uploading, Verifying, InNamespace
  <2>3. local'.corpus \in Corpora /\ audited' \subseteq Manifests
    BY <1>0, <1>2 DEF Audit, RunCanary, ChangeLocal
  <2>4. \A c \in canaries' : c.verification \in verifications
    BY <1>0, <1>2 DEF Audit, RunCanary, ChangeLocal
  <2> QED
    BY <1>0, <2>1, <2>2, <2>3, <2>4 DEF PineconeInv
\* A command that goes on, or ends, while nothing but its own record changes.
<1>3. ASSUME NEW o \in Pilots, NEW p, Puts(o, p), PilotHeld(p),
             UNCHANGED <<local, audited, ledgers, namespace, uploads, verifications, canaries>>
      PROVE  PineconeInv'
  <2>1. PilotHeld(p)'
    BY <1>3 DEF PilotHeld, Uploading, Verifying, InNamespace
  <2>2. DOMAIN pilot' = Pilots /\ \A q \in Pilots : PilotHeld(pilot[q])'
    BY <1>3, <2>1, OthersHeld
  <2>3. /\ \A f \in Ledgers : LedgerHeld(ledgers[f])'
        /\ \A u \in uploads' : u.plan \in Manifests /\ (~u.torn => InNamespace(RecordsOf(u.plan))')
    BY <1>3, ReportsHeld
  <2> QED
    BY <1>0, <1>3, <2>2, <2>3 DEF PineconeInv
<1>4. ASSUME NEW o \in Pilots, OpenUpload(o) PROVE PineconeInv'
  <2>1. PICK f, p :
          /\ f \in Ledgers
          /\ p = [NoPilot EXCEPT !.at = "bind", !.plan = Manifest, !.ledger = f, !.text = local.text]
          /\ Puts(o, p)
    BY <1>4 DEF OpenUpload
  <2>2. PilotHeld(p)
    <3>1. /\ p.at = "bind" /\ p.plan = Manifest /\ p.ledger = f /\ p.flying = {} /\ p.done = {}
          /\ DOMAIN p = {"at", "plan", "ledger", "text", "skip", "next", "sample", "flying", "done",
                         "failed", "torn"}
      BY <2>1 DEF NoPilot
    <3>2. IsFiniteSet(UNION {})
      BY FS_EmptySet
    <3> QED
      BY <1>0, <2>1, <3>1, <3>2 DEF PilotHeld
  <2> QED
    BY <1>3, <1>4, <2>1, <2>2 DEF OpenUpload
<1>5. ASSUME NEW o \in Pilots, BindLedger(o) PROVE PineconeInv'
  <2>0. PICK f : f = pilot[o].ledger
    OBVIOUS
  <2> DEFINE ledger == ledgers[f]
  <2>1. PilotHeld(pilot[o]) /\ pilot[o].at = "bind" /\ f \in Ledgers /\ LedgerHeld(ledger)
        /\ pilot[o].plan \in Manifests
    BY <2>0, <1>0, <1>5 DEF BindLedger, PilotHeld
  <2>2. CASE UNCHANGED ledgers /\ Puts(o, NoPilot)
    BY <1>3, <1>5, <2>2, NoPilotHeld DEF BindLedger
  <2>3. ASSUME ledger.plan \in {<< >>, pilot[o].plan},
               ledgers' = [ledgers EXCEPT ![f].plan = pilot[o].plan],
               NEW p, p = [pilot[o] EXCEPT !.at = "wave", !.skip = ledger.committed], Puts(o, p)
        PROVE  PineconeInv'
    <3>1. /\ DOMAIN ledgers' = Ledgers /\ ledgers'[f].plan = pilot[o].plan
          /\ ledgers'[f].committed = ledger.committed /\ ledgers'[f].torn = ledger.torn
          /\ DOMAIN ledgers'[f] = DOMAIN ledger
          /\ \A g \in Ledgers \ {f} : ledgers'[g] = ledgers[g]
      BY <1>0, <2>1, <2>3 DEF LedgerHeld
    <3>2. RecordsOf(<< >>) = {}
      BY DEF RecordsOf
    <3>3. namespace' = namespace
      BY <1>5 DEF BindLedger
    <3>4. \A g \in Ledgers : LedgerHeld(ledgers[g])'
      <4>1. \A g \in Ledgers \ {f} : LedgerHeld(ledgers[g])'
        BY <1>0, <3>1, <3>3 DEF LedgerHeld, InNamespace
      <4>2. RecordsOf(ledger.plan) \subseteq RecordsOf(pilot[o].plan)
        BY <2>3, <3>2
      <4>3. LedgerHeld(ledgers[f])'
        BY <2>1, <3>1, <3>3, <4>2 DEF LedgerHeld, InNamespace
      <4> QED
        BY <4>1, <4>3
    <3>5. \A g \in Ledgers :
            /\ ledgers[g].plan \in Manifests => ledgers'[g].plan = ledgers[g].plan
            /\ ledgers[g].torn => ledgers'[g].torn
      BY <2>3, <3>1, PlanRecords
    <3>6. /\ p.at = "wave" /\ p.plan = pilot[o].plan /\ p.ledger = f /\ p.flying = {} /\ p.done = {}
          /\ DOMAIN p = DOMAIN pilot[o]
      BY <2>0, <2>1, <2>3 DEF PilotHeld
    <3>7. PilotHeld(p)'
      BY <2>1, <3>1, <3>6, FS_EmptySet DEF PilotHeld, Uploading
    <3>8. DOMAIN pilot' = Pilots /\ \A q \in Pilots : PilotHeld(pilot[q])'
      BY <2>3, <3>3, <3>5, <3>7, OthersHeld
    <3>9. \A u \in uploads' : u.plan \in Manifests /\ (~u.torn => InNamespace(RecordsOf(u.plan))')
      BY <1>0, <1>5, <3>3 DEF BindLedger, InNamespace
    <3> QED
      BY <1>0, <1>5, <3>1, <3>3, <3>4, <3>8, <3>9 DEF BindLedger, PineconeInv
  <2> QED
    BY <1>5, <2>0, <2>2, <2>3 DEF BindLedger
<1>6. ASSUME NEW o \in Pilots, StartWave(o) PROVE PineconeInv'
  <2>0. PICK f : f = pilot[o].ledger
    OBVIOUS
  <2> DEFINE ledger == ledgers[f]
             places == {i \in Pending(pilot[o]) : i <= Reached(pilot[o])}
  <2>1. /\ PilotHeld(pilot[o]) /\ pilot[o].at = "wave" /\ f \in Ledgers /\ LedgerHeld(ledger)
        /\ Uploading(pilot[o]) /\ pilot[o].plan \in Manifests
    BY <2>0, <1>0, <1>6 DEF StartWave, PilotHeld, Uploading
  <2>2. /\ ledgers' = [ledgers EXCEPT ![f].torn = @ \/ Manifest # pilot[o].plan]
        /\ UNCHANGED <<local, audited, namespace, uploads, verifications, canaries>>
    BY <1>6, <2>0 DEF StartWave
  <2>3. /\ DOMAIN ledgers' = Ledgers /\ ledgers'[f].plan = ledger.plan
        /\ ledgers'[f].committed = ledger.committed
        /\ ledgers'[f].torn = (ledger.torn \/ Manifest # pilot[o].plan)
        /\ DOMAIN ledgers'[f] = DOMAIN ledger
        /\ \A g \in Ledgers \ {f} : ledgers'[g] = ledgers[g]
    BY <1>0, <2>1, <2>2 DEF LedgerHeld
  <2>4. \A g \in Ledgers : LedgerHeld(ledgers[g])'
    <3>1. \A g \in Ledgers \ {f} : LedgerHeld(ledgers[g])'
      BY <1>0, <2>2, <2>3 DEF LedgerHeld, InNamespace
    <3>2. LedgerHeld(ledgers[f])'
      BY <2>1, <2>2, <2>3 DEF LedgerHeld, InNamespace
    <3> QED
      BY <3>1, <3>2
  <2>5. PICK p : /\ Puts(o, p)
                 /\ \/ p = NoPilot
                    \/ p = [pilot[o] EXCEPT !.at = "fly", !.next = Reached(pilot[o]) + 1,
                                            !.flying = BatchesOf(places)]
    BY <1>6 DEF StartWave
  <2>6. PilotHeld(p)'
    <3>1. CASE p = NoPilot
      BY <3>1, FS_EmptySet DEF PilotHeld, NoPilot
    <3>2. CASE p = [pilot[o] EXCEPT !.at = "fly", !.next = Reached(pilot[o]) + 1,
                                    !.flying = BatchesOf(places)]
      <4>1. /\ p.at = "fly" /\ p.plan = pilot[o].plan /\ p.ledger = f
            /\ p.flying = BatchesOf(places) /\ p.done = pilot[o].done
            /\ DOMAIN p = DOMAIN pilot[o]
        BY <2>0, <2>1, <3>2 DEF PilotHeld
      <4>2. places \subseteq DOMAIN Manifest
        BY DEF Pending, Unread
      <4>3. \A batch \in BatchesOf(places) : batch \subseteq RecordsOf(Manifest)
        BY <4>2 DEF BatchesOf, RecordsOf
      <4>4. IsFiniteSet(UNION p.flying)
        <5>1. UNION p.flying \in SUBSET RecordsOf(Manifest)
          BY <4>1, <4>3
        <5> QED
          BY <1>0, <5>1, PlanRecords, FS_Subset
      <4>5. Uploading(p)'
        <5>1. \A batch \in p.flying \union p.done :
                ledgers'[f].torn \/ batch \subseteq RecordsOf(pilot[o].plan)
          BY <2>0, <2>1, <2>3, <4>1, <4>3 DEF Uploading
        <5>2. \A batch \in p.done : InNamespace(batch)'
          BY <2>1, <2>2, <4>1 DEF Uploading, InNamespace
        <5> QED
          BY <2>0, <2>1, <2>3, <4>1, <5>1, <5>2 DEF Uploading
      <4> QED
        BY <2>1, <4>1, <4>4, <4>5 DEF PilotHeld
    <3> QED
      BY <2>5, <3>1, <3>2
  <2>7. \A g \in Ledgers : /\ ledgers'[g].plan = ledgers[g].plan
                          /\ ledgers[g].torn => ledgers'[g].torn
    BY <2>3
  <2>8. DOMAIN pilot' = Pilots /\ \A q \in Pilots : PilotHeld(pilot[q])'
    BY <2>2, <2>5, <2>6, <2>7, OthersHeld
  <2>9. \A u \in uploads' : u.plan \in Manifests /\ (~u.torn => InNamespace(RecordsOf(u.plan))')
    BY <1>0, <2>2 DEF InNamespace
  <2> QED
    BY <1>0, <2>2, <2>3, <2>4, <2>8, <2>9 DEF PineconeInv
<1>7. ASSUME NEW o \in Pilots, Upsert(o) PROVE PineconeInv'
  <2>1. PICK batch, p :
          /\ batch \in pilot[o].flying
          /\ Puts(o, p)
          /\ \/ /\ namespace' = WithText(batch, pilot[o].text, namespace)
                /\ p = [pilot[o] EXCEPT !.flying = @ \ {batch}, !.done = @ \union {batch}]
             \/ /\ namespace' \in {namespace, WithText(batch, pilot[o].text, namespace)}
                /\ p = [pilot[o] EXCEPT !.flying = @ \ {batch}, !.failed = TRUE]
    BY <1>7 DEF Upsert
  <2>2. /\ PilotHeld(pilot[o]) /\ pilot[o].at \in {"fly", "wait"} /\ Uploading(pilot[o])
        /\ UNCHANGED <<local, audited, ledgers, uploads, verifications, canaries>>
    BY <1>0, <1>7 DEF Upsert, PilotHeld
  <2>3. IsFiniteSet(batch)
    BY <2>1, <2>2, FS_Subset DEF PilotHeld
  <2>4. DOMAIN namespace' \in {DOMAIN namespace, batch \union DOMAIN namespace}
    BY <2>1 DEF WithText
  <2>5. IsFiniteSet(DOMAIN namespace') /\ DOMAIN namespace \subseteq DOMAIN namespace'
    BY <1>0, <2>3, <2>4, FS_Union
  <2>6. /\ p.at = pilot[o].at /\ p.plan = pilot[o].plan /\ p.ledger = pilot[o].ledger
        /\ p.flying = pilot[o].flying \ {batch}
        /\ p.done \in {pilot[o].done, pilot[o].done \union {batch}}
        /\ DOMAIN p = DOMAIN pilot[o]
        /\ batch \in p.done => batch \in pilot[o].done \/ batch \subseteq DOMAIN namespace'
    BY <2>1, <2>2 DEF PilotHeld, WithText
  <2>7. PilotHeld(p)'
    <3>1. UNION p.flying \in SUBSET UNION pilot[o].flying
      BY <2>6
    <3>2. IsFiniteSet(UNION p.flying)
      BY <2>2, <3>1, FS_Subset DEF PilotHeld
    <3>3. \A b \in p.done : InNamespace(b)'
      BY <2>2, <2>5, <2>6 DEF Uploading, InNamespace
    <3>4. \A b \in p.flying \union p.done : b \in pilot[o].flying \union pilot[o].done
      BY <2>1, <2>6
    <3>5. Uploading(p)'
      BY <2>2, <2>6, <3>3, <3>4 DEF Uploading
    <3> QED
      BY <2>2, <2>6, <3>2, <3>5 DEF PilotHeld
  <2>8. DOMAIN pilot' = Pilots /\ \A q \in Pilots : PilotHeld(pilot[q])'
    BY <2>1, <2>2, <2>5, <2>7, OthersHeld
  <2>9. /\ \A f \in Ledgers : LedgerHeld(ledgers[f])'
        /\ \A u \in uploads' : u.plan \in Manifests /\ (~u.torn => InNamespace(RecordsOf(u.plan))')
    BY <2>2, <2>5, ReportsHeld
  <2> QED
    BY <1>0, <2>2, <2>5, <2>8, <2>9 DEF PineconeInv
<1>8. ASSUME NEW o \in Pilots, CommitWave(o) PROVE PineconeInv'
  <2>0. PICK f : f = pilot[o].ledger
    OBVIOUS
  <2> DEFINE ledger == ledgers[f]
  <2>1. /\ PilotHeld(pilot[o]) /\ pilot[o].at = "fly" /\ Uploading(pilot[o])
        /\ f \in Ledgers /\ LedgerHeld(ledger)
        /\ UNCHANGED <<local, audited, namespace, uploads, verifications, canaries>>
    BY <2>0, <1>0, <1>8 DEF CommitWave, PilotHeld, Uploading
  <2>2. CASE UNCHANGED ledgers /\ Puts(o, [pilot[o] EXCEPT !.at = "wait"])
    <3>1. PICK p : p = [pilot[o] EXCEPT !.at = "wait"]
      OBVIOUS
    <3>2. PilotHeld(p)
      BY <2>1, <3>1 DEF PilotHeld, Uploading
    <3> QED
      BY <1>3, <2>1, <2>2, <3>1, <3>2
  <2>3. ASSUME NEW batch \in pilot[o].done,
               ledgers' = [ledgers EXCEPT ![f].committed = WithText(batch, pilot[o].text, @)],
               NEW p, p = [pilot[o] EXCEPT !.done = @ \ {batch}, !.flying = @ \ {batch}], Puts(o, p)
        PROVE  PineconeInv'
    <3>1. /\ DOMAIN ledgers' = Ledgers /\ ledgers'[f].plan = ledger.plan
          /\ DOMAIN ledgers'[f].committed = batch \union DOMAIN ledger.committed
          /\ ledgers'[f].torn = ledger.torn /\ DOMAIN ledgers'[f] = DOMAIN ledger
          /\ \A g \in Ledgers \ {f} : ledgers'[g] = ledgers[g]
      BY <1>0, <2>1, <2>3 DEF LedgerHeld, WithText
    <3>2. /\ p.at = "fly" /\ p.plan = pilot[o].plan /\ p.ledger = f
          /\ p.flying \subseteq pilot[o].flying /\ p.done \subseteq pilot[o].done
          /\ DOMAIN p = DOMAIN pilot[o]
      BY <2>0, <2>1, <2>3 DEF PilotHeld
    <3>3. InNamespace(batch) /\ (ledger.torn \/ batch \subseteq RecordsOf(ledger.plan))
      BY <2>0, <2>1, <2>3 DEF Uploading
    <3>4. \A g \in Ledgers : LedgerHeld(ledgers[g])'
      <4>1. \A g \in Ledgers \ {f} : LedgerHeld(ledgers[g])'
        BY <1>0, <2>1, <3>1 DEF LedgerHeld, InNamespace
      <4>2. LedgerHeld(ledgers[f])'
        BY <2>1, <3>1, <3>3 DEF LedgerHeld, InNamespace
      <4> QED
        BY <4>1, <4>2
    <3>5. PilotHeld(p)'
      <4>1. UNION p.flying \in SUBSET UNION pilot[o].flying
        BY <3>2
      <4>2. IsFiniteSet(UNION p.flying)
        BY <2>1, <4>1, FS_Subset DEF PilotHeld
      <4>3. Uploading(p)'
        BY <2>0, <2>1, <3>1, <3>2 DEF Uploading, InNamespace
      <4> QED
        BY <2>1, <3>2, <4>2, <4>3 DEF PilotHeld
    <3>6. \A g \in Ledgers : /\ ledgers'[g].plan = ledgers[g].plan
                            /\ ledgers[g].torn => ledgers'[g].torn
      BY <3>1
    <3>7. DOMAIN pilot' = Pilots /\ \A q \in Pilots : PilotHeld(pilot[q])'
      BY <2>1, <2>3, <3>5, <3>6, OthersHeld
    <3>8. \A u \in uploads' : u.plan \in Manifests /\ (~u.torn => InNamespace(RecordsOf(u.plan))')
      BY <1>0, <2>1 DEF InNamespace
    <3> QED
      BY <1>0, <2>1, <3>1, <3>4, <3>7, <3>8 DEF PineconeInv
  <2> QED
    BY <1>8, <2>0, <2>2, <2>3 DEF CommitWave, Committable
<1>9. ASSUME NEW o \in Pilots, MeetFailure(o) \/ LeaveWave(o) \/ NextWave(o) PROVE PineconeInv'
  <2>1. PilotHeld(pilot[o])
    BY <1>0
  <2>2. \E p : Puts(o, p) /\ PilotHeld(p)
    <3>1. CASE LeaveWave(o)
      BY <3>1, NoPilotHeld DEF LeaveWave
    <3>2. CASE MeetFailure(o)
      <4>1. PilotHeld([pilot[o] EXCEPT !.at = "wait"])
        BY <2>1, <3>2 DEF MeetFailure, PilotHeld, Uploading
      <4> QED
        BY <3>2, <4>1 DEF MeetFailure
    <3>3. CASE NextWave(o)
      <4>1. PilotHeld([pilot[o] EXCEPT !.at = "wave"])
        BY <2>1, <3>3 DEF NextWave, PilotHeld, Uploading
      <4> QED
        BY <3>3, <4>1 DEF NextWave
    <3> QED
      BY <1>9, <3>1, <3>2, <3>3
  <2> QED
    BY <1>3, <1>9, <2>2 DEF MeetFailure, LeaveWave, NextWave
<1>10. ASSUME NEW o \in Pilots, FinishUpload(o) PROVE PineconeInv'
  <2>0. PICK f : f = pilot[o].ledger
    OBVIOUS
  <2> DEFINE ledger == ledgers[f]
  <2>1. /\ PilotHeld(pilot[o]) /\ Uploading(pilot[o]) /\ pilot[o].plan \in Manifests
        /\ f \in Ledgers /\ LedgerHeld(ledger) /\ ledger.plan = pilot[o].plan
        /\ UNCHANGED <<local, audited, ledgers, namespace, verifications, canaries>>
    BY <2>0, <1>0, <1>10 DEF FinishUpload, PilotHeld, Uploading
  <2>2. ASSUME Cardinality(DOMAIN ledger.committed) = Len(pilot[o].plan), ~ledger.torn
        PROVE  InNamespace(RecordsOf(pilot[o].plan))
    <3>1. DOMAIN ledger.committed = RecordsOf(pilot[o].plan)
      BY <2>1, <2>2, AllOfPlan DEF LedgerHeld
    <3> QED
      BY <2>1, <3>1 DEF LedgerHeld
  <2>3. uploads' = uploads
        \/ /\ Cardinality(DOMAIN ledger.committed) = Len(pilot[o].plan)
           /\ uploads' = uploads \union {[plan |-> pilot[o].plan, torn |-> ledger.torn]}
    BY <1>10, <2>0 DEF FinishUpload
  <2>4. \A u \in uploads' : u.plan \in Manifests /\ (~u.torn => InNamespace(RecordsOf(u.plan)))
    BY <1>0, <2>1, <2>2, <2>3
  <2>5. \A u \in uploads' : u.plan \in Manifests /\ (~u.torn => InNamespace(RecordsOf(u.plan))')
    BY <2>1, <2>4 DEF InNamespace
  <2>6. DOMAIN pilot' = Pilots /\ \A q \in Pilots : PilotHeld(pilot[q])'
    <3>1. PICK p : p = NoPilot
      OBVIOUS
    <3>2. PilotHeld(p)'
      BY <3>1, FS_EmptySet DEF PilotHeld, NoPilot
    <3> QED
      BY <1>10, <2>1, <3>1, <3>2, OthersHeld DEF FinishUpload
  <2>7. \A g \in Ledgers : LedgerHeld(ledgers[g])'
    BY <1>0, <2>1 DEF LedgerHeld, InNamespace
  <2> QED
    BY <1>0, <2>1, <2>5, <2>6, <2>7 DEF PineconeInv
<1>11. ASSUME NEW o \in Pilots, OpenVerify(o) PROVE PineconeInv'
  <2>1. PICK u, p :
          /\ u \in uploads
          /\ p = [NoPilot EXCEPT !.at = "count", !.plan = u.plan, !.text = local.text,
                     !.torn = u.torn, !.sample = [i \in Positions(Len(u.plan)) |-> Manifest[i]]]
          /\ Puts(o, p)
    BY <1>11 DEF OpenVerify
  <2>2. PilotHeld(p)
    <3>1. /\ p.at = "count" /\ p.plan = u.plan /\ p.torn = u.torn /\ p.flying = {}
          /\ DOMAIN p = {"at", "plan", "ledger", "text", "skip", "next", "sample", "flying", "done",
                         "failed", "torn"}
      BY <2>1 DEF NoPilot
    <3>2. IsFiniteSet(UNION {})
      BY FS_EmptySet
    <3> QED
      BY <1>0, <2>1, <3>1, <3>2 DEF PilotHeld, Verifying
  <2> QED
    BY <1>3, <1>11, <2>1, <2>2 DEF OpenVerify
<1>12. ASSUME NEW o \in Pilots, CountNamespace(o) PROVE PineconeInv'
  <2>1. PilotHeld(pilot[o]) /\ pilot[o].at = "count"
    BY <1>0, <1>12 DEF CountNamespace
  <2>2. \E p : Puts(o, p) /\ PilotHeld(p)
    <3>1. CASE Puts(o, NoPilot)
      BY <3>1, NoPilotHeld
    <3>2. CASE /\ Cardinality(DOMAIN namespace) = Len(pilot[o].plan)
               /\ Puts(o, [pilot[o] EXCEPT !.at = "sample", !.done = DOMAIN namespace])
      <4>1. ASSUME ~pilot[o].torn PROVE DOMAIN namespace = RecordsOf(pilot[o].plan)
        BY <1>0, <2>1, <3>2, <4>1, HeldIsPlan DEF PilotHeld, Verifying, InNamespace
      <4>2. PilotHeld([pilot[o] EXCEPT !.at = "sample", !.done = DOMAIN namespace])
        BY <2>1, <4>1 DEF PilotHeld, Verifying
      <4> QED
        BY <3>2, <4>2
    <3> QED
      BY <1>12, <3>1, <3>2 DEF CountNamespace
  <2> QED
    BY <1>3, <1>12, <2>2 DEF CountNamespace
<1>13. ASSUME NEW o \in Pilots, LookUpSamples(o) PROVE PineconeInv'
  <2>1. PilotHeld(pilot[o]) /\ pilot[o].at = "sample"
    BY <1>0, <1>13 DEF LookUpSamples
  <2>2. \A v \in verifications' : ~v.torn => v.held = RecordsOf(v.plan)
    BY <1>0, <1>13, <2>1 DEF LookUpSamples, PilotHeld, Verifying
  <2>3. DOMAIN pilot' = Pilots /\ \A q \in Pilots : PilotHeld(pilot[q])'
    <3>1. PICK p : p = NoPilot
      OBVIOUS
    <3>2. PilotHeld(p)'
      BY <3>1, FS_EmptySet DEF PilotHeld, NoPilot
    <3> QED
      BY <1>13, <3>1, <3>2, OthersHeld DEF LookUpSamples
  <2>4. UNCHANGED <<local, audited, ledgers, namespace, uploads, canaries>>
        /\ verifications \subseteq verifications'
    BY <1>13 DEF LookUpSamples
  <2>5. /\ \A f \in Ledgers : LedgerHeld(ledgers[f])'
        /\ \A u \in uploads' : u.plan \in Manifests /\ (~u.torn => InNamespace(RecordsOf(u.plan))')
    BY <1>0, <2>4 DEF LedgerHeld, InNamespace
  <2> QED
    BY <1>0, <2>2, <2>3, <2>4, <2>5 DEF PineconeInv
<1>14. ASSUME NEW o \in Pilots, KillPilot(o) PROVE PineconeInv'
  <2>1. PICK heard \in SUBSET pilot[o].flying :
          /\ Puts(o, NoPilot)
          /\ namespace' = WithText(UNION heard, pilot[o].text, namespace)
    BY <1>14 DEF KillPilot
  <2>2. UNCHANGED <<local, audited, ledgers, uploads, verifications, canaries>>
    BY <1>14 DEF KillPilot
  <2>3. DOMAIN namespace' = (UNION heard) \union DOMAIN namespace
    BY <2>1 DEF WithText
  <2>4. IsFiniteSet(UNION heard)
    <3>1. UNION heard \in SUBSET UNION pilot[o].flying
      BY <2>1
    <3> QED
      BY <1>0, <3>1, FS_Subset DEF PilotHeld
  <2>5. IsFiniteSet(DOMAIN namespace') /\ DOMAIN namespace \subseteq DOMAIN namespace'
    <3> DEFINE more == UNION heard
    <3> HIDE DEF more
    <3>1. IsFiniteSet(more \union DOMAIN namespace)
      BY <1>0, <2>4, FS_Union DEF more
    <3> QED
      BY <2>3, <3>1 DEF more
  <2>6. DOMAIN pilot' = Pilots /\ \A q \in Pilots : PilotHeld(pilot[q])'
    <3>1. PICK p : p = NoPilot
      OBVIOUS
    <3>2. PilotHeld(p)'
      BY <3>1, FS_EmptySet DEF PilotHeld, NoPilot
    <3> QED
      BY <2>1, <2>2, <2>5, <3>1, <3>2, OthersHeld
  <2>7. /\ \A f \in Ledgers : LedgerHeld(ledgers[f])'
        /\ \A u \in uploads' : u.plan \in Manifests /\ (~u.torn => InNamespace(RecordsOf(u.plan))')
    BY <2>2, <2>5, ReportsHeld
  <2> QED
    BY <1>0, <2>2, <2>5, <2>6, <2>7 DEF PineconeInv
<1> QED
  BY <1>1, <1>2, <1>4, <1>5, <1>6, <1>7, <1>8, <1>9, <1>10, <1>11, <1>12, <1>13, <1>14
  DEF PineconeNext

(* A verification that passed, and a canary after it, is of a namespace    *)
(* that held exactly the records of its plan, for any operators, corpora,  *)
(* batches, workers and checkpoint files: the checkpoint is one of records *)
(* the namespace has, as many as the plan names are all of them, and a     *)
(* count that agrees leaves no room for another (_upload, _verify).        *)
THEOREM VerifiedExactly == PineconeSpec => []VerifiedNamespace
<1>1. PineconeSpec => []PineconeInv
  BY InitPinecone, PineconeStep, PTL DEF PineconeSpec
<1>2. PineconeInv => VerifiedNamespace
  BY DEF PineconeInv, VerifiedNamespace
<1> QED
  BY <1>1, <1>2, PTL
===============================================================================
