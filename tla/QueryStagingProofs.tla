------------------------- MODULE QueryStagingProofs -------------------------
(***************************************************************************)
(* Proofs about QueryStaging and the SemanticCache that stands on it, for  *)
(* any number of callers, slots, attempts, windows, resets, questions,     *)
(* revisions and restarts.  What is proved of the query point, and of the  *)
(* cache's answers, assumes that all callers share one process: the lock   *)
(* reaches no further.  The batches need no lock and no such assumption.   *)
(* And proofs about RerankStaging, which shares a collection of the same   *)
(* kind with no lock at all.                                               *)
(***************************************************************************)
EXTENDS SemanticCache, RerankStaging, FiniteSetTheorems, TLAPS

SingleProcess == \A c, d \in Callers : ProcessOf[c] = ProcessOf[d]

\* The lock is held by one caller at a time, and by every caller between
\* its acquisition and its read.
LockSound ==
  /\ \A p \in Processes : \A c, d \in lockedBy[p] : c = d
  /\ \A c \in Callers : call[c].stage \in {"holding", "written"} =>
       c \in lockedBy[ProcessOf[c]]

\* Between upsert and read the query point holds the caller's text, unless
\* the collection was reset or a stray upsert reached it.
QueryPointOwn == QueryPoint \notin strayed => \A c \in Callers :
  call[c].stage = "written" => staged[QueryPoint] \in {call[c].text, NoText}

\* A caller past its call has a text.
CallHasText == \A c \in Callers :
  call[c].stage \in {"waiting", "holding", "written"} => call[c].text \in Questions

QueryInv == /\ StagingTypeOK /\ CallHasText /\ LockSound
            /\ QueryPointOwn /\ SerializedVectorOwn

-----------------------------------------------------------------------------
(* Batch points are natural numbers, so none is the query point. *)
LEMMA BatchPointNat ==
  ASSUME NEW s \in Slots, NEW o \in Nat
  PROVE  BatchPoint(s, o) \in Nat /\ BatchPoint(s, o) # QueryPoint
<1>1. s \in Nat /\ BatchSize \in Nat
  BY SlotsAssumption
<1>2. s * BatchSize \in Nat
  BY <1>1, Z3
<1> QED
  BY <1>2 DEF BatchPoint, QueryPoint

(* A batch upsert names batch points, never the query point. *)
LEMMA BatchWriteLeaves ==
  ASSUME NEW s \in Slots, NEW n
  PROVE  /\ QueryPoint \notin DOMAIN BatchWrite(s, n)
         /\ DOMAIN BatchWrite(s, n) \subseteq Points
<1>1. \A o \in 0..(BatchSize - 1) : QueryPoint # BatchPoint(s, o)
  BY BatchPointNat, SlotsAssumption
<1> QED
  BY <1>1 DEF BatchWrite, Points, BatchPoints

(* What an upsert leaves at the query point. *)
LEMMA ApplyAtQueryPoint ==
  ASSUME NEW write, Apply(write)
  PROVE  /\ DOMAIN staged' = Points
         /\ staged'[QueryPoint] = IF QueryPoint \in DOMAIN write
                                  THEN write[QueryPoint] ELSE staged[QueryPoint]
<1>1. QueryPoint \in Points
  BY DEF Points
<1> QED
  BY <1>1 DEF Apply

LEMMA QueryWriteAt ==
  ASSUME NEW t
  PROVE  /\ QueryPoint \in DOMAIN QueryWrite(t)
         /\ QueryWrite(t)[QueryPoint] = t
         /\ DOMAIN QueryWrite(t) \subseteq Points
BY DEF QueryWrite, Points

-----------------------------------------------------------------------------
(* The parts of the type invariant that a step may change, apart. *)
StoreTypeOK ==
  /\ DOMAIN staged = Points
  /\ staged[QueryPoint] \in Questions \union {NoText}
  /\ DOMAIN stray \subseteq Points /\ strayed \subseteq Points
  /\ QueryPoint \in DOMAIN stray => stray[QueryPoint] \in Questions

THEOREM StagingTypeInit == StagingInit => StagingTypeOK
<1> SUFFICES ASSUME StagingInit PROVE StagingTypeOK
  OBVIOUS
<1>1. call \in [Callers -> CallType]
  BY BoundsAssumption DEF StagingInit, NoCall, CallType
<1>2. round \in 0..MaxRounds /\ resets \in 0..MaxResets
  BY BoundsAssumption DEF StagingInit
<1>3. StoreTypeOK
  BY DEF StagingInit, StoreTypeOK, Points, NoWrite
<1> QED
  BY <1>1, <1>2, <1>3 DEF StagingInit, StagingTypeOK, StoreTypeOK

(* A failed upsert of a well-typed write leaves the store well typed. *)
LEMMA AbandonType ==
  ASSUME StoreTypeOK, NEW write, Abandon(write), DOMAIN write \subseteq Points,
         QueryPoint \in DOMAIN write => write[QueryPoint] \in Questions
  PROVE  StoreTypeOK'
<1>1. CASE UNCHANGED storeVars
  BY <1>1 DEF storeVars, StoreTypeOK
<1>2. CASE Apply(write) /\ UNCHANGED <<stray, strayed>>
  BY <1>2, ApplyAtQueryPoint DEF StoreTypeOK
<1>3. CASE stray' = write /\ UNCHANGED <<staged, strayed>>
  BY <1>3 DEF StoreTypeOK
<1> QED
  BY <1>1, <1>2, <1>3 DEF Abandon

(* The steps of one query call keep every type. *)
LEMMA CallTypeStep ==
  ASSUME StagingTypeOK, CallHasText, NEW c \in Callers,
         \/ \E q \in Questions : Call(c, q)
         \/ EmbedStep(c)
  PROVE  StagingTypeOK' /\ CallHasText'
<1> DEFINE Others == \A d \in Callers \ {c} : call'[d] = call[d]
<1>1. StoreTypeOK
  BY DEF StagingTypeOK, StoreTypeOK
<1>2. SUFFICES /\ StoreTypeOK'
               /\ lockedBy' \in [Processes -> SUBSET Callers]
               /\ DOMAIN call' = Callers /\ call' = [d \in Callers |-> call'[d]]
               /\ Others /\ call'[c] \in CallType
               /\ call'[c].stage \in {"waiting", "holding", "written"} =>
                    call'[c].text \in Questions
               /\ UNCHANGED <<batch, round, resets>>
  <2>1. call' \in [Callers -> CallType]
    BY <1>2 DEF StagingTypeOK
  <2> QED
    BY <1>2, <2>1 DEF StagingTypeOK, StoreTypeOK, CallHasText
<1>3. ProcessOf[c] \in Processes /\ call[c] \in CallType
  BY CallersAssumption DEF StagingTypeOK
<1>4. call \in [Callers -> CallType] /\ lockedBy \in [Processes -> SUBSET Callers]
  BY DEF StagingTypeOK
<1> 0 \in 0..MaxAttempts /\ 1 \in 0..MaxAttempts
  BY BoundsAssumption
<1>5. Release(c) => lockedBy' \in [Processes -> SUBSET Callers]
  BY <1>3, <1>4 DEF Release
<1>6. CASE \E q \in Questions : Call(c, q)
  <2>1. StoreTypeOK' /\ lockedBy' = lockedBy
    BY <1>1, <1>6 DEF Call, storeVars, StoreTypeOK
  <2>2. PICK q \in Questions :
          call' = [call EXCEPT ![c] = [NoCall EXCEPT !.stage = "waiting", !.text = q]]
    BY <1>6 DEF Call
  <2>3. call'[c] \in CallType /\ call'[c].text \in Questions
    <3>1. call'[c] = [NoCall EXCEPT !.stage = "waiting", !.text = q]
      BY <1>4, <2>2
    <3> QED
      BY <3>1 DEF NoCall, CallType
  <2> QED
    BY <1>4, <1>6, <2>1, <2>2, <2>3 DEF Call
<1>7. CASE Acquire(c)
  <2>1. StoreTypeOK' /\ lockedBy' \in [Processes -> SUBSET Callers]
    BY <1>1, <1>3, <1>4, <1>7 DEF Acquire, storeVars, StoreTypeOK
  <2>2. call' = [call EXCEPT ![c] = [call[c] EXCEPT !.stage = "holding",
                                                    !.attempt = 1]]
    BY <1>3, <1>4, <1>7 DEF Acquire, CallType
  <2>3. call'[c] \in CallType /\ call'[c].text = call[c].text
    <3>1. call'[c] = [call[c] EXCEPT !.stage = "holding", !.attempt = 1]
      BY <1>4, <2>2
    <3> QED
      BY <1>3, <3>1 DEF CallType
  <2> QED
    BY <1>4, <1>7, <2>1, <2>2, <2>3 DEF Acquire, CallHasText
<1>8. CASE UpsertQuery(c)
  <2>1. call[c].text \in Questions
    BY <1>8 DEF UpsertQuery, CallHasText
  <2>2. StoreTypeOK' /\ lockedBy' = lockedBy
    BY <1>1, <1>8, <2>1, ApplyAtQueryPoint, QueryWriteAt
    DEF UpsertQuery, StoreTypeOK
  <2>3. call' = [call EXCEPT ![c] = [call[c] EXCEPT !.stage = "written"]]
    BY <1>8 DEF UpsertQuery
  <2>4. call'[c] \in CallType /\ call'[c].text = call[c].text
    BY <1>3, <1>4, <2>3 DEF CallType
  <2> QED
    BY <1>4, <1>8, <2>1, <2>2, <2>3, <2>4 DEF UpsertQuery
<1>9. CASE RetrieveQuery(c)
  <2>1. StoreTypeOK' /\ lockedBy' \in [Processes -> SUBSET Callers]
    BY <1>1, <1>5, <1>9 DEF RetrieveQuery, storeVars, StoreTypeOK
  <2>2. PICK s \in {"failed", "returned"} :
          call' = [call EXCEPT ![c] = [call[c] EXCEPT !.vector = staged[QueryPoint],
                                                      !.stage = s]]
    BY <1>3, <1>4, <1>9 DEF RetrieveQuery, CallType
  <2>3. call'[c] \in CallType /\ call'[c].stage = s
    BY <1>1, <1>3, <1>4, <2>2 DEF CallType, StoreTypeOK
  <2> QED
    BY <1>4, <1>9, <2>1, <2>2, <2>3 DEF RetrieveQuery
<1>10. CASE TransientFailure(c)
  <2>1. call[c].text \in Questions
    BY <1>10 DEF TransientFailure, CallHasText
  <2>2. StoreTypeOK'
    <3>1. CASE Abandon(QueryWrite(call[c].text))
      BY <1>1, <2>1, <3>1, AbandonType, QueryWriteAt
    <3>2. CASE UNCHANGED storeVars
      BY <1>1, <3>2 DEF storeVars, StoreTypeOK
    <3> QED
      BY <1>10, <3>1, <3>2 DEF TransientFailure
  <2>3. CASE call[c].attempt < MaxAttempts /\ UNCHANGED lockedBy
             /\ call' = [call EXCEPT ![c].stage = "holding", ![c].attempt = @ + 1]
    <3>1. call' = [call EXCEPT ![c] = [call[c] EXCEPT !.stage = "holding",
                                              !.attempt = call[c].attempt + 1]]
      BY <1>3, <1>4, <2>3 DEF CallType
    <3>2. call[c].attempt + 1 \in 0..MaxAttempts
      BY <1>3, <2>3, BoundsAssumption DEF CallType
    <3>3. call'[c] \in CallType /\ call'[c].text = call[c].text
      BY <1>3, <1>4, <3>1, <3>2 DEF CallType
    <3> QED
      BY <1>4, <1>10, <2>1, <2>2, <2>3, <3>1, <3>3 DEF TransientFailure
  <2>4. CASE Release(c) /\ call' = [call EXCEPT ![c].stage = "failed"]
    <3>1. call' = [call EXCEPT ![c] = [call[c] EXCEPT !.stage = "failed"]]
      BY <2>4
    <3>2. call'[c] \in CallType /\ call'[c].text = call[c].text
      BY <1>3, <1>4, <3>1 DEF CallType
    <3> QED
      BY <1>4, <1>5, <1>10, <2>1, <2>2, <2>4, <3>1, <3>2 DEF TransientFailure
  <2> QED
    BY <1>10, <2>3, <2>4 DEF TransientFailure
<1> QED
  BY <1>6, <1>7, <1>8, <1>9, <1>10 DEF EmbedStep

(* Batches, windows, resets and strays leave the calls and the lock alone,  *)
(* and the query point as it is, or empty, or written by a stray.          *)
LEMMA OtherStep ==
  ASSUME StagingTypeOK, BatchStep \/ NextWindow \/ ResetStaging \/ StrayLands
  PROVE  /\ StagingTypeOK'
         /\ UNCHANGED <<lockedBy, call>>
         /\ strayed \subseteq strayed'
         /\ QueryPoint \notin strayed' =>
              staged'[QueryPoint] \in {staged[QueryPoint], NoText}
<1>1. StoreTypeOK
  BY DEF StagingTypeOK, StoreTypeOK
<1>2. UNCHANGED <<lockedBy, call>>
  BY DEF BatchStep, UpsertBatch, RetrieveBatch, TransientBatch, NextWindow,
         ResetStaging, StrayLands
<1>3. /\ DOMAIN batch' = Slots
      /\ round' \in 0..MaxRounds /\ resets' \in 0..MaxResets
  <2>1. CASE BatchStep
    BY <2>1 DEF StagingTypeOK, BatchStep, UpsertBatch, RetrieveBatch, TransientBatch
  <2>2. CASE NextWindow
    BY <2>2, BoundsAssumption DEF StagingTypeOK, NextWindow
  <2>3. CASE ResetStaging \/ StrayLands
    BY <2>3, BoundsAssumption DEF StagingTypeOK, ResetStaging, StrayLands
  <2> QED
    BY <2>1, <2>2, <2>3
<1> DEFINE StoreStep == /\ StoreTypeOK'
                        /\ strayed \subseteq strayed'
                        /\ QueryPoint \notin strayed' =>
                             staged'[QueryPoint] \in {staged[QueryPoint], NoText}
<1>4. UNCHANGED storeVars => StoreStep
  BY <1>1 DEF storeVars, StoreTypeOK
<1>5. ASSUME NEW s \in Slots, UpsertBatch(s) \/ RetrieveBatch(s) \/ TransientBatch(s)
      PROVE  StoreStep
  <2>1. PICK write : write = BatchWrite(s, batch[s].count)
    OBVIOUS
  <2>2. QueryPoint \notin DOMAIN write /\ DOMAIN write \subseteq Points
    BY <2>1, BatchWriteLeaves
  <2>3. Apply(write) /\ UNCHANGED <<stray, strayed>> => StoreStep
    BY <1>1, <2>2, ApplyAtQueryPoint DEF StoreTypeOK
  <2>4. stray' = write /\ UNCHANGED <<staged, strayed>> => StoreStep
    BY <1>1, <2>2 DEF StoreTypeOK
  <2> QED
    BY <1>4, <1>5, <2>1, <2>3, <2>4
    DEF UpsertBatch, RetrieveBatch, TransientBatch, Abandon
<1>6. ASSUME NextWindow PROVE StoreStep
  BY <1>4, <1>6 DEF NextWindow
<1>7. ASSUME ResetStaging PROVE StoreStep
  BY <1>1, <1>7 DEF ResetStaging, StoreTypeOK, Points
<1>8. ASSUME StrayLands PROVE StoreStep
  BY <1>1, <1>8, ApplyAtQueryPoint DEF StrayLands, StoreTypeOK, NoWrite
<1>9. StoreStep
  BY <1>5, <1>6, <1>7, <1>8 DEF BatchStep
<1>10. StagingTypeOK'
  BY <1>2, <1>3, <1>9 DEF StagingTypeOK, StoreTypeOK
<1> QED
  BY <1>2, <1>9, <1>10

(* The steps of one query call keep the lock sound. *)
LEMMA LockStep ==
  ASSUME StagingTypeOK, LockSound, NEW c \in Callers,
         \/ \E q \in Questions : Call(c, q)
         \/ EmbedStep(c)
  PROVE  LockSound'
<1>1. ProcessOf \in [Callers -> Processes] /\ ProcessOf[c] \in Processes
  BY CallersAssumption
<1>2. call \in [Callers -> CallType] /\ lockedBy \in [Processes -> SUBSET Callers]
  BY DEF StagingTypeOK
<1>3. call[c] \in CallType
  BY <1>2
<1> DEFINE Busy(x) == x.stage \in {"holding", "written"}
<1> DEFINE OthersSame == \A d \in Callers \ {c} : call'[d] = call[d]
<1>4. (OthersSame /\ UNCHANGED lockedBy /\ (Busy(call'[c]) => Busy(call[c])))
      => LockSound'
  BY <1>1, <1>2 DEF LockSound
<1>5. (OthersSame /\ Release(c) /\ ~Busy(call'[c])) => LockSound'
  <2> SUFFICES ASSUME OthersSame, Release(c), ~Busy(call'[c]) PROVE LockSound'
    OBVIOUS
  <2>1. \A p \in Processes : lockedBy'[p] =
          IF p = ProcessOf[c] THEN lockedBy[p] \ {c} ELSE lockedBy[p]
    BY <1>1, <1>2 DEF Release
  <2>2. \A p \in Processes : \A d, e \in lockedBy'[p] : d = e
    BY <2>1 DEF LockSound
  <2>3. \A d \in Callers : Busy(call'[d]) => d \in lockedBy'[ProcessOf[d]]
    BY <1>1, <2>1 DEF LockSound
  <2> QED
    BY <2>2, <2>3 DEF LockSound
<1>6. CASE \E q \in Questions : Call(c, q)
  <2>1. OthersSame /\ call'[c].stage = "waiting" /\ UNCHANGED lockedBy
    BY <1>2, <1>6 DEF Call, NoCall
  <2> QED
    BY <1>4, <2>1
<1>7. CASE Acquire(c)
  <2>1. OthersSame /\ lockedBy[ProcessOf[c]] = {}
    BY <1>2, <1>7 DEF Acquire
  <2>2. \A p \in Processes : lockedBy'[p] =
          IF p = ProcessOf[c] THEN {c} ELSE lockedBy[p]
    BY <1>1, <1>2, <1>7 DEF Acquire
  <2>3. \A p \in Processes : \A d, e \in lockedBy'[p] : d = e
    BY <2>2 DEF LockSound
  <2>4. \A d \in Callers : Busy(call'[d]) => d \in lockedBy'[ProcessOf[d]]
    BY <1>1, <2>1, <2>2 DEF LockSound
  <2> QED
    BY <2>3, <2>4 DEF LockSound
<1>8. CASE UpsertQuery(c)
  <2>1. OthersSame /\ Busy(call[c]) /\ UNCHANGED lockedBy
    BY <1>2, <1>8 DEF UpsertQuery
  <2> QED
    BY <1>4, <2>1
<1>9. CASE RetrieveQuery(c)
  <2>1. OthersSame /\ Release(c)
    BY <1>2, <1>9 DEF RetrieveQuery
  <2>2. call'[c].stage \in {"failed", "returned"}
    BY <1>2, <1>3, <1>9 DEF RetrieveQuery, CallType
  <2> QED
    BY <1>5, <2>1, <2>2
<1>10. CASE TransientFailure(c)
  <2>1. OthersSame /\ Busy(call[c])
    BY <1>2, <1>10 DEF TransientFailure
  <2>2. CASE UNCHANGED lockedBy
    BY <1>4, <2>1, <2>2
  <2>3. CASE Release(c) /\ call' = [call EXCEPT ![c].stage = "failed"]
    <3>1. call'[c].stage = "failed"
      BY <1>2, <1>3, <2>3 DEF CallType
    <3> QED
      BY <1>5, <2>1, <2>3, <3>1
  <2> QED
    BY <1>10, <2>2, <2>3 DEF TransientFailure
<1> QED
  BY <1>6, <1>7, <1>8, <1>9, <1>10 DEF EmbedStep

(* The steps of one query call keep its text and its vector together. *)
LEMMA VectorStep ==
  ASSUME SingleProcess, QueryInv, NEW c \in Callers,
         \/ \E q \in Questions : Call(c, q)
         \/ EmbedStep(c)
  PROVE  QueryPointOwn' /\ SerializedVectorOwn'
<1>1. call \in [Callers -> CallType] /\ call[c] \in CallType
  BY DEF QueryInv, StagingTypeOK
<1>2. ASSUME NEW d \in Callers, call[c].stage \in {"holding", "written"},
             call[d].stage = "written"
      PROVE  d = c
  <2>1. c \in lockedBy[ProcessOf[c]] /\ d \in lockedBy[ProcessOf[c]]
    BY <1>2 DEF QueryInv, LockSound, SingleProcess
  <2> QED
    BY <2>1, CallersAssumption DEF QueryInv, LockSound
<1> DEFINE OthersSame == \A d \in Callers \ {c} : call'[d] = call[d]
<1>3. OthersSame /\ strayed' = strayed
  BY <1>1 DEF EmbedStep, Call, Acquire, UpsertQuery, RetrieveQuery,
              TransientFailure, Abandon, storeVars
<1>4. SUFFICES ASSUME QueryPoint \notin strayed
               PROVE  /\ \A d \in Callers : call'[d].stage = "written" =>
                           staged'[QueryPoint] \in {call'[d].text, NoText}
                      /\ \A d \in Callers : call'[d].stage = "returned" =>
                           call'[d].vector = call'[d].text
  BY <1>3 DEF QueryPointOwn, SerializedVectorOwn, QueryVectorOwn
<1>5. \A d \in Callers : /\ call[d].stage = "written" =>
                             staged[QueryPoint] \in {call[d].text, NoText}
                         /\ call[d].stage = "returned" =>
                             call[d].vector = call[d].text
  BY <1>4 DEF QueryInv, QueryPointOwn, SerializedVectorOwn, QueryVectorOwn
<1>6. CASE \E q \in Questions : Call(c, q)
  <2>1. call'[c].stage = "waiting" /\ staged' = staged
    BY <1>1, <1>6 DEF Call, NoCall, storeVars
  <2> QED
    BY <1>3, <1>5, <2>1
<1>7. CASE Acquire(c)
  <2>1. call'[c].stage = "holding" /\ staged' = staged
    BY <1>1, <1>7 DEF Acquire, storeVars, CallType
  <2> QED
    BY <1>3, <1>5, <2>1
<1>8. CASE UpsertQuery(c)
  <2>1. call'[c].stage = "written" /\ call'[c].text = call[c].text
    BY <1>1, <1>8 DEF UpsertQuery, CallType
  <2>2. staged'[QueryPoint] = call[c].text
    BY <1>8, ApplyAtQueryPoint, QueryWriteAt DEF UpsertQuery
  <2>3. \A d \in Callers : call[d].stage = "written" => d = c
    BY <1>2, <1>8 DEF UpsertQuery
  <2> QED
    BY <1>3, <1>5, <2>1, <2>2, <2>3
<1>9. CASE RetrieveQuery(c)
  <2>1. staged' = staged /\ call[c].stage = "written"
    BY <1>9 DEF RetrieveQuery, storeVars
  <2>2. /\ call'[c].text = call[c].text /\ call'[c].vector = staged[QueryPoint]
        /\ call'[c].stage = IF staged[QueryPoint] = NoText
                            THEN "failed" ELSE "returned"
    BY <1>1, <1>9 DEF RetrieveQuery, CallType
  <2> QED
    BY <1>3, <1>5, <2>1, <2>2
<1>10. CASE TransientFailure(c)
  <2>1. call'[c].stage \in {"holding", "failed"}
    BY <1>1, <1>10 DEF TransientFailure, CallType
  <2>2. \A d \in Callers : call[d].stage = "written" => d = c
    BY <1>2, <1>10 DEF TransientFailure
  <2> QED
    BY <1>3, <1>5, <2>1, <2>2
<1> QED
  BY <1>6, <1>7, <1>8, <1>9, <1>10 DEF EmbedStep

LEMMA QueryInvInit == StagingInit => QueryInv
BY StagingTypeInit
DEF StagingInit, QueryInv, CallHasText, LockSound, QueryPointOwn,
    SerializedVectorOwn, QueryVectorOwn, NoCall

LEMMA QueryInvStep ==
  ASSUME SingleProcess, QueryInv, [StagingNext]_stagingVars
  PROVE  QueryInv'
<1>1. ASSUME NEW c \in Callers,
             (\E q \in Questions : Call(c, q)) \/ EmbedStep(c)
      PROVE  QueryInv'
  BY <1>1, CallTypeStep, LockStep, VectorStep DEF QueryInv
<1>2. ASSUME BatchStep \/ NextWindow \/ ResetStaging \/ StrayLands
      PROVE  QueryInv'
  <2>1. StagingTypeOK' /\ UNCHANGED <<lockedBy, call>>
    BY <1>2, OtherStep DEF QueryInv
  <2>2. QueryPoint \notin strayed' =>
          /\ QueryPoint \notin strayed
          /\ staged'[QueryPoint] \in {staged[QueryPoint], NoText}
    BY <1>2, OtherStep DEF QueryInv
  <2> QED
    BY <2>1, <2>2 DEF QueryInv, CallHasText, LockSound, QueryPointOwn,
                      SerializedVectorOwn, QueryVectorOwn
<1>3. CASE UNCHANGED stagingVars
  BY <1>3 DEF stagingVars, storeVars, QueryInv, StagingTypeOK, CallHasText,
              LockSound, QueryPointOwn, SerializedVectorOwn, QueryVectorOwn
<1> QED
  BY <1>1, <1>2, <1>3 DEF StagingNext

(* In one process, and until a timed-out upsert is applied late, every     *)
(* query embedding that returns is that query's own: the fixed slot and    *)
(* _QUERY_SLOT_LOCK suffice for any number of threads, retries, ingestion  *)
(* batches and resets of the staging collection.                           *)
THEOREM OneProcessQueries ==
  ASSUME SingleProcess
  PROVE  StagingSpec => []SerializedVectorOwn
<1>1. QueryInv /\ [StagingNext]_stagingVars => QueryInv'
  BY QueryInvStep
<1>2. QueryInv => SerializedVectorOwn
  BY DEF QueryInv
<1> QED
  BY <1>1, <1>2, QueryInvInit, PTL DEF StagingSpec
-----------------------------------------------------------------------------
(* Ingestion batches.                                                      *)

\* The fields of a batch, and the size that fits its slot.
BatchShape ==
  /\ batch = [s \in Slots |-> batch[s]]
  /\ \A s \in Slots : /\ DOMAIN batch[s] = {"stage", "count", "got"}
                      /\ batch[s].count \in 1..BatchSize
                      /\ batch[s].stage \in {"ready", "written", "returned", "failed"}

\* Between upsert and retrieve every point of a batch holds its own document
\* or was emptied by a reset, unless a stray upsert reached it.
WrittenOwn == \A s \in Slots : batch[s].stage = "written" =>
  \A o \in 0..(batch[s].count - 1) :
    BatchPoint(s, o) \notin strayed =>
      staged[BatchPoint(s, o)] \in {DocText(round, s, o), NoText}

BatchInv == BatchShape /\ WrittenOwn /\ BatchVectorsOwn

(* Window slots lie BatchSize points apart: no two of them share a point.  *)
LEMMA BatchPointApart ==
  ASSUME NEW s \in Slots, NEW t \in Slots, NEW o \in 0..(BatchSize - 1),
         NEW k \in 0..(BatchSize - 1), BatchPoint(s, o) = BatchPoint(t, k)
  PROVE  s = t /\ o = k
<1>1. s \in Nat /\ t \in Nat /\ BatchSize \in Nat \ {0}
  BY SlotsAssumption
<1>2. ASSUME NEW a \in Nat, NEW b \in Nat, a < b
      PROVE  a * BatchSize + BatchSize <= b * BatchSize
  <2>1. PICK d \in Nat : b = a + 1 + d
    <3>1. b - a - 1 \in Nat /\ b = a + 1 + (b - a - 1)
      BY <1>2
    <3> QED
      BY <3>1
  <2>2. b * BatchSize = a * BatchSize + BatchSize + d * BatchSize
    BY <1>1, <2>1, Z3
  <2>3. d * BatchSize \in Nat /\ a * BatchSize \in Nat
    BY <1>1, Z3
  <2> QED
    BY <1>1, <2>2, <2>3
<1>3. s * BatchSize \in Nat /\ t * BatchSize \in Nat
  BY <1>1, Z3
<1>4. s * BatchSize + o = t * BatchSize + k
  BY DEF BatchPoint
<1>5. ~(s < t)
  <2> SUFFICES ASSUME s < t PROVE FALSE
    OBVIOUS
  <2>1. s * BatchSize + BatchSize <= t * BatchSize
    BY <1>1, <1>2
  <2> QED
    BY <1>1, <1>3, <1>4, <2>1
<1>6. ~(t < s)
  <2> SUFFICES ASSUME t < s PROVE FALSE
    OBVIOUS
  <2>1. t * BatchSize + BatchSize <= s * BatchSize
    BY <1>1, <1>2
  <2> QED
    BY <1>1, <1>3, <1>4, <2>1
<1>7. s = t
  BY <1>1, <1>5, <1>6
<1> QED
  BY <1>1, <1>3, <1>4, <1>7

(* The points a batch upsert names, and the text it leaves there. *)
LEMMA BatchWriteAt ==
  ASSUME NEW s \in Slots, NEW n \in 1..BatchSize,
         NEW t \in Slots, NEW o \in 0..(BatchSize - 1)
  PROVE  /\ BatchPoint(t, o) \in DOMAIN BatchWrite(s, n) <=> t = s /\ o < n
         /\ t = s /\ o < n =>
              BatchWrite(s, n)[BatchPoint(t, o)] = DocText(round, s, o)
<1>1. DOMAIN BatchWrite(s, n) =
        {BatchPoint(s, k) : k \in {j \in 0..(BatchSize - 1) : j < n}}
  BY DEF BatchWrite
<1>2. BatchPoint(t, o) \in DOMAIN BatchWrite(s, n) <=> t = s /\ o < n
  BY <1>1, BatchPointApart
<1>3. ASSUME t = s, o < n
      PROVE  BatchWrite(s, n)[BatchPoint(t, o)] = DocText(round, s, o)
  <2>1. BatchWrite(s, n)[BatchPoint(s, o)] =
          DocText(round, s, BatchPoint(s, o) - BatchPoint(s, 0))
    BY <1>1, <1>3 DEF BatchWrite
  <2>2. BatchPoint(s, o) - BatchPoint(s, 0) = o
    <3>1. s * BatchSize \in Nat /\ BatchSize \in Nat
      BY SlotsAssumption, Z3
    <3> QED
      BY <3>1 DEF BatchPoint
  <2> QED
    BY <1>3, <2>1, <2>2
<1> QED
  BY <1>2, <1>3

LEMMA ApplyAt ==
  ASSUME NEW write, Apply(write), NEW p \in Points
  PROVE  staged'[p] = IF p \in DOMAIN write THEN write[p] ELSE staged[p]
BY DEF Apply

LEMMA BatchPointIn ==
  ASSUME NEW s \in Slots, NEW o \in 0..(BatchSize - 1)
  PROVE  BatchPoint(s, o) \in Points /\ BatchPoint(s, o) # QueryPoint
<1>1. o \in Nat
  BY SlotsAssumption
<1> QED
  BY <1>1, BatchPointNat DEF Points, BatchPoints

(* What a step that writes no slot does to a batch point. *)
Untouched(s, o) == \/ BatchPoint(s, o) \in strayed'
                   \/ staged'[BatchPoint(s, o)] \in {staged[BatchPoint(s, o)], NoText}

(* The queries, a reset and a stray upsert keep the batches. *)
LEMMA OtherKeepsBatches ==
  ASSUME BatchInv, UNCHANGED <<batch, round>>, strayed \subseteq strayed',
         \A s \in Slots : \A o \in 0..(BatchSize - 1) : Untouched(s, o)
  PROVE  BatchInv'
<1>1. BatchShape' /\ BatchVectorsOwn'
  BY DEF BatchInv, BatchShape, BatchVectorsOwn, DocText
<1>2. WrittenOwn'
  <2> SUFFICES ASSUME NEW s \in Slots, batch[s].stage = "written",
                      NEW o \in 0..(batch[s].count - 1),
                      BatchPoint(s, o) \notin strayed'
               PROVE  staged'[BatchPoint(s, o)] \in {DocText(round, s, o), NoText}
    BY DEF WrittenOwn, DocText
  <2>1. o \in 0..(BatchSize - 1)
    BY SlotsAssumption DEF BatchInv, BatchShape
  <2>2. staged[BatchPoint(s, o)] \in {DocText(round, s, o), NoText}
    BY DEF BatchInv, WrittenOwn
  <2> QED
    BY <2>1, <2>2 DEF Untouched
<1> QED
  BY <1>1, <1>2 DEF BatchInv

LEMMA QueryStepsKeepBatches ==
  ASSUME BatchInv, NEW c \in Callers,
         (\E q \in Questions : Call(c, q)) \/ EmbedStep(c)
  PROVE  BatchInv'
<1>1. UNCHANGED <<batch, round, strayed>>
  BY DEF EmbedStep, Call, Acquire, UpsertQuery, RetrieveQuery,
         TransientFailure, Abandon, storeVars
<1>2. \/ UNCHANGED staged
      \/ \E t : Apply(QueryWrite(t))
  <2>1. CASE TransientFailure(c)
    BY <2>1 DEF TransientFailure, Abandon, storeVars
  <2>2. CASE UpsertQuery(c)
    BY <2>2 DEF UpsertQuery
  <2> QED
    BY <2>1, <2>2 DEF EmbedStep, Call, Acquire, RetrieveQuery, storeVars
<1>3. ASSUME NEW s \in Slots, NEW o \in 0..(BatchSize - 1)
      PROVE  staged'[BatchPoint(s, o)] = staged[BatchPoint(s, o)]
  BY <1>2, ApplyAt, BatchPointIn DEF QueryWrite
<1> QED
  BY <1>1, <1>3, OtherKeepsBatches DEF Untouched

(* The steps of one slot keep the batches. *)
LEMMA BatchStepKeepsBatches ==
  ASSUME BatchInv, NEW s \in Slots,
         UpsertBatch(s) \/ RetrieveBatch(s) \/ TransientBatch(s)
  PROVE  BatchInv'
<1> DEFINE Own(o) == DocText(round, s, o)
           n == batch[s].count
<1>1. /\ BatchShape /\ n \in 1..BatchSize /\ BatchSize \in Nat \ {0}
      /\ UNCHANGED <<round, strayed>>
  BY SlotsAssumption
  DEF BatchInv, BatchShape, UpsertBatch, RetrieveBatch, TransientBatch, Abandon, storeVars
<1>2. ASSUME NEW x, batch' = [batch EXCEPT ![s].stage = x],
             x \in {"ready", "written", "failed"}
      PROVE  /\ BatchShape' /\ batch'[s].count = n /\ batch'[s].stage = x
             /\ \A t \in Slots \ {s} : batch'[t] = batch[t]
  BY <1>1, <1>2 DEF BatchShape
<1>3. ASSUME NEW t \in Slots \ {s}, NEW o \in 0..(BatchSize - 1)
      PROVE  staged'[BatchPoint(t, o)] = staged[BatchPoint(t, o)]
  <2>1. BatchPoint(t, o) \notin DOMAIN BatchWrite(s, n)
    BY <1>1, BatchWriteAt
  <2>2. ASSUME Apply(BatchWrite(s, n))
        PROVE  staged'[BatchPoint(t, o)] = staged[BatchPoint(t, o)]
    BY <2>1, <2>2, ApplyAt, BatchPointIn
  <2> QED
    BY <2>2 DEF UpsertBatch, RetrieveBatch, TransientBatch, Abandon, storeVars
\* The other slots keep their points; what is left is the slot itself.
<1>4. ASSUME BatchShape', \A t \in Slots \ {s} : batch'[t] = batch[t],
             batch'[s].stage = "written" => \A o \in 0..(batch'[s].count - 1) :
               staged'[BatchPoint(s, o)] \in {Own(o), NoText},
             batch'[s].stage = "returned" => \A o \in DOMAIN batch'[s].got :
               BatchPoint(s, o) \notin strayed => batch'[s].got[o] = Own(o)
      PROVE  BatchInv'
  <2>1. WrittenOwn'
    <3> SUFFICES ASSUME NEW t \in Slots, batch'[t].stage = "written",
                        NEW o \in 0..(batch'[t].count - 1),
                        BatchPoint(t, o) \notin strayed
                 PROVE  staged'[BatchPoint(t, o)] \in {DocText(round, t, o), NoText}
      BY <1>1 DEF WrittenOwn, DocText
    <3>1. CASE t = s
      BY <1>4, <3>1
    <3>2. CASE t # s
      <4>1. o \in 0..(BatchSize - 1) /\ batch'[t] = batch[t]
        BY <1>1, <1>4, <3>2 DEF BatchShape
      <4>2. staged[BatchPoint(t, o)] \in {DocText(round, t, o), NoText}
        BY <4>1 DEF BatchInv, WrittenOwn
      <4> QED
        BY <1>3, <3>2, <4>1, <4>2
    <3> QED
      BY <3>1, <3>2
  <2>2. BatchVectorsOwn'
    <3> SUFFICES ASSUME NEW t \in Slots, batch'[t].stage = "returned",
                        NEW o \in DOMAIN batch'[t].got,
                        BatchPoint(t, o) \notin strayed
                 PROVE  batch'[t].got[o] = DocText(round, t, o)
      BY <1>1 DEF BatchVectorsOwn, DocText
    <3> QED
      BY <1>4 DEF BatchInv, BatchVectorsOwn
  <2> QED
    BY <1>4, <2>1, <2>2 DEF BatchInv
<1>5. CASE UpsertBatch(s)
  <2>1. batch' = [batch EXCEPT ![s].stage = "written"]
    BY <1>5 DEF UpsertBatch
  <2>2. ASSUME NEW o \in 0..(n - 1)
        PROVE  staged'[BatchPoint(s, o)] = Own(o)
    <3>1. o \in 0..(BatchSize - 1) /\ o < n
      BY <1>1
    <3>2. /\ BatchPoint(s, o) \in DOMAIN BatchWrite(s, n)
          /\ BatchWrite(s, n)[BatchPoint(s, o)] = Own(o)
      BY <1>1, <3>1, BatchWriteAt
    <3>3. Apply(BatchWrite(s, n))
      BY <1>5 DEF UpsertBatch
    <3> QED
      BY <3>1, <3>2, <3>3, ApplyAt, BatchPointIn
  <2> QED
    BY <1>2, <1>4, <2>1, <2>2
<1>6. CASE RetrieveBatch(s)
  <2> DEFINE got == [o \in 0..(n - 1) |-> staged[BatchPoint(s, o)]]
             whole == \A o \in DOMAIN got : got[o] # NoText
  <2>1. batch' = [batch EXCEPT ![s].got = got,
                               ![s].stage = IF whole THEN "returned" ELSE "failed"]
    BY <1>6 DEF RetrieveBatch
  <2> HIDE DEF got, whole
  <2>2. /\ BatchShape' /\ batch'[s].got = got
        /\ batch'[s].stage = IF whole THEN "returned" ELSE "failed"
        /\ \A t \in Slots \ {s} : batch'[t] = batch[t]
    BY <1>1, <2>1 DEF BatchShape
  <2>3. ASSUME whole, NEW o \in DOMAIN got, BatchPoint(s, o) \notin strayed
        PROVE  got[o] = Own(o)
    <3>1. o \in 0..(n - 1) /\ got[o] = staged[BatchPoint(s, o)] /\ got[o] # NoText
      BY <2>3 DEF got, whole
    <3>2. staged[BatchPoint(s, o)] \in {Own(o), NoText}
      BY <1>6, <2>3, <3>1 DEF RetrieveBatch, BatchInv, WrittenOwn
    <3> QED
      BY <3>1, <3>2
  <2> QED
    BY <1>4, <2>2, <2>3
<1>7. CASE TransientBatch(s)
  <2>1. PICK x \in {"ready", "failed"} : batch' = [batch EXCEPT ![s].stage = x]
    BY <1>7 DEF TransientBatch
  <2> QED
    BY <1>2, <1>4, <2>1
<1> QED
  BY <1>5, <1>6, <1>7

LEMMA BatchInvInit == StagingInit => BatchInv
BY DEF StagingInit, ReadyBatches, BatchInv, BatchShape, WrittenOwn, BatchVectorsOwn

LEMMA BatchInvStep == BatchInv /\ [StagingNext]_stagingVars => BatchInv'
<1> SUFFICES ASSUME BatchInv, [StagingNext]_stagingVars PROVE BatchInv'
  OBVIOUS
<1>1. ASSUME NextWindow PROVE BatchInv'
  BY <1>1 DEF NextWindow, ReadyBatches, BatchInv, BatchShape, WrittenOwn,
              BatchVectorsOwn
<1>2. ASSUME ResetStaging PROVE BatchInv'
  <2>1. \A s \in Slots : \A o \in 0..(BatchSize - 1) : Untouched(s, o)
    BY <1>2, BatchPointIn DEF ResetStaging, Untouched
  <2> QED
    BY <1>2, <2>1, OtherKeepsBatches DEF ResetStaging
<1>3. ASSUME StrayLands PROVE BatchInv'
  <2>1. \A s \in Slots : \A o \in 0..(BatchSize - 1) : Untouched(s, o)
    BY <1>3, ApplyAt, BatchPointIn DEF StrayLands, Untouched
  <2> QED
    BY <1>3, <2>1, OtherKeepsBatches DEF StrayLands
<1>4. ASSUME UNCHANGED stagingVars PROVE BatchInv'
  BY <1>4, OtherKeepsBatches DEF stagingVars, storeVars, Untouched
<1> QED
  BY <1>1, <1>2, <1>3, <1>4, QueryStepsKeepBatches, BatchStepKeepsBatches
  DEF StagingNext, BatchStep

(* Every vector an ingestion batch reads back embeds its own document,     *)
(* unless a timed-out upsert reached that point late: for any number of    *)
(* slots, batch size, windows, retries, resets and queries meanwhile, and  *)
(* in any number of processes.  Distinct points stand in for a lock.       *)
THEOREM BatchesOwn == StagingSpec => []BatchVectorsOwn
<1>1. BatchInv => BatchVectorsOwn
  BY DEF BatchInv
<1> QED
  BY <1>1, BatchInvInit, BatchInvStep, PTL DEF StagingSpec

-----------------------------------------------------------------------------
(* The semantic cache.  A step of SemanticCache is a step of the staging   *)
(* collection, frees a caller that has its vector, or restarts a process.  *)

\* A request past "new" has a question.
QuestionAsked == \A c \in Callers :
  req[c].stage # "new" => req[c].q \in Questions

\* The embedding a request waits for is of its question; a request that is
\* new has no answer.
RequestBound == \A c \in Callers :
  /\ req[c].stage = "new" => req[c].hit = NoEntry
  /\ req[c].stage \in {"check", "saving"} =>
       call[c].stage # "idle" /\ call[c].text = req[c].q

\* A vector that was returned is a vector.
VectorReal == \A c \in Callers :
  call[c].stage = "returned" => call[c].vector # NoText

TypeInv == TypeOK /\ CallHasText /\ QuestionAsked

CacheInv == /\ TypeInv /\ QueryInv /\ RequestBound
            /\ VectorReal /\ HitAnswersQuestion

RequestType ==
  [stage : {"new", "check", "generate", "save", "saving", "done"},
   q : Questions \union {NoText},
   mode : Modes,
   hit : Entries \union {NoEntry}]

\* What a restart does to the calls of its process.
Restarted(p) ==
  /\ \A c \in Callers : call'[c] = IF ProcessOf[c] = p THEN NoCall ELSE call[c]
  /\ lockedBy' = [lockedBy EXCEPT ![p] = {}]
  /\ UNCHANGED <<staged, strayed>>

LEMMA NoCallType == NoCall \in CallType /\ NoCall.stage = "idle"
BY BoundsAssumption DEF NoCall, CallType

LEMMA TakeVectorType ==
  ASSUME StagingTypeOK, CallHasText, NEW c \in Callers, TakeVector(c)
  PROVE  /\ StagingTypeOK' /\ CallHasText'
         /\ \A d \in Callers : call'[d] = IF d = c THEN NoCall ELSE call[d]
<1>1. \A d \in Callers : call'[d] = IF d = c THEN NoCall ELSE call[d]
  BY DEF TakeVector, StagingTypeOK
<1>2. call' \in [Callers -> CallType]
  BY NoCallType DEF TakeVector, StagingTypeOK
<1>3. StagingTypeOK'
  BY <1>2 DEF TakeVector, storeVars, StagingTypeOK
<1> QED
  BY <1>1, <1>3, NoCallType DEF CallHasText

LEMMA RedeployType ==
  ASSUME StagingTypeOK, CallHasText,
         NEW p \in Processes, NEW r \in Revisions, Redeploy(p, r)
  PROVE  StagingTypeOK' /\ CallHasText' /\ Restarted(p)
<1>1. Restarted(p)
  BY DEF Redeploy, Restarted
<1>2. call' \in [Callers -> CallType] /\ lockedBy' \in [Processes -> SUBSET Callers]
  <2>1. \A c \in Callers : call'[c] \in CallType
    BY <1>1, NoCallType DEF Restarted, StagingTypeOK
  <2>2. call' = [c \in Callers |-> call'[c]]
    BY DEF Redeploy
  <2>3. lockedBy' \in [Processes -> SUBSET Callers]
    BY <1>1 DEF Restarted, StagingTypeOK
  <2> QED
    BY <2>1, <2>2, <2>3
<1> DEFINE StrayFits == /\ DOMAIN stray' \subseteq Points
                        /\ QueryPoint \in DOMAIN stray' =>
                             stray'[QueryPoint] \in Questions
<1>3. StrayFits
  <2>1. CASE UNCHANGED stray
    BY <2>1 DEF StagingTypeOK
  <2>2. ASSUME NEW c \in Callers, call[c].stage = "holding",
               stray' = QueryWrite(call[c].text)
        PROVE  StrayFits
    BY <2>2, QueryWriteAt DEF CallHasText
  <2> QED
    BY <2>1, <2>2 DEF Redeploy
<1>4. StagingTypeOK'
  BY <1>2, <1>3 DEF Redeploy, StagingTypeOK
<1>5. CallHasText'
  BY <1>1, NoCallType DEF CallHasText, Restarted
<1> QED
  BY <1>1, <1>4, <1>5

(* The request of one caller, as a step of its own leaves it. *)
LEMMA RequestStepType ==
  ASSUME TypeInv, NEW c \in Callers,
         RequestStep(c) \/ \E q \in Questions, m \in Modes : Ask(c, q, m)
  PROVE  /\ TypeInv'
         /\ \A d \in Callers \ {c} : req'[d] = req[d] /\ call'[d] = call[d]
<1>1. /\ StagingTypeOK
      /\ req \in [Callers -> RequestType] /\ req[c] \in RequestType
      /\ cache \in [Entries -> Questions \union {NoText}]
      /\ call \in [Callers -> CallType]
      /\ CallHasText /\ QuestionAsked
  BY DEF TypeInv, TypeOK, RequestType, StagingTypeOK
<1> DEFINE Keeps == /\ StagingTypeOK' /\ CallHasText'
                    /\ \A d \in Callers \ {c} : call'[d] = call[d]
           Moves == \E x \in RequestType : /\ x.q \in Questions
                                            /\ req' = [req EXCEPT ![c] = x]
<1>2. TakeVector(c) => Keeps
  BY <1>1, TakeVectorType
<1>3. ASSUME NEW q \in Questions, Call(c, q) PROVE Keeps
  <2>1. StagingTypeOK' /\ CallHasText'
    BY <1>1, <1>3, CallTypeStep
  <2> QED
    BY <1>1, <1>3, <2>1 DEF Call
<1>4. UNCHANGED stagingVars => Keeps
  BY <1>1 DEF stagingVars, storeVars, StagingTypeOK, CallHasText
<1>5. Moves /\ Keeps /\ UNCHANGED <<revision, deploys>>
        /\ cache' \in [Entries -> Questions \union {NoText}]
      => /\ TypeInv'
         /\ \A d \in Callers \ {c} : req'[d] = req[d] /\ call'[d] = call[d]
  BY <1>1 DEF TypeInv, TypeOK, RequestType, QuestionAsked
<1>6. ASSUME NEW q \in Questions, NEW m \in Modes, Ask(c, q, m)
      PROVE  Moves /\ Keeps
  <2>1. req' = [req EXCEPT ![c] = [req[c] EXCEPT !.q = q, !.mode = m,
                  !.stage = IF m = "plain" THEN "check" ELSE "generate"]]
    BY <1>1, <1>6 DEF Ask, RequestType
  <2>2. [req[c] EXCEPT !.q = q, !.mode = m,
           !.stage = IF m = "plain" THEN "check" ELSE "generate"]
          \in {x \in RequestType : x.q = q}
    BY <1>1 DEF RequestType
  <2>3. Moves
    BY <2>1, <2>2
  <2>4. Call(c, q) \/ UNCHANGED stagingVars
    BY <1>6 DEF Ask
  <2> QED
    BY <1>3, <1>4, <2>3, <2>4
<1>7. ASSUME NEW s \in {"generate", "save", "saving", "done"},
             req[c].stage # "new", req' = [req EXCEPT ![c].stage = s]
      PROVE  Moves
  <2> req[c].q \in Questions
    BY <1>1, <1>7 DEF QuestionAsked
  <2>1. [req[c] EXCEPT !.stage = s] \in {x \in RequestType : x.q = req[c].q}
    BY <1>1 DEF RequestType
  <2> QED
    BY <1>7, <2>1
<1>8. ASSUME Hit(c) PROVE Moves /\ Keeps
  <2>1. PICK e \in Entries :
          req' = [req EXCEPT ![c].stage = "done", ![c].hit = e]
    BY <1>8 DEF Hit, Matches
  <2>2. req' = [req EXCEPT ![c] = [req[c] EXCEPT !.stage = "done", !.hit = e]]
    BY <1>1, <2>1 DEF RequestType
  <2>3. [req[c] EXCEPT !.stage = "done", !.hit = e]
          \in {x \in RequestType : x.q = req[c].q}
    BY <1>1 DEF RequestType
  <2>4. req[c].q \in Questions
    BY <1>1, <1>8 DEF Hit, QuestionAsked
  <2> QED
    BY <1>2, <1>8, <2>2, <2>3, <2>4 DEF Hit
<1>9. ASSUME Miss(c) \/ DropSave(c) PROVE Moves /\ Keeps
  BY <1>2, <1>7, <1>9 DEF Miss, DropSave
<1>10. ASSUME Generate(c) PROVE Moves /\ Keeps
  <2>1. PICK s \in {"save", "done"} : req' = [req EXCEPT ![c].stage = s]
    BY <1>10 DEF Generate
  <2> QED
    BY <1>4, <1>7, <1>10, <2>1 DEF Generate
<1>11. ASSUME StartSave(c) PROVE Moves /\ Keeps
  <2>1. req[c].q \in Questions
    BY <1>1, <1>11 DEF StartSave, QuestionAsked
  <2> QED
    BY <1>3, <1>7, <1>11, <2>1 DEF StartSave
<1>12. ASSUME Save(c)
       PROVE  Moves /\ Keeps /\ cache' \in [Entries -> Questions \union {NoText}]
  <2>1. cache' \in [Entries -> Questions \union {NoText}]
    BY <1>1, <1>12 DEF Save, CallType
  <2> QED
    BY <1>2, <1>7, <1>12, <2>1 DEF Save
<1>13. cache' = cache => cache' \in [Entries -> Questions \union {NoText}]
  BY <1>1
<1> QED
  BY <1>5, <1>6, <1>8, <1>9, <1>10, <1>11, <1>12, <1>13
  DEF RequestStep, Ask, Hit, Miss, DropSave, Generate, StartSave, Save

LEMMA TypeInvInit == Init => TypeInv
<1> SUFFICES ASSUME Init PROVE TypeInv
  OBVIOUS
<1>1. StagingTypeOK /\ CallHasText
  BY StagingTypeInit DEF Init, StagingInit, NoCall, CallHasText
<1>2. req \in [Callers -> RequestType] /\ QuestionAsked
  BY DEF Init, NewRequest, RequestType, Modes, QuestionAsked
<1>3. /\ cache \in [Entries -> Questions \union {NoText}]
      /\ revision \in [Processes -> Revisions] /\ deploys \in 0..MaxDeploys
  BY DeploysAssumption DEF Init
<1> QED
  BY <1>1, <1>2, <1>3 DEF TypeInv, TypeOK, RequestType

LEMMA TypeInvStep == TypeInv /\ [Next]_vars => TypeInv'
<1> SUFFICES ASSUME TypeInv, [Next]_vars PROVE TypeInv'
  OBVIOUS
<1>1. ASSUME NEW c \in Callers,
             RequestStep(c) \/ \E q \in Questions, m \in Modes : Ask(c, q, m)
      PROVE  TypeInv'
  BY <1>1, RequestStepType
<1>2. UNCHANGED cacheVars /\ StagingTypeOK' /\ CallHasText' => TypeInv'
  BY DEF TypeInv, TypeOK, cacheVars, QuestionAsked
<1>3. ASSUME NEW c \in Callers, Embedding(c) PROVE TypeInv'
  BY <1>2, <1>3, CallTypeStep DEF Embedding, TypeInv, TypeOK
<1>4. ASSUME ResetStaging \/ StrayLands, UNCHANGED cacheVars PROVE TypeInv'
  <2>1. StagingTypeOK' /\ UNCHANGED call
    BY <1>4, OtherStep DEF TypeInv, TypeOK
  <2> QED
    BY <1>2, <1>4, <2>1 DEF TypeInv, CallHasText
<1>5. ASSUME NEW p \in Processes, NEW r \in Revisions, Redeploy(p, r)
      PROVE  TypeInv'
  <2>1. StagingTypeOK' /\ CallHasText'
    BY <1>5, RedeployType DEF TypeInv, TypeOK
  <2>2. req \in [Callers -> RequestType] /\ QuestionAsked
    BY DEF TypeInv, TypeOK, RequestType
  <2>3. \A c \in Callers : [req[c] EXCEPT !.stage = "done"]
                            \in {x \in RequestType : x.q = req[c].q}
    BY <2>2 DEF RequestType
  <2>4. req' \in [Callers -> RequestType] /\ QuestionAsked'
    BY <1>5, <2>2, <2>3 DEF Redeploy, QuestionAsked
  <2>5. /\ revision' \in [Processes -> Revisions] /\ deploys' \in 0..MaxDeploys
        /\ cache' \in [Entries -> Questions \union {NoText}]
    BY <1>5, DeploysAssumption DEF Redeploy, TypeInv, TypeOK
  <2> QED
    BY <2>1, <2>4, <2>5 DEF TypeInv, TypeOK, RequestType
<1>6. ASSUME UNCHANGED vars PROVE TypeInv'
  <2>1. UNCHANGED stagingVars => StagingTypeOK' /\ CallHasText'
    BY DEF stagingVars, storeVars, TypeInv, TypeOK, StagingTypeOK, CallHasText
  <2> QED
    BY <1>2, <1>6, <2>1 DEF vars
<1> QED
  BY <1>1, <1>3, <1>4, <1>5, <1>6 DEF Next

(* The types of the cache, its requests and the staging collection, for    *)
(* any number of processes, callers, questions, revisions and restarts.    *)
THEOREM CacheTypeCorrect == Spec => []TypeOK
<1>1. TypeInv => TypeOK
  BY DEF TypeInv
<1> QED
  BY <1>1, TypeInvInit, TypeInvStep, PTL DEF Spec

-----------------------------------------------------------------------------
(* Freeing a caller that has its vector, and a restart, keep what          *)
(* OneProcessQueries rests on.                                             *)
LEMMA TakeVectorKeeps ==
  ASSUME QueryInv, NEW c \in Callers, TakeVector(c)
  PROVE  QueryInv' /\ UNCHANGED strayed
<1>1. /\ StagingTypeOK' /\ CallHasText'
      /\ \A d \in Callers : call'[d] = IF d = c THEN NoCall ELSE call[d]
  BY TakeVectorType DEF QueryInv
<1>2. UNCHANGED <<staged, strayed, lockedBy>>
  BY DEF TakeVector, storeVars
<1> QED
  BY <1>1, <1>2, NoCallType DEF QueryInv, LockSound, QueryPointOwn,
                                SerializedVectorOwn, QueryVectorOwn

LEMMA RedeployKeeps ==
  ASSUME QueryInv, NEW p \in Processes, NEW r \in Revisions, Redeploy(p, r)
  PROVE  QueryInv' /\ Restarted(p)
<1>1. StagingTypeOK' /\ CallHasText' /\ Restarted(p)
  BY RedeployType DEF QueryInv
<1>2. \A o \in Processes : lockedBy'[o] = IF o = p THEN {} ELSE lockedBy[o]
  BY <1>1 DEF QueryInv, StagingTypeOK, Restarted
<1>3. LockSound'
  BY <1>1, <1>2, CallersAssumption, NoCallType DEF QueryInv, LockSound, Restarted
<1>4. QueryPointOwn' /\ SerializedVectorOwn'
  BY <1>1, NoCallType DEF QueryInv, Restarted, QueryPointOwn,
                          SerializedVectorOwn, QueryVectorOwn
<1> QED
  BY <1>1, <1>3, <1>4 DEF QueryInv

(* Stray points only accumulate. *)
LEMMA StrayedGrows ==
  ASSUME StagingTypeOK, [StagingNext]_stagingVars
  PROVE  strayed \subseteq strayed'
<1>1. ASSUME BatchStep \/ NextWindow \/ ResetStaging \/ StrayLands
      PROVE  strayed \subseteq strayed'
  BY <1>1, OtherStep
<1>2. ASSUME NEW d \in Callers, (\E q \in Questions : Call(d, q)) \/ EmbedStep(d)
      PROVE  strayed' = strayed
  BY <1>2 DEF EmbedStep, Call, Acquire, UpsertQuery, RetrieveQuery,
              TransientFailure, Abandon, storeVars
<1> QED
  BY <1>1, <1>2 DEF StagingNext, stagingVars, storeVars

(* No step but a retrieval makes a caller "returned", and no step of the   *)
(* embedding frees a caller or changes its text.                           *)
LEMMA EmbeddingSteps ==
  ASSUME QueryInv, [StagingNext]_stagingVars, NEW c \in Callers
  PROVE  /\ call[c].stage # "idle" =>
              call'[c].stage # "idle" /\ call'[c].text = call[c].text
         /\ call'[c].stage = "returned" => \/ call'[c] = call[c]
                                           \/ call'[c].vector # NoText
<1>1. call \in [Callers -> CallType] /\ call[c] \in CallType
  BY DEF QueryInv, StagingTypeOK
<1>2. ASSUME BatchStep \/ NextWindow \/ ResetStaging \/ StrayLands
      PROVE  call' = call
  BY <1>2, OtherStep DEF QueryInv
<1>3. ASSUME NEW d \in Callers \ {c},
             (\E q \in Questions : Call(d, q)) \/ EmbedStep(d)
      PROVE  call'[c] = call[c]
  BY <1>1, <1>3 DEF EmbedStep, Call, Acquire, UpsertQuery, RetrieveQuery,
                    TransientFailure
<1>4. ASSUME NEW q \in Questions, Call(c, q)
      PROVE  call[c].stage = "idle" /\ call'[c].stage = "waiting"
  BY <1>1, <1>4 DEF Call, NoCall
<1>5. ASSUME EmbedStep(c), ~RetrieveQuery(c)
      PROVE  /\ call'[c].text = call[c].text
             /\ call'[c].stage \in {"holding", "written", "failed"}
  BY <1>1, <1>5 DEF EmbedStep, Acquire, UpsertQuery, TransientFailure, CallType
<1>6. ASSUME RetrieveQuery(c)
      PROVE  /\ call'[c].text = call[c].text
             /\ call'[c].stage \in {"returned", "failed"}
             /\ call'[c].stage = "returned" => call'[c].vector # NoText
  BY <1>1, <1>6 DEF RetrieveQuery, CallType
<1>7. ASSUME UNCHANGED stagingVars PROVE call' = call
  BY <1>7 DEF stagingVars
<1> QED
  BY <1>2, <1>3, <1>4, <1>5, <1>6, <1>7 DEF StagingNext

LEMMA CacheInvInit == Init => CacheInv
BY TypeInvInit, QueryInvInit, TextAssumption
DEF Init, StagingInit, CacheInv, RequestBound, NewRequest, VectorReal, NoCall,
    HitAnswersQuestion

(* A request that has its vector holds, unless a stray reached the query   *)
(* point, the vector of its question.                                      *)
LEMMA VectorOfQuestion ==
  ASSUME CacheInv, NEW c \in Callers, NoStray,
         req[c].stage \in {"check", "saving"}, call[c].stage = "returned"
  PROVE  call[c].vector = req[c].q /\ req[c].q \in Questions
BY DEF CacheInv, TypeInv, QueryInv, SerializedVectorOwn, QueryVectorOwn, NoStray,
       RequestBound, QuestionAsked

(* A step of the staging collection alone keeps the cache's invariant. *)
LEMMA StagingKeepsCache ==
  ASSUME SingleProcess, CacheInv, TypeInv',
         [StagingNext]_stagingVars, UNCHANGED cacheVars
  PROVE  CacheInv'
<1>1. QueryInv /\ QueryInv' /\ strayed \subseteq strayed'
  BY QueryInvStep, StrayedGrows DEF CacheInv, QueryInv
<1>2. ASSUME NEW c \in Callers
      PROVE  /\ call[c].stage # "idle" =>
                  call'[c].stage # "idle" /\ call'[c].text = call[c].text
             /\ call'[c].stage = "returned" => call'[c].vector # NoText
  BY <1>1, EmbeddingSteps DEF CacheInv, VectorReal
<1>3. RequestBound' /\ VectorReal'
  BY <1>2 DEF CacheInv, RequestBound, VectorReal, cacheVars
<1>4. HitAnswersQuestion'
  BY <1>1 DEF CacheInv, HitAnswersQuestion, NoStray, cacheVars
<1> QED
  BY <1>1, <1>3, <1>4 DEF CacheInv

(* A step of one request keeps the cache's invariant. *)
LEMMA RequestKeepsCache ==
  ASSUME SingleProcess, CacheInv, NEW c \in Callers,
         RequestStep(c) \/ \E q \in Questions, m \in Modes : Ask(c, q, m)
  PROVE  CacheInv'
<1>1. /\ TypeInv'
      /\ \A d \in Callers \ {c} : req'[d] = req[d] /\ call'[d] = call[d]
  BY RequestStepType DEF CacheInv
<1>2. /\ QueryInv /\ RequestBound /\ VectorReal /\ HitAnswersQuestion
      /\ call \in [Callers -> CallType] /\ req \in [Callers -> RequestType]
      /\ cache \in [Entries -> Questions \union {NoText}]
      /\ req[c] \in RequestType
  BY DEF CacheInv, TypeInv, TypeOK, StagingTypeOK, RequestType
<1> DEFINE Kept ==
      /\ QueryInv' /\ strayed' = strayed
      /\ req'[c].stage = "new" => req'[c].hit = NoEntry
      /\ req'[c].stage \in {"check", "saving"} =>
           call'[c].stage # "idle" /\ call'[c].text = req'[c].q
      /\ call'[c].stage = "returned" => call'[c].vector # NoText
      /\ NoStray => \A e \in Entries : cache'[e] \in {NoText, e[1]}
      /\ NoStray /\ req'[c].hit # NoEntry => req'[c].hit[1] = req'[c].q
<1>3. SUFFICES Kept
  <2>1. RequestBound' /\ VectorReal'
    BY <1>1, <1>2, <1>3 DEF RequestBound, VectorReal
  <2>2. HitAnswersQuestion'
    BY <1>1, <1>2, <1>3 DEF HitAnswersQuestion, NoStray
  <2> QED
    BY <1>1, <1>3, <2>1, <2>2 DEF CacheInv
<1>4. TakeVector(c) => QueryInv' /\ strayed' = strayed /\ call'[c] = NoCall
  BY <1>2, TakeVectorKeeps, TakeVectorType DEF QueryInv
<1>5. ASSUME NEW q \in Questions, Call(c, q)
      PROVE  /\ QueryInv' /\ strayed' = strayed
             /\ call'[c].stage = "waiting" /\ call'[c].text = q
  <2>1. QueryInv'
    BY <1>2, <1>5, QueryInvStep DEF StagingNext
  <2> QED
    BY <1>2, <1>5, <2>1 DEF Call, NoCall, storeVars
<1>6. UNCHANGED stagingVars => QueryInv' /\ strayed' = strayed /\ call' = call
  <2>1. UNCHANGED stagingVars => QueryInv'
    BY <1>2, QueryInvStep
  <2> QED
    BY <2>1 DEF stagingVars, storeVars
<1>7. cache' = cache =>
        (NoStray => \A e \in Entries : cache'[e] \in {NoText, e[1]})
  BY <1>2 DEF HitAnswersQuestion
<1>8. NoStray /\ req[c].hit # NoEntry => req[c].hit[1] = req[c].q
  BY <1>2 DEF HitAnswersQuestion
<1>9. ASSUME NEW q \in Questions, NEW m \in Modes, Ask(c, q, m) PROVE Kept
  <2>1. /\ req'[c].stage = IF m = "plain" THEN "check" ELSE "generate"
        /\ req'[c].q = q /\ req'[c].hit = NoEntry
    BY <1>2, <1>9 DEF Ask, RequestType, RequestBound
  <2>2. cache' = cache
    BY <1>9 DEF Ask
  <2>3. CASE m = "plain"
    BY <1>5, <1>7, <1>9, <2>1, <2>2, <2>3 DEF Ask
  <2>4. CASE m # "plain"
    <3>1. QueryInv' /\ strayed' = strayed /\ call' = call
      BY <1>6, <1>9, <2>4 DEF Ask
    <3>2. call[c].stage = "returned" => call[c].vector # NoText
      BY <1>2 DEF VectorReal
    <3> QED
      BY <1>7, <2>1, <2>2, <2>4, <3>1, <3>2
  <2> QED
    BY <2>3, <2>4
<1>10. CASE Hit(c)
  <2>1. PICK e \in Matches(c) :
          req' = [req EXCEPT ![c].stage = "done", ![c].hit = e]
    BY <1>10 DEF Hit
  <2>2. /\ req'[c].stage = "done" /\ req'[c].q = req[c].q /\ req'[c].hit = e
    BY <1>2, <2>1 DEF RequestType
  <2>3. NoStray => cache[e] = req[c].q /\ req[c].q \in Questions
    BY <1>10, VectorOfQuestion, <2>1 DEF Hit, Matches
  <2>4. NoStray => e[1] = req[c].q
    BY <1>2, <2>1, <2>3, TextAssumption DEF HitAnswersQuestion, Matches
  <2> QED
    BY <1>4, <1>7, <1>10, <2>2, <2>4, NoCallType DEF Hit
<1>11. ASSUME Miss(c) \/ DropSave(c) PROVE Kept
  <2>1. /\ req'[c].stage \in {"generate", "done"}
        /\ req'[c].q = req[c].q /\ req'[c].hit = req[c].hit
    BY <1>2, <1>11 DEF Miss, DropSave, RequestType
  <2> QED
    BY <1>4, <1>7, <1>8, <1>11, <2>1, NoCallType DEF Miss, DropSave
<1>12. CASE Generate(c)
  <2>1. /\ req'[c].stage \in {"save", "done"}
        /\ req'[c].q = req[c].q /\ req'[c].hit = req[c].hit
    BY <1>2, <1>12 DEF Generate, RequestType
  <2> QED
    BY <1>2, <1>6, <1>7, <1>8, <1>12, <2>1 DEF Generate, VectorReal
<1>13. CASE StartSave(c)
  <2>1. /\ req'[c].stage = "saving"
        /\ req'[c].q = req[c].q /\ req'[c].hit = req[c].hit
    BY <1>2, <1>13 DEF StartSave, RequestType
  <2>2. req[c].q \in Questions /\ Call(c, req[c].q) /\ cache' = cache
    BY <1>13 DEF StartSave, CacheInv, TypeInv, QuestionAsked
  <2> QED
    BY <1>5, <1>7, <1>8, <2>1, <2>2
<1>14. CASE Save(c)
  <2>1. /\ req'[c].stage = "done"
        /\ req'[c].q = req[c].q /\ req'[c].hit = req[c].hit
    BY <1>2, <1>14 DEF Save, RequestType
  <2>2. NoStray => call[c].vector = req[c].q
    BY <1>14, VectorOfQuestion DEF Save
  <2>3. NoStray => \A e \in Entries : cache'[e] \in {NoText, e[1]}
    BY <1>2, <1>14, <2>2 DEF Save, HitAnswersQuestion, Entries
  <2> QED
    BY <1>4, <1>8, <1>14, <2>1, <2>3, NoCallType DEF Save
<1> QED
  BY <1>9, <1>10, <1>11, <1>12, <1>13, <1>14 DEF RequestStep

(* A restart ends the requests of its process and keeps the entries. *)
LEMMA RestartKeepsCache ==
  ASSUME CacheInv, TypeInv', NEW p \in Processes, NEW r \in Revisions,
         Redeploy(p, r)
  PROVE  CacheInv'
<1>1. QueryInv' /\ Restarted(p)
  BY RedeployKeeps DEF CacheInv
<1>2. ASSUME NEW c \in Callers
      PROVE  /\ req'[c].hit = req[c].hit /\ req'[c].q = req[c].q
             /\ req'[c].stage \in {req[c].stage, "done"}
             /\ ProcessOf[c] = p => req'[c].stage \in {"new", "done"}
             /\ req'[c].stage = "new" => req[c].stage = "new"
  <2>1. req[c] \in RequestType
    BY DEF CacheInv, TypeInv, TypeOK, RequestType
  <2>2. req'[c] = IF ProcessOf[c] = p /\ req[c].stage # "new"
                  THEN [req[c] EXCEPT !.stage = "done"] ELSE req[c]
    BY DEF Redeploy
  <2> QED
    BY <2>1, <2>2 DEF RequestType
<1>3. cache' = cache /\ strayed' = strayed
  BY DEF Redeploy
<1>4. RequestBound' /\ VectorReal'
  BY <1>1, <1>2, NoCallType DEF CacheInv, RequestBound, VectorReal, Restarted
<1>5. HitAnswersQuestion'
  BY <1>2, <1>3 DEF CacheInv, HitAnswersQuestion, NoStray
<1> QED
  BY <1>1, <1>4, <1>5 DEF CacheInv

LEMMA CacheInvStep == SingleProcess /\ CacheInv /\ [Next]_vars => CacheInv'
<1> SUFFICES ASSUME SingleProcess, CacheInv, [Next]_vars PROVE CacheInv'
  OBVIOUS
<1>1. TypeInv'
  BY TypeInvStep DEF CacheInv
<1>2. [StagingNext]_stagingVars /\ UNCHANGED cacheVars => CacheInv'
  BY <1>1, StagingKeepsCache
<1> QED
  BY <1>1, <1>2, RequestKeepsCache, RestartKeepsCache
  DEF Next, Embedding, StagingNext, vars

(* With all requests in one process, and until a timed-out upsert is       *)
(* applied late: every stored answer lies under the vector of its own      *)
(* question, and an answer served from the cache was generated for the     *)
(* question asked.  Any number of threads, questions, revisions, resets    *)
(* and restarts; a restart drops the lock together with its holders.       *)
THEOREM OneProcessHits ==
  ASSUME SingleProcess
  PROVE  Spec => []HitAnswersQuestion
<1>1. CacheInv /\ [Next]_vars => CacheInv'
  BY CacheInvStep
<1>2. CacheInv => HitAnswersQuestion
  BY DEF CacheInv
<1> QED
  BY <1>1, <1>2, CacheInvInit, PTL DEF Spec

(* In the same setting the embeddings keep their promise to the cache:     *)
(* its restarts and early releases do not break OneProcessQueries.         *)
THEOREM OneProcessEmbeddings ==
  ASSUME SingleProcess
  PROVE  Spec => []SerializedVectorOwn
<1>1. CacheInv /\ [Next]_vars => CacheInv'
  BY CacheInvStep
<1>2. CacheInv => SerializedVectorOwn
  BY DEF CacheInv, QueryInv
<1> QED
  BY <1>1, <1>2, CacheInvInit, PTL DEF Spec

-----------------------------------------------------------------------------
(***************************************************************************)
(* The reranker, which stages the documents of a request in a collection   *)
(* that other attempts, requests and objects use too.  The inductive       *)
(* invariant says of every attempt where its points may be at each step of *)
(* its thread: none before it stages them, all of them when it asks for    *)
(* the order, and when nobody runs it any more only points whose write or  *)
(* deletion was lost.  An order that a thread has brought back is of its   *)
(* own request, so the answer of a request is.                             *)
(***************************************************************************)

\* Before an attempt stages its points, and after a thread that nobody runs.
Early == {"ensure", "create", "sweep", "upsert"}
Idle == {"none", "ended"}

\* An order of the documents of a request, as long as it should be.
OrderOf(r, ranked) ==
  /\ ranked \subseteq {r} \X Indices(request[r].size)
  /\ Cardinality(ranked) = SetExt!Min({request[r].size, RerankLimit})

\* An attempt that has not started, or not staged, has no points and will get
\* none late; one that asks for the order has all of its points, none of them old.
AttemptApart(a) ==
  /\ DOMAIN thread[a] = {"at", "error", "ranked"}
  /\ thread[a].at \in Early \union Idle \union {"query", "cleanup"}
  /\ a[2] > request[a[1]].attempt => thread[a].at = "none"
  /\ a[2] > request[a[1]].attempt \/ thread[a].at \in Early =>
       a \notin late /\ \A p \in staging : p.of # a
  /\ thread[a].at = "query" => a \notin late /\ PointsOf(a) = NewPoints(a)
  /\ thread[a].at \in Idle => \A p \in staging : p.of = a => a \in left
  /\ thread[a].at \in {"sweep", "upsert", "query", "cleanup"} => collection = "indexed"
  /\ thread[a].at \in {"cleanup", "ended"} /\ thread[a].error = "" =>
       OrderOf(a[1], thread[a].ranked)

RequestApart(r) ==
  /\ DOMAIN request[r] = {"at", "mode", "by", "size", "attempt", "ranked"}
  /\ request[r].attempt \in Nat /\ request[r].size \in Nat
  /\ request[r].at = "new" => request[r].attempt = 0
  /\ request[r].at = "qdrant" => request[r].attempt \in 1..RerankRetries
  /\ request[r].by = "qdrant" => OrderOf(r, request[r].ranked)

StagedApart ==
  /\ \A p \in staging : DOMAIN p = {"of", "index", "old"} /\ p.of \in StagingAttempts
  /\ late \subseteq left
  /\ staging # {} \/ late # {} => collection = "indexed"
  /\ DOMAIN reranker = Rerankers
  /\ \A k \in Rerankers : /\ DOMAIN reranker[k] = {"ready", "due", "failures", "cooled"}
                          /\ reranker[k].ready => collection = "indexed"

RerankInv ==
  /\ DOMAIN thread = StagingAttempts /\ DOMAIN request = Rerankings
  /\ StagedApart
  /\ \A a \in StagingAttempts : AttemptApart(a)
  /\ \A r \in Rerankings : RequestApart(r)

-----------------------------------------------------------------------------
LEMMA AttemptIs ==
  ASSUME NEW a \in StagingAttempts
  PROVE  /\ a[1] \in Rerankings /\ a[2] \in Nat \ {0} /\ a[2] <= RerankRetries
         /\ a = <<a[1], a[2]>>
BY RerankAssumption DEF StagingAttempts

\* As many points as documents.
LEMMA PointsCounted ==
  ASSUME NEW a, NEW n \in Nat
  PROVE  Cardinality({[of |-> a, index |-> i, old |-> FALSE] : i \in Indices(n)}) = n
<1> DEFINE point(i) == [of |-> a, index |-> i, old |-> FALSE]
           points == {point(i) : i \in Indices(n)}
           f == [i \in Indices(n) |-> point(i)]
<1>1. \A i \in Indices(n) : f[i] = point(i) /\ point(i).index = i
  OBVIOUS
<1>2. f \in Bijection(Indices(n), points)
  <2>1. f \in [Indices(n) -> points]
    OBVIOUS
  <2>2. \A i, j \in Indices(n) : f[i] = f[j] => i = j
    BY <1>1
  <2>3. \A p \in points : \E i \in Indices(n) : f[i] = p
    BY <1>1
  <2> HIDE DEF f, points
  <2> QED
    BY <2>1, <2>2, <2>3 DEF Bijection, Injection, Surjection, IsInjective
<1>3. IsFiniteSet(Indices(n)) /\ Cardinality(Indices(n)) = n
  BY FS_Interval DEF Indices
<1> HIDE DEF f, points
<1>4. Cardinality(points) = n
  BY <1>2, <1>3, FS_Bijection DEF ExistsBijection
<1> QED
  BY <1>4 DEF points

LEMMA InitRerank == RerankInit => RerankInv
<1> SUFFICES ASSUME RerankInit PROVE RerankInv
  OBVIOUS
<1>1. ASSUME NEW a \in StagingAttempts PROVE AttemptApart(a)
  <2>1. thread[a] = NoThread /\ staging = {} /\ late = {}
    BY DEF RerankInit
  <2>2. DOMAIN NoThread = {"at", "error", "ranked"} /\ NoThread.at = "none"
    BY DEF NoThread
  <2> QED
    BY <2>1, <2>2 DEF AttemptApart, Early, Idle
<1>2. ASSUME NEW r \in Rerankings PROVE RequestApart(r)
  <2>1. request[r] = NoRequest
    BY DEF RerankInit
  <2>2. /\ DOMAIN NoRequest = {"at", "mode", "by", "size", "attempt", "ranked"}
        /\ NoRequest.attempt = 0 /\ NoRequest.size = 1 /\ NoRequest.by = ""
    BY DEF NoRequest
  <2>3. /\ NoRequest.attempt \in Nat /\ NoRequest.size \in Nat
        /\ NoRequest.by # "qdrant" /\ NoRequest.at # "qdrant"
    BY DEF NoRequest
  <2> QED
    BY <2>1, <2>2, <2>3 DEF RequestApart
<1>3. StagedApart
  BY DEF RerankInit, StagedApart, NewReranker
<1>4. DOMAIN thread = StagingAttempts /\ DOMAIN request = Rerankings
  BY DEF RerankInit
<1> QED
  BY <1>1, <1>2, <1>3, <1>4 DEF RerankInv

-----------------------------------------------------------------------------
\* A step of one attempt, which leaves the points of the others in the collection
\* but for old ones.
LEMMA OneAttempt ==
  ASSUME RerankInv, NEW a \in StagingAttempts, NEW t,
         thread' = [thread EXCEPT ![a] = t] \/ UNCHANGED thread, UNCHANGED request,
         collection = "indexed" => collection' = "indexed",
         \A p \in staging' : p.of # a => p \in staging,
         \A p \in staging : p.of # a /\ ~p.old => p \in staging',
         \A b \in late' : b # a => b \in late, left \subseteq left',
         AttemptApart(a)', StagedApart'
  PROVE  RerankInv'
<1>1. ASSUME NEW b \in StagingAttempts, b # a PROVE AttemptApart(b)'
  <2>1. AttemptApart(b)
    BY DEF RerankInv
  <2>2. thread'[b] = thread[b]
    BY <1>1 DEF RerankInv
  <2>3. \A p \in staging' : p.of = b => p \in staging
    BY <1>1
  <2>4. PointsOf(b) = NewPoints(b) => PointsOf(b)' = NewPoints(b)'
    <3>1. SUFFICES ASSUME PointsOf(b) = NewPoints(b) PROVE PointsOf(b)' = NewPoints(b)
      BY DEF NewPoints, Size
    <3>2. PointsOf(b)' \subseteq PointsOf(b)
      BY <2>3 DEF PointsOf
    <3>3. \A p \in NewPoints(b) : p.of = b /\ ~p.old
      BY DEF NewPoints
    <3>4. \A p \in PointsOf(b) : p \in staging /\ p.of # a
      BY <1>1 DEF PointsOf
    <3>5. \A p \in PointsOf(b) : p \in staging' /\ p.of = b
      BY <3>1, <3>3, <3>4
    <3> QED
      BY <3>1, <3>2, <3>5 DEF PointsOf
  <2>5. b \notin late => b \notin late'
    BY <1>1
  <2>6. OrderOf(b[1], thread[b].ranked)' <=> OrderOf(b[1], thread[b].ranked)
    BY <2>2 DEF OrderOf
  <2> QED
    BY <2>1, <2>2, <2>3, <2>4, <2>5, <2>6 DEF AttemptApart
<1>2. \A r \in Rerankings : RequestApart(r)'
  <2>1. \A r \in Rerankings : RequestApart(r)
    BY DEF RerankInv
  <2> QED
    BY <2>1 DEF RequestApart, OrderOf
<1>3. DOMAIN thread' = StagingAttempts /\ DOMAIN request' = Rerankings
  BY DEF RerankInv
<1>4. \A b \in StagingAttempts : AttemptApart(b)'
  BY <1>1
<1> QED
  BY <1>2, <1>3, <1>4 DEF RerankInv

\* A thread whose end nobody awaits, or that ended with an error.
LEMMA Ends ==
  ASSUME NEW a, NEW error, EndsThread(a, error), AttemptApart(a)
  PROVE  \E t : /\ thread' = [thread EXCEPT ![a] = t] /\ t.at \in Idle
                /\ DOMAIN t = {"at", "error", "ranked"}
                /\ t.at = "ended" => Awaited(a) /\ t.error = error /\ t.ranked = thread[a].ranked
<1>1. CASE Awaited(a)
  <2>1. PICK t : t = [thread[a] EXCEPT !.at = "ended", !.error = error]
    OBVIOUS
  <2>2. thread' = [thread EXCEPT ![a] = t]
    BY <1>1, <2>1 DEF EndsThread
  <2>3. t.at = "ended" /\ t.error = error /\ t.ranked = thread[a].ranked
        /\ DOMAIN t = {"at", "error", "ranked"}
    BY <2>1 DEF AttemptApart
  <2> QED
    BY <1>1, <2>2, <2>3 DEF Idle
<1>2. CASE ~Awaited(a)
  <2>1. thread' = [thread EXCEPT ![a] = NoThread]
    BY <1>2 DEF EndsThread
  <2>2. DOMAIN NoThread = {"at", "error", "ranked"} /\ NoThread.at = "none"
    BY DEF NoThread
  <2> QED
    BY <2>1, <2>2 DEF Idle
<1> QED
  BY <1>1, <1>2

\* A thread that was to ensure or to sweep ends, or goes on, and has staged nothing.
LEMMA NothingStaged ==
  ASSUME RerankInv, NEW a \in StagingAttempts, thread[a].at \in Early,
         UNCHANGED <<request, late, left>>, staging' \subseteq staging,
         \A p \in staging : ~p.old => p \in staging', StagedApart',
         collection = "indexed" => collection' = "indexed",
         \/ \E error \in Errors \union {"transient"} : EndsThread(a, error)
         \/ \E next \in Early : /\ Goes(a, next)
                                /\ next \in {"sweep", "upsert"} => collection' = "indexed"
  PROVE  RerankInv'
<1>1. AttemptApart(a)
  BY DEF RerankInv
<1>2. a[2] \in Nat /\ request[a[1]].attempt \in Nat
  BY AttemptIs DEF RerankInv, RequestApart
<1>3. ~(a[2] > request[a[1]].attempt)
  BY <1>1 DEF AttemptApart, Early
<1>4. a \notin late /\ \A p \in staging' : p.of # a
  BY <1>1 DEF AttemptApart
<1>5. CASE \E error \in Errors \union {"transient"} : EndsThread(a, error)
  <2>1. PICK error \in Errors \union {"transient"} : EndsThread(a, error)
    BY <1>5
  <2>2. PICK t : /\ thread' = [thread EXCEPT ![a] = t] /\ t.at \in Idle
                 /\ DOMAIN t = {"at", "error", "ranked"}
                 /\ t.at = "ended" => Awaited(a) /\ t.error = error
    BY <1>1, <2>1, Ends
  <2>3. thread'[a] = t /\ error # ""
    BY <2>2 DEF RerankInv, Errors
  <2>4. AttemptApart(a)'
    BY <1>3, <1>4, <2>2, <2>3 DEF AttemptApart, Early, Idle
  <2> QED
    BY <2>2, <2>4, OneAttempt
<1>6. CASE \E next \in Early : /\ Goes(a, next)
                               /\ next \in {"sweep", "upsert"} => collection' = "indexed"
  <2>1. PICK next \in Early : /\ Goes(a, next)
                              /\ next \in {"sweep", "upsert"} => collection' = "indexed"
    BY <1>6
  <2>2. PICK t : t = [thread[a] EXCEPT !.at = next]
    OBVIOUS
  <2>3. thread' = [thread EXCEPT ![a] = t] /\ thread'[a] = t
    BY <2>1, <2>2 DEF Goes, RerankInv
  <2>4. t.at = next /\ DOMAIN t = {"at", "error", "ranked"}
    BY <1>1, <2>2 DEF AttemptApart
  <2>5. AttemptApart(a)'
    BY <1>3, <1>4, <2>1, <2>3, <2>4 DEF AttemptApart, Early, Idle
  <2> QED
    BY <2>3, <2>5, OneAttempt
<1> QED
  BY <1>5, <1>6

LEMMA RerankThreadStep ==
  ASSUME RerankInv, NEW a \in StagingAttempts,
         LookUp(a) \/ CreateStaging(a) \/ Sweep(a) \/ StagePoints(a) \/ Query(a) \/ Cleanup(a)
           \/ ApplyLate(a) \/ Age(a)
  PROVE  RerankInv'
<1>0. /\ AttemptApart(a) /\ StagedApart /\ DOMAIN thread = StagingAttempts
      /\ a[1] \in Rerankings /\ RequestApart(a[1]) /\ a[2] \in Nat
  BY AttemptIs DEF RerankInv
<1>1. CASE LookUp(a)
  <2>1. /\ thread[a].at \in Early /\ UNCHANGED <<request, late, left, staging>>
        /\ collection = "indexed" => collection' = "indexed"
    BY <1>1 DEF LookUp, Early, Ensured
  <2>2. \/ \E error \in Errors \union {"transient"} : EndsThread(a, error)
        \/ \E next \in Early : /\ Goes(a, next)
                               /\ next \in {"sweep", "upsert"} => collection' = "indexed"
    BY <1>1 DEF LookUp, Ensured, Early
  <2>3. StagedApart'
    <3>1. CASE collection' = "indexed" /\ reranker' = [reranker EXCEPT ![OfThread(a)].ready = TRUE]
      BY <1>0, <2>1, <3>1 DEF StagedApart
    <3>2. CASE UNCHANGED <<collection, reranker>>
      BY <1>0, <2>1, <3>2 DEF StagedApart
    <3> QED
      BY <1>1, <3>1, <3>2 DEF LookUp, Ensured
  <2> QED
    BY <2>1, <2>2, <2>3, NothingStaged
<1>2. CASE CreateStaging(a)
  <2>1. /\ thread[a].at \in Early /\ UNCHANGED <<request, late, left, staging>>
        /\ collection = "indexed" => collection' = "indexed"
    BY <1>2 DEF CreateStaging, Early, Ensured
  <2>2. \/ \E error \in Errors \union {"transient"} : EndsThread(a, error)
        \/ \E next \in Early : /\ Goes(a, next)
                               /\ next \in {"sweep", "upsert"} => collection' = "indexed"
    BY <1>2 DEF CreateStaging, Ensured, Early, Errors
  <2>3. StagedApart'
    <3>1. CASE collection' = "indexed" /\ reranker' = [reranker EXCEPT ![OfThread(a)].ready = TRUE]
      BY <1>0, <2>1, <3>1 DEF StagedApart
    <3>2. CASE UNCHANGED reranker
      BY <1>0, <2>1, <3>2 DEF StagedApart
    <3> QED
      BY <1>2, <3>1, <3>2 DEF CreateStaging, Ensured
  <2> QED
    BY <2>1, <2>2, <2>3, NothingStaged
<1>3. CASE Sweep(a)
  <2>1. /\ thread[a].at \in Early /\ UNCHANGED <<request, late, left, collection>>
        /\ staging' \subseteq staging /\ \A p \in staging : ~p.old => p \in staging'
    BY <1>3 DEF Sweep, Early, Aged
  <2>2. \/ \E error \in Errors \union {"transient"} : EndsThread(a, error)
        \/ \E next \in Early : /\ Goes(a, next)
                               /\ next \in {"sweep", "upsert"} => collection' = "indexed"
    <3>1. collection' = "indexed"
      BY <1>0, <1>3 DEF Sweep, AttemptApart
    <3> QED
      BY <1>3, <3>1 DEF Sweep, Early
  <2>3. StagedApart'
    <3>1. \/ reranker' = [reranker EXCEPT ![OfThread(a)].due = FALSE] \/ UNCHANGED reranker
      BY <1>3 DEF Sweep
    <3>2. /\ DOMAIN reranker' = Rerankers
          /\ \A k \in Rerankers : /\ DOMAIN reranker'[k] = {"ready", "due", "failures", "cooled"}
                                  /\ reranker'[k].ready = reranker[k].ready
      BY <1>0, <3>1 DEF StagedApart
    <3> QED
      BY <1>0, <2>1, <3>2 DEF StagedApart
  <2> QED
    BY <2>1, <2>2, <2>3, NothingStaged
<1>4. CASE StagePoints(a)
  <2>1. /\ UNCHANGED <<collection, request, reranker>> /\ thread[a].at \in {"sweep", "upsert"}
    BY <1>4 DEF StagePoints
  <2>2. /\ collection = "indexed" /\ a \notin late /\ \A p \in staging : p.of # a
        /\ ~(a[2] > request[a[1]].attempt)
    BY <1>0, <2>1 DEF AttemptApart, Early
  <2>3. \A p \in NewPoints(a) : DOMAIN p = {"of", "index", "old"} /\ p.of = a
    BY DEF NewPoints
  <2>4. \/ /\ staging' = staging \union NewPoints(a) /\ Goes(a, "query") /\ UNCHANGED <<late, left>>
        \/ /\ \E error \in Errors : ToCleanup(a, error)
           /\ staging' \in {staging, staging \union NewPoints(a)}
           /\ late' \subseteq late \union {a} /\ left \subseteq left'
           /\ late' \subseteq late \union left'
    BY <1>4 DEF StagePoints
  <2>5. staging' \subseteq staging \union NewPoints(a) /\ staging \subseteq staging'
    BY <2>4
  <2>6. StagedApart'
    BY <1>0, <2>1, <2>2, <2>3, <2>4, <2>5 DEF StagedApart
  <2>7. CASE /\ staging' = staging \union NewPoints(a) /\ Goes(a, "query")
             /\ UNCHANGED <<late, left>>
    <3>1. PICK t : t = [thread[a] EXCEPT !.at = "query"]
      OBVIOUS
    <3>2. /\ thread' = [thread EXCEPT ![a] = t] /\ thread'[a] = t /\ t.at = "query"
          /\ DOMAIN t = {"at", "error", "ranked"}
      BY <1>0, <2>7, <3>1 DEF Goes, AttemptApart
    <3>3. PointsOf(a)' = NewPoints(a)'
      <4>1. PointsOf(a)' = NewPoints(a)
        BY <2>2, <2>3, <2>7 DEF PointsOf
      <4> QED
        BY <2>1, <4>1 DEF NewPoints, Size
    <3>4. AttemptApart(a)'
      BY <2>1, <2>2, <2>7, <3>2, <3>3 DEF AttemptApart, Early, Idle
    <3> QED
      BY <2>1, <2>3, <2>5, <2>6, <2>7, <3>2, <3>4, OneAttempt
  <2>8. CASE /\ \E error \in Errors : ToCleanup(a, error)
             /\ late' \subseteq late \union {a} /\ left \subseteq left'
    <3>1. PICK error \in Errors : ToCleanup(a, error)
      BY <2>8
    <3>2. PICK t : t = [thread[a] EXCEPT !.at = "cleanup", !.error = error]
      OBVIOUS
    <3>3. /\ thread' = [thread EXCEPT ![a] = t] /\ thread'[a] = t /\ t.at = "cleanup"
          /\ DOMAIN t = {"at", "error", "ranked"} /\ t.error # ""
      BY <1>0, <3>1, <3>2 DEF ToCleanup, AttemptApart, Errors
    <3>4. AttemptApart(a)'
      BY <2>1, <2>2, <3>3 DEF AttemptApart, Early, Idle
    <3> QED
      BY <2>1, <2>3, <2>5, <2>6, <2>8, <3>3, <3>4, OneAttempt
  <2> QED
    BY <2>4, <2>7, <2>8
<1>5. CASE Query(a)
  <2>1. /\ UNCHANGED <<collection, staging, late, request, reranker, left>>
        /\ thread[a].at = "query"
    BY <1>5 DEF Query
  <2>2. /\ collection = "indexed" /\ ~(a[2] > request[a[1]].attempt)
        /\ PointsOf(a) = NewPoints(a)
    BY <1>0, <2>1 DEF AttemptApart
  <2>3. PICK t : /\ thread' = [thread EXCEPT ![a] = t] /\ t.at = "cleanup"
                 /\ DOMAIN t = {"at", "error", "ranked"}
                 /\ t.error = "" => OrderOf(a[1], t.ranked)
    <3>1. CASE \E error \in Errors : ToCleanup(a, error)
      <4>1. PICK error \in Errors : ToCleanup(a, error)
        BY <3>1
      <4>2. PICK t : t = [thread[a] EXCEPT !.at = "cleanup", !.error = error]
        OBVIOUS
      <4>3. thread' = [thread EXCEPT ![a] = t]
        BY <4>1, <4>2 DEF ToCleanup
      <4>4. t.at = "cleanup" /\ DOMAIN t = {"at", "error", "ranked"} /\ t.error # ""
        BY <1>0, <4>2 DEF AttemptApart, Errors
      <4> QED
        BY <4>3, <4>4
    <3>2. CASE \E ranked \in SUBSET {<<p.of[1], p.index>> : p \in RequestFilter(a)} :
                 /\ Cardinality(ranked) =
                      SetExt!Min({Cardinality(RequestFilter(a)), Size(a), RerankLimit})
                 /\ thread' = [thread EXCEPT ![a].at = "cleanup", ![a].ranked = ranked,
                                 ![a].error = IF ranked = {} THEN "transient" ELSE ""]
      <4>1. PICK ranked \in SUBSET {<<p.of[1], p.index>> : p \in RequestFilter(a)} :
                 /\ Cardinality(ranked) =
                      SetExt!Min({Cardinality(RequestFilter(a)), Size(a), RerankLimit})
                 /\ thread' = [thread EXCEPT ![a].at = "cleanup", ![a].ranked = ranked,
                                 ![a].error = IF ranked = {} THEN "transient" ELSE ""]
        BY <3>2
      <4>2. PICK n : n = request[a[1]].size
        OBVIOUS
      <4>3. n \in Nat /\ Size(a) = n
        BY <1>0, <4>2 DEF RequestApart, Size
      <4>4. RequestFilter(a) = {[of |-> a, index |-> i, old |-> FALSE] : i \in Indices(n)}
        BY <2>2, <4>3 DEF RequestFilter, NewPoints
      <4>5. Cardinality(RequestFilter(a)) = n
        BY <4>3, <4>4, PointsCounted
      <4>6. {Cardinality(RequestFilter(a)), Size(a), RerankLimit} = {n, RerankLimit}
        BY <4>3, <4>5
      <4>7. Cardinality(ranked) = SetExt!Min({n, RerankLimit})
        BY <4>1, <4>6
      <4>8. ranked \subseteq {a[1]} \X Indices(n)
        <5>1. \A p \in RequestFilter(a) : p.of = a /\ p.index \in Indices(n)
          BY <4>4
        <5>2. ASSUME NEW x \in ranked PROVE x \in {a[1]} \X Indices(n)
          <6>1. PICK p \in RequestFilter(a) : x = <<p.of[1], p.index>>
            BY <4>1
          <6> QED
            BY <5>1, <6>1
        <5> QED
          BY <5>2
      <4>9. PICK t : t = [thread[a] EXCEPT !.at = "cleanup", !.ranked = ranked,
                            !.error = IF ranked = {} THEN "transient" ELSE ""]
        OBVIOUS
      <4>10. thread' = [thread EXCEPT ![a] = t]
        BY <4>1, <4>9
      <4>11. t.at = "cleanup" /\ DOMAIN t = {"at", "error", "ranked"} /\ t.ranked = ranked
        BY <1>0, <4>9 DEF AttemptApart
      <4> QED
        BY <4>2, <4>7, <4>8, <4>10, <4>11 DEF OrderOf
    <3> QED
      BY <1>5, <3>1, <3>2 DEF Query
  <2>4. thread'[a] = t
    BY <1>0, <2>3
  <2>5. OrderOf(a[1], t.ranked)' <=> OrderOf(a[1], t.ranked)
    BY <2>1 DEF OrderOf
  <2>6. AttemptApart(a)'
    BY <2>1, <2>2, <2>3, <2>4, <2>5 DEF AttemptApart, Early, Idle, OrderOf
  <2>7. StagedApart'
    BY <1>0, <2>1 DEF StagedApart
  <2> QED
    BY <2>1, <2>3, <2>6, <2>7, OneAttempt
<1>6. CASE Cleanup(a)
  <2>1. /\ UNCHANGED <<collection, late, request, reranker>> /\ thread[a].at = "cleanup"
        /\ EndsThread(a, thread[a].error)
        /\ \/ staging' = staging \ PointsOf(a) /\ UNCHANGED left
           \/ left' = left \union {a} /\ UNCHANGED staging
    BY <1>6 DEF Cleanup
  <2>2. PICK t : /\ thread' = [thread EXCEPT ![a] = t] /\ t.at \in Idle
                 /\ DOMAIN t = {"at", "error", "ranked"}
                 /\ t.at = "ended" => t.error = thread[a].error /\ t.ranked = thread[a].ranked
    BY <1>0, <2>1, Ends
  <2>3. ~(a[2] > request[a[1]].attempt) /\ collection = "indexed" /\ thread'[a] = t
    BY <1>0, <2>1, <2>2 DEF AttemptApart
  <2>4. \A p \in staging' : p \in staging /\ (p.of = a => a \in left')
    BY <2>1 DEF PointsOf
  <2>5. t.at = "ended" /\ t.error = "" => OrderOf(a[1], t.ranked)'
    BY <1>0, <2>1, <2>2 DEF AttemptApart, OrderOf
  <2>6. AttemptApart(a)'
    BY <2>1, <2>2, <2>3, <2>4, <2>5 DEF AttemptApart, Early, Idle, OrderOf
  <2>7. StagedApart'
    BY <1>0, <2>1, <2>3, <2>4 DEF StagedApart
  <2>8. \A p \in staging : p.of # a => p \in staging'
    BY <2>1 DEF PointsOf
  <2> QED
    BY <2>1, <2>2, <2>4, <2>6, <2>7, <2>8, OneAttempt
<1>7. CASE ApplyLate(a)
  <2>1. /\ UNCHANGED <<collection, thread, request, reranker, left>> /\ a \in late
        /\ late' = late \ {a} /\ staging' = staging \union NewPoints(a)
    BY <1>7 DEF ApplyLate
  <2>2. \A p \in NewPoints(a) : DOMAIN p = {"of", "index", "old"} /\ p.of = a
    BY DEF NewPoints
  <2>3. thread[a].at \in Idle \union {"cleanup"} /\ ~(a[2] > request[a[1]].attempt) /\ a \in left
    BY <1>0, <2>1 DEF AttemptApart, StagedApart
  <2>4. AttemptApart(a)'
    BY <1>0, <2>1, <2>2, <2>3 DEF AttemptApart, Early, Idle, OrderOf
  <2>5. StagedApart'
    BY <1>0, <2>1, <2>2 DEF StagedApart
  <2>6. PICK t : t = thread[a]
    OBVIOUS
  <2> QED
    BY <2>1, <2>2, <2>4, <2>5, <2>6, OneAttempt
<1>8. CASE Age(a)
  <2>1. /\ UNCHANGED <<collection, late, thread, request, reranker, left>>
        /\ thread[a].at \in Idle /\ \E p \in staging : p.of = a
        /\ staging' = (staging \ PointsOf(a)) \union {[p EXCEPT !.old = TRUE] : p \in PointsOf(a)}
    BY <1>8 DEF Age, Idle, PointsOf
  <2>2. \A p \in PointsOf(a) : /\ [p EXCEPT !.old = TRUE].of = a
                              /\ DOMAIN [p EXCEPT !.old = TRUE] = {"of", "index", "old"}
    BY <1>0 DEF PointsOf, StagedApart
  <2>3. \A q \in staging' : DOMAIN q = {"of", "index", "old"} /\ (q.of = a \/ q \in staging)
    BY <1>0, <2>1, <2>2 DEF StagedApart
  <2>4. a \in left /\ ~(a[2] > request[a[1]].attempt)
    BY <1>0, <2>1 DEF AttemptApart
  <2>5. AttemptApart(a)'
    BY <1>0, <2>1, <2>4 DEF AttemptApart, Early, Idle, OrderOf
  <2>6. StagedApart'
    BY <1>0, <2>1, <2>3 DEF StagedApart
  <2>7. PICK t : t = thread[a]
    OBVIOUS
  <2>8. \A p \in staging : p.of # a => p \in staging'
    BY <2>1 DEF PointsOf
  <2> QED
    BY <2>1, <2>3, <2>5, <2>6, <2>7, <2>8, OneAttempt
<1> QED
  BY <1>1, <1>2, <1>3, <1>4, <1>5, <1>6, <1>7, <1>8

-----------------------------------------------------------------------------
\* A step that changes a request of which no attempt has staged: the threads of the
\* others, and what is staged, stay.
LEMMA OneRequest ==
  ASSUME RerankInv, NEW r \in Rerankings, UNCHANGED <<collection, staging, late, left>>,
         NEW record, request' = [request EXCEPT ![r] = record],
         DOMAIN record = {"at", "mode", "by", "size", "attempt", "ranked"},
         record.attempt \in Nat, request[r].attempt <= record.attempt, record.at # "new",
         record.at = "qdrant" => record.attempt \in 1..RerankRetries,
         record.size \in Nat, request[r].at # "new" => record.size = request[r].size,
         record.by = "qdrant" => OrderOf(r, record.ranked)',
         DOMAIN thread' = StagingAttempts,
         \A a \in StagingAttempts :
           \/ /\ thread'[a] = thread[a]
              /\ a[1] = r => a[2] <= request[r].attempt \/ a[2] > record.attempt
           \/ a[1] = r /\ a[2] = request[r].attempt /\ thread[a].at = "ended" /\ thread'[a] = NoThread
           \/ /\ a[1] = r /\ a[2] > request[r].attempt
              /\ thread'[a].at = "ensure" /\ DOMAIN thread'[a] = {"at", "error", "ranked"}
              /\ a[2] <= record.attempt,
         \A k \in Rerankers : reranker'[k].ready = reranker[k].ready
                              /\ DOMAIN reranker'[k] = DOMAIN reranker[k],
         DOMAIN reranker' = DOMAIN reranker
  PROVE  RerankInv'
<1>0. /\ DOMAIN thread = StagingAttempts /\ DOMAIN request = Rerankings /\ StagedApart
      /\ \A a \in StagingAttempts : AttemptApart(a)
      /\ \A q \in Rerankings : RequestApart(q)
  BY DEF RerankInv
<1>1. \A q \in Rerankings : request'[q] = IF q = r THEN record ELSE request[q]
  BY <1>0
<1>2. StagedApart'
  BY <1>0 DEF StagedApart
<1>3. ASSUME NEW q \in Rerankings PROVE RequestApart(q)'
  <2>1. CASE q = r
    BY <1>1, <2>1 DEF RequestApart
  <2>2. CASE q # r
    BY <1>0, <1>1, <2>2 DEF RequestApart, OrderOf
  <2> QED
    BY <2>1, <2>2
<1>4. ASSUME NEW a \in StagingAttempts PROVE AttemptApart(a)'
  <2>0. /\ AttemptApart(a) /\ a[1] \in Rerankings /\ a[2] \in Nat \ {0}
        /\ request[r].attempt \in Nat /\ RequestApart(r)
    BY <1>0, AttemptIs DEF RequestApart
  <2>1. CASE a[1] # r
    <3>1. request'[a[1]] = request[a[1]] /\ thread'[a] = thread[a]
      BY <1>1, <2>0, <2>1
    <3>2. NewPoints(a)' = NewPoints(a) /\ PointsOf(a)' = PointsOf(a)
      BY <3>1 DEF NewPoints, Size, PointsOf
    <3>3. OrderOf(a[1], thread[a].ranked)' <=> OrderOf(a[1], thread[a].ranked)
      BY <3>1 DEF OrderOf
    <3> QED
      BY <2>0, <3>1, <3>2, <3>3 DEF AttemptApart
  <2>2. CASE a[1] = r /\ a[2] > request[r].attempt
    <3>1. thread[a].at = "none" /\ a \notin late /\ \A p \in staging : p.of # a
      BY <2>0, <2>2 DEF AttemptApart
    <3>2. request'[r] = record
      BY <1>1
    <3>3. CASE thread'[a] = thread[a]
      BY <2>0, <2>2, <3>1, <3>2, <3>3 DEF AttemptApart, Early, Idle
    <3>4. CASE /\ thread'[a].at = "ensure" /\ DOMAIN thread'[a] = {"at", "error", "ranked"}
               /\ a[2] <= record.attempt
      BY <2>0, <2>2, <3>1, <3>2, <3>4 DEF AttemptApart, Early, Idle
    <3> QED
      BY <2>0, <2>2, <3>3, <3>4
  <2>3. CASE a[1] = r /\ a[2] <= request[r].attempt
    <3>1. request[r].at # "new" /\ request'[r] = record /\ record.size = request[r].size
          /\ ~(a[2] > record.attempt)
      BY <1>1, <2>0, <2>3 DEF RequestApart
    <3>2. NewPoints(a)' = NewPoints(a) /\ PointsOf(a)' = PointsOf(a)
      BY <2>3, <3>1 DEF NewPoints, Size, PointsOf
    <3>3. request'[a[1]].size = request[a[1]].size
      BY <2>3, <3>1
    <3>4. CASE thread'[a] = thread[a]
      <4>1. OrderOf(a[1], thread[a].ranked) => OrderOf(a[1], thread[a].ranked)'
        BY <3>3, <3>4 DEF OrderOf
      <4> QED
        BY <2>0, <2>3, <3>1, <3>2, <3>4, <4>1 DEF AttemptApart
    <3>5. CASE thread[a].at = "ended" /\ thread'[a] = NoThread
      <4>1. NoThread.at = "none" /\ DOMAIN NoThread = {"at", "error", "ranked"}
        BY DEF NoThread
      <4> QED
        BY <2>0, <2>3, <3>1, <3>5, <4>1 DEF AttemptApart, Early, Idle
    <3> QED
      BY <2>0, <2>3, <3>4, <3>5
  <2> QED
    BY <2>0, <2>1, <2>2, <2>3
<1> QED
  BY <1>0, <1>2, <1>3, <1>4 DEF RerankInv

\* A failed attempt is followed by the next, or gives the request up.
LEMMA AfterFailure ==
  ASSUME RerankInv, NEW r \in Rerankings, request[r].at = "qdrant", NEW error, NEW threads,
         Failed(r, error, threads), UNCHANGED <<collection, staging, late, left>>,
         \/ threads = thread
         \/ /\ thread[<<r, request[r].attempt>>].at = "ended"
            /\ threads = [thread EXCEPT ![<<r, request[r].attempt>>] = NoThread]
  PROVE  RerankInv'
<1> DEFINE n == request[r].attempt
<1>0. /\ DOMAIN thread = StagingAttempts /\ DOMAIN request = Rerankings
      /\ StagedApart /\ RequestApart(r) /\ n \in 1..RerankRetries /\ n \in Nat
  BY RerankAssumption DEF RerankInv, RequestApart
<1>1. /\ DOMAIN threads = StagingAttempts
      /\ \A a \in StagingAttempts :
           \/ threads[a] = thread[a]
           \/ /\ a[1] = r /\ a[2] = n /\ thread[a].at = "ended" /\ threads[a] = NoThread
  BY <1>0
<1>2. CASE /\ n < RerankRetries /\ Begin(r, [request[r] EXCEPT !.attempt = n + 1])
           /\ StartAttempt(r, n + 1, threads) /\ UNCHANGED reranker
  <2>1. PICK record : record = [request[r] EXCEPT !.attempt = n + 1]
    OBVIOUS
  <2>2. request' = [request EXCEPT ![r] = record] /\ request'[r] = record
    BY <1>0, <1>2, <2>1 DEF Begin
  <2>3. /\ DOMAIN record = {"at", "mode", "by", "size", "attempt", "ranked"}
        /\ record.attempt = n + 1 /\ record.at = "qdrant" /\ record.size = request[r].size
        /\ record.by = request[r].by /\ record.ranked = request[r].ranked
    BY <1>0, <2>1 DEF RequestApart
  <2>4. record.by = "qdrant" => OrderOf(r, record.ranked)'
    BY <1>0, <2>2, <2>3 DEF RequestApart, OrderOf
  <2>5. n + 1 \in 1..RerankRetries /\ n + 1 \in Nat
    BY <1>0, <1>2, RerankAssumption
  <2>6. PICK new : new = [NoThread EXCEPT !.at = "ensure"]
    OBVIOUS
  <2>7. new.at = "ensure" /\ DOMAIN new = {"at", "error", "ranked"}
    BY <2>6 DEF NoThread
  <2>8. thread' = [threads EXCEPT ![<<r, n + 1>>] = new]
    BY <1>2, <2>6 DEF StartAttempt
  <2>9. ASSUME NEW a \in StagingAttempts
        PROVE  \/ /\ thread'[a] = thread[a]
                  /\ a[1] = r => a[2] <= n \/ a[2] > n + 1
               \/ a[1] = r /\ a[2] = n /\ thread[a].at = "ended" /\ thread'[a] = NoThread
               \/ /\ a[1] = r /\ a[2] > n /\ a[2] <= n + 1
                  /\ thread'[a].at = "ensure" /\ DOMAIN thread'[a] = {"at", "error", "ranked"}
    <3>1. a = <<a[1], a[2]>> /\ a[2] \in Nat
      BY AttemptIs
    <3>2. CASE a = <<r, n + 1>>
      <4>1. a[1] = r /\ a[2] = n + 1 /\ thread'[a] = new
        BY <1>1, <2>8, <3>2
      <4>2. a[2] > n /\ a[2] <= n + 1
        BY <1>0, <4>1
      <4> QED
        BY <2>7, <4>1, <4>2
    <3>3. CASE a # <<r, n + 1>>
      <4>1. thread'[a] = threads[a]
        BY <1>1, <2>8, <3>3
      <4>2. a[1] = r => a[2] <= n \/ a[2] > n + 1
        BY <1>0, <3>1, <3>3
      <4> QED
        BY <1>1, <4>1, <4>2
    <3> QED
      BY <3>2, <3>3
  <2>10. DOMAIN thread' = StagingAttempts
    BY <1>1, <2>8
  <2>11. record.attempt \in Nat /\ n <= record.attempt /\ record.size \in Nat
    BY <1>0, <2>3, <2>5 DEF RequestApart
  <2>12. record.at # "new" /\ (record.at = "qdrant" => record.attempt \in 1..RerankRetries)
    BY <2>3, <2>5
  <2>13. /\ \A k \in Rerankers : /\ reranker'[k].ready = reranker[k].ready
                                 /\ DOMAIN reranker'[k] = DOMAIN reranker[k]
         /\ DOMAIN reranker' = DOMAIN reranker
    BY <1>2
  <2>14. \A a \in StagingAttempts :
           \/ /\ thread'[a] = thread[a]
              /\ a[1] = r => a[2] <= request[r].attempt \/ a[2] > record.attempt
           \/ a[1] = r /\ a[2] = request[r].attempt /\ thread[a].at = "ended" /\ thread'[a] = NoThread
           \/ /\ a[1] = r /\ a[2] > request[r].attempt
              /\ thread'[a].at = "ensure" /\ DOMAIN thread'[a] = {"at", "error", "ranked"}
              /\ a[2] <= record.attempt
    BY <2>3, <2>9
  <2> HIDE DEF n
  <2> QED
    BY <2>2, <2>3, <2>4, <2>10, <2>11, <2>12, <2>13, <2>14, OneRequest DEF n
<1>3. CASE /\ GiveUp(r, error) /\ thread' = threads
           /\ \/ UNCHANGED reranker
              \/ reranker' = [reranker EXCEPT ![RerankerOf[r]].failures =
                                IF @ < CircuitFailures THEN @ + 1 ELSE @,
                              ![RerankerOf[r]].cooled = FALSE]
  <2>1. PICK record : /\ \E at \in {"pinecone", "raised"} : record = [request[r] EXCEPT !.at = at]
                      /\ request' = [request EXCEPT ![r] = record]
    BY <1>3 DEF GiveUp, Begin
  <2>2. /\ DOMAIN record = {"at", "mode", "by", "size", "attempt", "ranked"}
        /\ record.attempt = n /\ record.at \in {"pinecone", "raised"}
        /\ record.size = request[r].size
        /\ record.by = request[r].by /\ record.ranked = request[r].ranked
        /\ request'[r] = record
    BY <1>0, <2>1 DEF RequestApart
  <2>3. record.by = "qdrant" => OrderOf(r, record.ranked)'
    BY <1>0, <2>2 DEF RequestApart, OrderOf
  <2>4. \A a \in StagingAttempts :
           \/ /\ thread'[a] = thread[a]
              /\ a[1] = r => a[2] <= request[r].attempt \/ a[2] > record.attempt
           \/ a[1] = r /\ a[2] = request[r].attempt /\ thread[a].at = "ended" /\ thread'[a] = NoThread
    <3>1. \A a \in StagingAttempts : a[2] <= n \/ a[2] > n
      BY <1>0, AttemptIs
    <3> QED
      BY <1>1, <1>3, <2>2, <3>1
  <2>5. record.attempt \in Nat /\ n <= record.attempt /\ record.size \in Nat
    BY <1>0, <2>2 DEF RequestApart
  <2>6. /\ \A k \in Rerankers : /\ reranker'[k].ready = reranker[k].ready
                                /\ DOMAIN reranker'[k] = DOMAIN reranker[k]
        /\ DOMAIN reranker' = DOMAIN reranker
    BY <1>0, <1>3 DEF StagedApart
  <2>7. DOMAIN thread' = StagingAttempts
    BY <1>1, <1>3
  <2>8. record.at # "new" /\ record.at # "qdrant"
    BY <2>2
  <2>9. \A a \in StagingAttempts :
           \/ /\ thread'[a] = thread[a]
              /\ a[1] = r => a[2] <= request[r].attempt \/ a[2] > record.attempt
           \/ a[1] = r /\ a[2] = request[r].attempt /\ thread[a].at = "ended" /\ thread'[a] = NoThread
           \/ /\ a[1] = r /\ a[2] > request[r].attempt
              /\ thread'[a].at = "ensure" /\ DOMAIN thread'[a] = {"at", "error", "ranked"}
              /\ a[2] <= record.attempt
    BY <2>4
  <2>10. request[r].at # "new" => record.size = request[r].size
    BY <2>2
  <2>11. request[r].attempt <= record.attempt
    BY <2>5
  <2> HIDE DEF n
  <2> QED
    BY <1>0, <2>1, <2>2, <2>3, <2>5, <2>6, <2>7, <2>8, <2>9, <2>10, <2>11, OneRequest
<1> QED
  BY <1>2, <1>3 DEF Failed

\* A request that starts: at Qdrant with a first attempt, or at Pinecone.
LEMMA RerankStarts ==
  ASSUME RerankInv, NEW r \in Rerankings, Rerank(r)
  PROVE  RerankInv'
<1>0. /\ DOMAIN thread = StagingAttempts /\ DOMAIN request = Rerankings
      /\ StagedApart /\ RequestApart(r)
      /\ request[r].at = "new" /\ request[r].attempt = 0 /\ request[r].attempt \in Nat
      /\ UNCHANGED <<collection, staging, late, left>>
  BY DEF RerankInv, RequestApart, Rerank
<1>1. PICK size \in Sizes, mode \in ModesOf[RerankerOf[r]] :
        \/ /\ Begin(r, [NoRequest EXCEPT !.mode = mode, !.size = size, !.at = "pinecone"])
           /\ UNCHANGED <<thread, reranker>>
        \/ /\ Begin(r, [NoRequest EXCEPT !.mode = mode, !.size = size, !.at = "qdrant",
                           !.attempt = 1])
           /\ StartAttempt(r, 1, thread)
           /\ \/ reranker' = [reranker EXCEPT ![RerankerOf[r]].failures = 0,
                                              ![RerankerOf[r]].cooled = FALSE]
              \/ UNCHANGED reranker
  BY DEF Rerank
<1>2. size \in Nat
  BY RerankAssumption
<1>3. \A a \in StagingAttempts : a = <<a[1], a[2]>> /\ a[2] \in Nat /\ a[2] > 0
  BY AttemptIs
<1>4. CASE /\ Begin(r, [NoRequest EXCEPT !.mode = mode, !.size = size, !.at = "pinecone"])
           /\ UNCHANGED <<thread, reranker>>
  <2>1. PICK record : record = [NoRequest EXCEPT !.mode = mode, !.size = size, !.at = "pinecone"]
    OBVIOUS
  <2>2. /\ DOMAIN record = {"at", "mode", "by", "size", "attempt", "ranked"}
        /\ record.attempt = 0 /\ record.at = "pinecone" /\ record.size = size /\ record.by = ""
    BY <2>1 DEF NoRequest
  <2>3. request' = [request EXCEPT ![r] = record]
    BY <1>4, <2>1 DEF Begin
  <2>4. record.attempt \in Nat /\ request[r].attempt <= record.attempt
    <3>1. record.attempt = 0 /\ request[r].attempt = 0
      BY <1>0, <2>2
    <3> QED
      BY <3>1
  <2>5. record.at # "new" /\ record.at # "qdrant" /\ record.by # "qdrant"
    BY <2>2
  <2>6. \A a \in StagingAttempts :
          /\ thread'[a] = thread[a]
          /\ a[1] = r => a[2] <= request[r].attempt \/ a[2] > record.attempt
    BY <1>3, <1>4, <2>2
  <2> QED
    BY <1>0, <1>2, <1>4, <2>2, <2>3, <2>4, <2>5, <2>6, OneRequest
<1>5. CASE /\ Begin(r, [NoRequest EXCEPT !.mode = mode, !.size = size, !.at = "qdrant",
                          !.attempt = 1])
           /\ StartAttempt(r, 1, thread)
           /\ \/ reranker' = [reranker EXCEPT ![RerankerOf[r]].failures = 0,
                                             ![RerankerOf[r]].cooled = FALSE]
              \/ UNCHANGED reranker
  <2>1. PICK record : record = [NoRequest EXCEPT !.mode = mode, !.size = size, !.at = "qdrant",
                                  !.attempt = 1]
    OBVIOUS
  <2>2. /\ DOMAIN record = {"at", "mode", "by", "size", "attempt", "ranked"}
        /\ record.attempt = 1 /\ record.at = "qdrant" /\ record.size = size /\ record.by = ""
    BY <2>1 DEF NoRequest
  <2>3. request' = [request EXCEPT ![r] = record]
    BY <1>5, <2>1 DEF Begin
  <2>4. /\ record.attempt \in Nat /\ request[r].attempt <= record.attempt
        /\ record.attempt \in 1..RerankRetries
    <3>1. record.attempt = 1 /\ request[r].attempt = 0
      BY <1>0, <2>2
    <3>2. 1 \in 1..RerankRetries
      BY RerankAssumption
    <3> QED
      BY <3>1, <3>2
  <2>5. record.at # "new" /\ record.by # "qdrant"
    BY <2>2
  <2>6. PICK new : new = [NoThread EXCEPT !.at = "ensure"]
    OBVIOUS
  <2>7. new.at = "ensure" /\ DOMAIN new = {"at", "error", "ranked"}
    BY <2>6 DEF NoThread
  <2>8. thread' = [thread EXCEPT ![<<r, 1>>] = new]
    BY <1>5, <2>6 DEF StartAttempt
  <2>9. ASSUME NEW a \in StagingAttempts
        PROVE  \/ /\ thread'[a] = thread[a]
                  /\ a[1] = r => a[2] <= request[r].attempt \/ a[2] > record.attempt
               \/ /\ a[1] = r /\ a[2] > request[r].attempt
                  /\ thread'[a].at = "ensure" /\ DOMAIN thread'[a] = {"at", "error", "ranked"}
                  /\ a[2] <= record.attempt
    <3>1. CASE a = <<r, 1>>
      <4>1. a[1] = r /\ a[2] = 1 /\ thread'[a] = new
        BY <1>0, <2>8, <3>1
      <4> QED
        <5>1. record.attempt = 1 /\ request[r].attempt = 0
          BY <1>0, <2>2
        <5> QED
          BY <2>7, <4>1, <5>1
    <3>2. CASE a # <<r, 1>>
      <4>1. thread'[a] = thread[a]
        BY <1>0, <2>8, <3>2
      <4>2. a[1] = r => a[2] > 1
        BY <1>3, <3>2
      <4> QED
        BY <2>2, <4>1, <4>2
    <3> QED
      BY <3>1, <3>2
  <2>10. /\ \A k \in Rerankers : /\ reranker'[k].ready = reranker[k].ready
                                 /\ DOMAIN reranker'[k] = DOMAIN reranker[k]
         /\ DOMAIN reranker' = DOMAIN reranker /\ DOMAIN thread' = StagingAttempts
    BY <1>0, <1>5, <2>8 DEF StagedApart
  <2> QED
    BY <1>0, <1>2, <2>2, <2>3, <2>4, <2>5, <2>9, <2>10, OneRequest
<1> QED
  BY <1>1, <1>4, <1>5

\* The answer of an attempt, or its failure.
LEMMA AfterReturn ==
  ASSUME RerankInv, NEW r \in Rerankings, Returned(r)
  PROVE  RerankInv'
<1> DEFINE a == <<r, request[r].attempt>>
           others == [thread EXCEPT ![a] = NoThread]
<1>0. /\ DOMAIN thread = StagingAttempts /\ DOMAIN request = Rerankings
      /\ StagedApart /\ RequestApart(r) /\ request[r].at = "qdrant" /\ thread[a].at = "ended"
      /\ UNCHANGED <<collection, staging, late, left>>
  BY DEF RerankInv, Returned
<1>1. /\ a \in StagingAttempts /\ a[1] = r /\ a[2] = request[r].attempt
      /\ request[r].attempt \in Nat /\ request[r].attempt \in 1..RerankRetries
  BY <1>0 DEF RequestApart, StagingAttempts
<1>2. \A b \in StagingAttempts : b = <<b[1], b[2]>> /\ b[2] \in Nat
  BY AttemptIs
<1>3. CASE /\ thread[a].error = ""
           /\ Begin(r, [request[r] EXCEPT !.at = "answered", !.by = "qdrant",
                                          !.ranked = thread[a].ranked])
           /\ reranker' = [reranker EXCEPT ![RerankerOf[r]].failures = 0,
                                           ![RerankerOf[r]].cooled = FALSE]
           /\ thread' = others
  <2>1. PICK record : record = [request[r] EXCEPT !.at = "answered", !.by = "qdrant",
                                  !.ranked = thread[a].ranked]
    OBVIOUS
  <2>2. /\ DOMAIN record = {"at", "mode", "by", "size", "attempt", "ranked"}
        /\ record.attempt = request[r].attempt /\ record.at = "answered"
        /\ record.size = request[r].size /\ record.ranked = thread[a].ranked
    BY <1>0, <2>1 DEF RequestApart
  <2>3. request' = [request EXCEPT ![r] = record] /\ request'[r] = record
    BY <1>0, <1>3, <2>1 DEF Begin
  <2>4. OrderOf(r, record.ranked)'
    <3>1. OrderOf(r, thread[a].ranked)
      BY <1>0, <1>1, <1>3 DEF RerankInv, AttemptApart
    <3> QED
      BY <2>2, <2>3, <3>1 DEF OrderOf
  <2>5. ASSUME NEW b \in StagingAttempts
        PROVE  \/ /\ thread'[b] = thread[b]
                  /\ b[1] = r => b[2] <= request[r].attempt \/ b[2] > record.attempt
               \/ /\ b[1] = r /\ b[2] = request[r].attempt /\ thread[b].at = "ended"
                  /\ thread'[b] = NoThread
    <3>1. CASE b = a
      BY <1>0, <1>1, <1>3, <3>1
    <3>2. CASE b # a
      <4>1. thread'[b] = thread[b]
        BY <1>0, <1>3, <3>2
      <4>2. b[2] <= request[r].attempt \/ b[2] > record.attempt
        BY <1>1, <1>2, <2>2
      <4> QED
        BY <4>1, <4>2
    <3> QED
      BY <3>1, <3>2
  <2>6. /\ record.attempt \in Nat /\ request[r].attempt <= record.attempt
        /\ record.at # "new" /\ record.at # "qdrant" /\ record.size \in Nat
    BY <1>0, <1>1, <2>2 DEF RequestApart
  <2>7. /\ \A k \in Rerankers : /\ reranker'[k].ready = reranker[k].ready
                                /\ DOMAIN reranker'[k] = DOMAIN reranker[k]
        /\ DOMAIN reranker' = DOMAIN reranker /\ DOMAIN thread' = StagingAttempts
    BY <1>0, <1>3 DEF StagedApart
  <2>8. \A b \in StagingAttempts :
           \/ /\ thread'[b] = thread[b]
              /\ b[1] = r => b[2] <= request[r].attempt \/ b[2] > record.attempt
           \/ /\ b[1] = r /\ b[2] = request[r].attempt /\ thread[b].at = "ended"
              /\ thread'[b] = NoThread
           \/ /\ b[1] = r /\ b[2] > request[r].attempt
              /\ thread'[b].at = "ensure" /\ DOMAIN thread'[b] = {"at", "error", "ranked"}
              /\ b[2] <= record.attempt
    BY <2>5
  <2>9. request[r].at # "new" => record.size = request[r].size
    BY <2>2
  <2>10. UNCHANGED <<collection, staging, late, left>>
    BY <1>0
  <2>11. record.by = "qdrant" => OrderOf(r, record.ranked)'
    BY <2>4
  <2>12. record.at = "qdrant" => record.attempt \in 1..RerankRetries
    BY <2>6
  <2> HIDE DEF a, others
  <2> QED
    BY <2>2, <2>3, <2>6, <2>7, <2>8, <2>9, <2>10, <2>11, <2>12, OneRequest
<1>4. CASE Failed(r, thread[a].error, others)
  BY <1>0, <1>4, AfterFailure
<1> QED
  BY <1>3, <1>4 DEF Returned

\* A restart ends the threads of an object; what they staged is left to the sweeps.
LEMMA AfterRestart ==
  ASSUME RerankInv, NEW k \in Rerankers, Restart(k)
  PROVE  RerankInv'
<1> DEFINE running == {a \in StagingAttempts :
                         OfThread(a) = k /\ thread[a].at \notin {"none", "ended"}}
<1>0. /\ DOMAIN thread = StagingAttempts /\ DOMAIN request = Rerankings /\ StagedApart
      /\ UNCHANGED <<collection, staging, late>> /\ left' = left \union running
      /\ reranker' = [reranker EXCEPT ![k] = NewReranker]
      /\ thread' = [a \in StagingAttempts |-> IF OfThread(a) = k THEN NoThread ELSE thread[a]]
      /\ request' = [r \in Rerankings |->
           IF RerankerOf[r] = k /\ request[r].at \in {"qdrant", "pinecone"}
           THEN [request[r] EXCEPT !.at = "raised"] ELSE request[r]]
  BY DEF RerankInv, Restart
<1>1. ASSUME NEW r \in Rerankings
      PROVE  /\ RequestApart(r)' /\ request'[r].attempt = request[r].attempt
             /\ request'[r].size = request[r].size
  <2>1. RequestApart(r)
    BY DEF RerankInv
  <2>2. CASE request'[r] = request[r]
    BY <2>1, <2>2 DEF RequestApart, OrderOf
  <2>3. CASE /\ request'[r] = [request[r] EXCEPT !.at = "raised"]
             /\ request[r].at \in {"qdrant", "pinecone"}
    <3>1. /\ DOMAIN request'[r] = {"at", "mode", "by", "size", "attempt", "ranked"}
          /\ request'[r].at = "raised" /\ request'[r].attempt = request[r].attempt
          /\ request'[r].size = request[r].size /\ request'[r].by = request[r].by
          /\ request'[r].ranked = request[r].ranked
      BY <2>1, <2>3 DEF RequestApart
    <3> QED
      BY <2>1, <3>1 DEF RequestApart, OrderOf
  <2> QED
    BY <1>0, <2>2, <2>3
<1>2. ASSUME NEW a \in StagingAttempts PROVE AttemptApart(a)'
  <2>0. AttemptApart(a) /\ a[1] \in Rerankings
    BY AttemptIs DEF RerankInv
  <2>1. /\ request'[a[1]].attempt = request[a[1]].attempt
        /\ request'[a[1]].size = request[a[1]].size
    BY <1>1, <2>0
  <2>2. NewPoints(a)' = NewPoints(a) /\ PointsOf(a)' = PointsOf(a)
    BY <1>0, <2>1 DEF NewPoints, Size, PointsOf
  <2>3. CASE OfThread(a) = k
    <3>1. /\ thread'[a].at = "none" /\ thread'[a].error = ""
          /\ DOMAIN thread'[a] = {"at", "error", "ranked"}
      BY <1>0, <2>3 DEF NoThread
    <3>2. \A p \in staging : p.of = a => a \in left'
      BY <1>0, <2>0, <2>3 DEF AttemptApart, Idle
    <3> QED
      BY <1>0, <2>0, <2>1, <3>1, <3>2 DEF AttemptApart, Early, Idle
  <2>4. CASE OfThread(a) # k
    <3>1. thread'[a] = thread[a]
      BY <1>0, <2>4
    <3>2. OrderOf(a[1], thread[a].ranked) => OrderOf(a[1], thread[a].ranked)'
      BY <2>1, <3>1 DEF OrderOf
    <3> QED
      BY <1>0, <2>0, <2>1, <2>2, <3>1, <3>2 DEF AttemptApart
  <2> QED
    BY <2>3, <2>4
<1>3. StagedApart'
  <2>1. DOMAIN NewReranker = {"ready", "due", "failures", "cooled"} /\ ~NewReranker.ready
    BY DEF NewReranker
  <2> QED
    BY <1>0, <2>1 DEF StagedApart
<1>4. DOMAIN thread' = StagingAttempts /\ DOMAIN request' = Rerankings
  BY <1>0
<1> QED
  BY <1>1, <1>2, <1>3, <1>4 DEF RerankInv

LEMMA RerankStep == RerankInv /\ [RerankNext]_rerankVars => RerankInv'
<1> SUFFICES ASSUME RerankInv, [RerankNext]_rerankVars PROVE RerankInv'
  OBVIOUS
<1>0. DOMAIN thread = StagingAttempts /\ DOMAIN request = Rerankings /\ StagedApart
  BY DEF RerankInv
<1>1. CASE UNCHANGED rerankVars
  BY <1>1 DEF rerankVars, RerankInv, StagedApart, AttemptApart, RequestApart, OrderOf,
     NewPoints, PointsOf, Size
<1>2. ASSUME NEW k \in Rerankers, Elapse(k) PROVE RerankInv'
  <2>1. /\ UNCHANGED <<collection, staging, late, thread, request, left>>
        /\ \A j \in Rerankers : /\ reranker'[j].ready = reranker[j].ready
                                /\ DOMAIN reranker'[j] = DOMAIN reranker[j]
        /\ DOMAIN reranker' = DOMAIN reranker
    BY <1>0, <1>2 DEF Elapse, StagedApart
  <2>2. StagedApart'
    BY <1>0, <2>1 DEF StagedApart
  <2> QED
    BY <2>1, <2>2 DEF RerankInv, AttemptApart, RequestApart, OrderOf, NewPoints, PointsOf, Size
<1>3. ASSUME NEW r \in Rerankings, TimedOut(r) PROVE RerankInv'
  BY <1>3, AfterFailure DEF TimedOut
<1>4. ASSUME NEW r \in Rerankings, AskPinecone(r) PROVE RerankInv'
  <2>0. /\ RequestApart(r) /\ request[r].at = "pinecone"
        /\ UNCHANGED <<collection, staging, late, thread, reranker, left>>
    BY <1>4 DEF AskPinecone, RerankInv
  <2>1. PICK record : /\ \/ record = [request[r] EXCEPT !.at = "raised"]
                         \/ record = [request[r] EXCEPT !.at = "answered", !.by = "pinecone"]
                      /\ request' = [request EXCEPT ![r] = record]
    BY <1>4 DEF AskPinecone, Begin
  <2>2. /\ DOMAIN record = {"at", "mode", "by", "size", "attempt", "ranked"}
        /\ record.attempt = request[r].attempt /\ record.at \in {"raised", "answered"}
        /\ record.size = request[r].size /\ record.ranked = request[r].ranked
        /\ record.by = "pinecone" \/ record.by = request[r].by
        /\ request'[r] = record
    BY <1>0, <2>0, <2>1 DEF RequestApart
  <2>3. record.by = "qdrant" => OrderOf(r, record.ranked)'
    BY <2>0, <2>2 DEF RequestApart, OrderOf
  <2>4. /\ record.attempt \in Nat /\ request[r].attempt <= record.attempt
        /\ record.at # "new" /\ record.at # "qdrant" /\ record.size \in Nat
    BY <2>0, <2>2 DEF RequestApart
  <2>5. \A a \in StagingAttempts :
          /\ thread'[a] = thread[a]
          /\ a[2] <= request[r].attempt \/ a[2] > record.attempt
    BY <2>0, <2>2, AttemptIs DEF RequestApart
  <2> QED
    BY <1>0, <2>0, <2>1, <2>2, <2>3, <2>4, <2>5, OneRequest
<1> QED
  BY <1>1, <1>2, <1>3, <1>4, RerankStarts, AfterReturn, AfterRestart, RerankThreadStep
     DEF RerankNext

\* Requests that share the staging collection of remote_reranker.py do not touch each
\* other's points, and leave none that nothing deletes.
THEOREM StagingKeptApart == RerankSpec => []StagingApart
<1>1. RerankInv => StagingApart
  <2> SUFFICES ASSUME RerankInv PROVE StagingApart
    OBVIOUS
  <2>1. \A r \in Rerankings : request[r].by = "qdrant" =>
          /\ request[r].ranked \subseteq {r} \X Indices(request[r].size)
          /\ Cardinality(request[r].ranked) = SetExt!Min({request[r].size, RerankLimit})
    BY DEF RerankInv, RequestApart, OrderOf
  <2>2. ASSUME NEW p \in staging
        PROVE  p.of \in left \/ thread[p.of].at \in {"query", "cleanup"}
    <3>1. p.of \in StagingAttempts
      BY DEF RerankInv, StagedApart
    <3> QED
      BY <3>1 DEF RerankInv, AttemptApart, Idle
  <2>3. staging # {} => collection = "indexed"
    BY DEF RerankInv, StagedApart
  <2> QED
    BY <2>1, <2>2, <2>3 DEF StagingApart
<1> QED
  BY <1>1, InitRerank, RerankStep, PTL DEF RerankSpec
=============================================================================
