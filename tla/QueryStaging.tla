---------------------------- MODULE QueryStaging ----------------------------
(***************************************************************************)
(* app/ingestion/qdrant_inference.py: Qdrant embeds a text by being asked  *)
(* to upsert it into a small staging collection, and the vector is then    *)
(* read back from the point.  Queries all use one point, QUERY_POINT_ID,   *)
(* under a lock that lives in the process; ingestion batches use the       *)
(* points of their window slot, with no lock.                              *)
(*                                                                         *)
(* A vector is represented by the text it embeds.                          *)
(***************************************************************************)
EXTENDS Integers

CONSTANTS Processes,      \* replicas of the server and pipeline commands
          Callers,        \* threads that call embed_query
          ProcessOf,      \* the process of each caller
          Questions,
          NoText,
          Slots,          \* window positions 0..INGESTION_BATCH_CONCURRENCY-1
          BatchSize,      \* UPLOAD_BATCH_SIZE
          MaxAttempts,    \* QDRANT_INFERENCE_MAX_RETRIES
          MaxRounds,      \* bound: windows one ingestion run goes through
          MaxResets       \* bound: times the staging collection is reset

ASSUME CallersAssumption == ProcessOf \in [Callers -> Processes]
ASSUME TextAssumption == NoText \notin Questions
ASSUME SlotsAssumption == Slots \subseteq Nat /\ BatchSize \in Nat \ {0}
ASSUME BoundsAssumption == /\ MaxAttempts \in Nat \ {0}
                           /\ MaxRounds \in Nat
                           /\ MaxResets \in Nat

VARIABLES staged,         \* text last upserted at each staging point
          stray,          \* an upsert its caller gave up on, still in flight
          strayed,        \* points a stray upsert was applied to
          lockedBy,       \* _QUERY_SLOT_LOCK of each process: holders
          call,           \* embed_query of each caller
          batch,          \* extract_dense_vectors of each window slot
          round, resets

storeVars == <<staged, stray, strayed>>
stagingVars == <<storeVars, lockedBy, call, batch, round, resets>>

QueryPoint == -1          \* QUERY_POINT_ID, apart from every batch point
\* mutant: slots a point too close
BatchPoint_Overlapping(s, o) == s * (BatchSize - 1) + o

BatchPoint(s, o) == s * BatchSize + o
BatchPoints == {BatchPoint(s, o) : s \in Slots, o \in 0..(BatchSize - 1)}
Points == BatchPoints \union {QueryPoint}

\* The o-th document text of slot s in a window.
DocText(r, s, o) == <<r, s, o>>

\* An upsert: the text it leaves at each point it names.
NoWrite == [p \in {} |-> NoText]
QueryWrite(t) == [p \in {QueryPoint} |-> t]
BatchWrite(s, n) ==
  [p \in {BatchPoint(s, o) : o \in {k \in 0..(BatchSize - 1) : k < n}} |->
     DocText(round, s, p - BatchPoint(s, 0))]
Apply(write) ==
  staged' = [p \in Points |-> IF p \in DOMAIN write THEN write[p] ELSE staged[p]]

\* What a failed upsert does: nothing, all of it, or all of it later (a read
\* timeout ends the call, not the request).  Bound: one is in flight at a time.
Abandon(write) ==
  \/ UNCHANGED storeVars
  \/ Apply(write) /\ UNCHANGED <<stray, strayed>>
  \/ stray = NoWrite /\ stray' = write /\ UNCHANGED <<staged, strayed>>

NoCall == [stage |-> "idle", text |-> NoText, attempt |-> 0, vector |-> NoText]
\* The last batch of a corpus may be short.
ReadyBatches == [stage : {"ready"}, count : 1..BatchSize, got : {<<>>}]

StagingInit ==
  /\ staged = [p \in Points |-> NoText]
  /\ stray = NoWrite
  /\ strayed = {}
  /\ lockedBy = [p \in Processes |-> {}]
  /\ call = [c \in Callers |-> NoCall]
  /\ batch \in [Slots -> ReadyBatches]
  /\ round = 0
  /\ resets = 0

-----------------------------------------------------------------------------
(* embed_query                                                             *)

Call(c, q) ==
  /\ call[c].stage = "idle"
  /\ call' = [call EXCEPT ![c] = [NoCall EXCEPT !.stage = "waiting", !.text = q]]
  /\ UNCHANGED <<storeVars, lockedBy, batch, round, resets>>

\* mutant: no lock
Acquire_Unlocked(c) ==
  /\ call[c].stage = "waiting"
  /\ call' = [call EXCEPT ![c].stage = "holding", ![c].attempt = 1]
  /\ UNCHANGED <<storeVars, lockedBy, batch, round, resets>>

Acquire(c) ==
  /\ call[c].stage = "waiting"
  /\ lockedBy[ProcessOf[c]] = {}
  /\ lockedBy' = [lockedBy EXCEPT ![ProcessOf[c]] = {c}]
  /\ call' = [call EXCEPT ![c].stage = "holding", ![c].attempt = 1]
  /\ UNCHANGED <<storeVars, batch, round, resets>>

UpsertQuery(c) ==
  /\ call[c].stage = "holding"
  /\ Apply(QueryWrite(call[c].text))
  /\ call' = [call EXCEPT ![c].stage = "written"]
  /\ UNCHANGED <<stray, strayed, lockedBy, batch, round, resets>>

Release(c) == lockedBy' = [lockedBy EXCEPT ![ProcessOf[c]] = @ \ {c}]

\* One record is the vector; no record is RuntimeError.
RetrieveQuery(c) ==
  /\ call[c].stage = "written"
  /\ call' = [call EXCEPT ![c].vector = staged[QueryPoint],
                          ![c].stage = IF staged[QueryPoint] = NoText
                                       THEN "failed" ELSE "returned"]
  /\ Release(c)
  /\ UNCHANGED <<storeVars, batch, round, resets>>

\* mutant: the lock is not released when the attempts run out
TransientFailure_KeepsLock(c) ==
  /\ call[c].stage \in {"holding", "written"}
  /\ call' = IF call[c].attempt < MaxAttempts
             THEN [call EXCEPT ![c].stage = "holding", ![c].attempt = @ + 1]
             ELSE [call EXCEPT ![c].stage = "failed"]
  /\ UNCHANGED <<storeVars, lockedBy, batch, round, resets>>

\* _retry_qdrant: a transient failure of the upsert or of the retrieval tries
\* the pair again, under the same lock, until the attempts run out.
TransientFailure(c) ==
  /\ \/ call[c].stage = "holding" /\ Abandon(QueryWrite(call[c].text))
     \/ call[c].stage = "written" /\ UNCHANGED storeVars
  /\ \/ /\ call[c].attempt < MaxAttempts
        /\ call' = [call EXCEPT ![c].stage = "holding", ![c].attempt = @ + 1]
        /\ UNCHANGED lockedBy
     \/ /\ call[c].attempt = MaxAttempts
        /\ call' = [call EXCEPT ![c].stage = "failed"]
        /\ Release(c)
  /\ UNCHANGED <<batch, round, resets>>

-----------------------------------------------------------------------------
(* extract_dense_vectors, one call per slot of the window                  *)

UpsertBatch(s) ==
  /\ batch[s].stage = "ready"
  /\ Apply(BatchWrite(s, batch[s].count))
  /\ batch' = [batch EXCEPT ![s].stage = "written"]
  /\ UNCHANGED <<stray, strayed, lockedBy, call, round, resets>>

RetrieveBatch(s) ==
  /\ batch[s].stage = "written"
  /\ LET got == [o \in 0..(batch[s].count - 1) |-> staged[BatchPoint(s, o)]]
         whole == \A o \in DOMAIN got : got[o] # NoText
     IN  batch' = [batch EXCEPT ![s].got = got,
                                ![s].stage = IF whole THEN "returned" ELSE "failed"]
  /\ UNCHANGED <<storeVars, lockedBy, call, round, resets>>

\* Tried again, or the attempts have run out.
TransientBatch(s) ==
  /\ \/ batch[s].stage = "ready" /\ Abandon(BatchWrite(s, batch[s].count))
     \/ batch[s].stage = "written" /\ UNCHANGED storeVars
  /\ \E next \in {"ready", "failed"} :
       batch' = [batch EXCEPT ![s].stage = next]
  /\ UNCHANGED <<lockedBy, call, round, resets>>

\* gather returned: the next window reuses the slots.  A failed batch ends
\* the run.
NextWindow ==
  /\ round < MaxRounds
  /\ \A s \in Slots : batch[s].stage = "returned"
  /\ batch' \in [Slots -> ReadyBatches]
  /\ round' = round + 1
  /\ UNCHANGED <<storeVars, lockedBy, call, resets>>

\* reset_inference_staging by a fresh ingestion run elsewhere.
ResetStaging ==
  /\ resets < MaxResets
  /\ staged' = [p \in Points |-> NoText]
  /\ resets' = resets + 1
  /\ UNCHANGED <<stray, strayed, lockedBy, call, batch, round>>

\* The request that was given up on is applied after all.
StrayLands ==
  /\ stray # NoWrite
  /\ Apply(stray)
  /\ stray' = NoWrite
  /\ strayed' = strayed \union DOMAIN stray
  /\ UNCHANGED <<lockedBy, call, batch, round, resets>>

EmbedStep(c) == \/ Acquire(c) \/ UpsertQuery(c) \/ RetrieveQuery(c)
                \/ TransientFailure(c)

BatchStep == \E s \in Slots :
  UpsertBatch(s) \/ RetrieveBatch(s) \/ TransientBatch(s)

StagingNext == \/ \E c \in Callers, q \in Questions : Call(c, q)
               \/ \E c \in Callers : EmbedStep(c)
               \/ BatchStep
               \/ NextWindow
               \/ ResetStaging
               \/ StrayLands

StagingSpec == StagingInit /\ [][StagingNext]_stagingVars

-----------------------------------------------------------------------------
CallType == [stage : {"idle", "waiting", "holding", "written", "returned", "failed"},
             text : Questions \union {NoText},
             attempt : 0..MaxAttempts,
             vector : Questions \union {NoText}]

StagingTypeOK ==
  /\ DOMAIN staged = Points
  /\ staged[QueryPoint] \in Questions \union {NoText}
  /\ DOMAIN stray \subseteq Points /\ strayed \subseteq Points
  /\ QueryPoint \in DOMAIN stray => stray[QueryPoint] \in Questions
  /\ lockedBy \in [Processes -> SUBSET Callers]
  /\ call \in [Callers -> CallType]
  /\ DOMAIN batch = Slots
  /\ round \in 0..MaxRounds
  /\ resets \in 0..MaxResets

(* A query embedding that returns is the embedding of the query it was     *)
(* asked for: "a fixed serialized slot ... preserving query/vector         *)
(* correctness".                                                           *)
QueryVectorOwn == \A c \in Callers :
  call[c].stage = "returned" => call[c].vector = call[c].text

(* The same, as far as the lock can give it: unless an upsert that timed   *)
(* out was applied to the query point after its caller had gone on.        *)
SerializedVectorOwn == QueryPoint \notin strayed => QueryVectorOwn

(* Every vector an ingestion batch reads back embeds its own document,     *)
(* whatever the other slots, the queries and a reset do meanwhile, unless  *)
(* a timed-out upsert was applied to that point late.                      *)
BatchVectorsOwn == \A s \in Slots :
  batch[s].stage = "returned" =>
    \A o \in DOMAIN batch[s].got :
      BatchPoint(s, o) \notin strayed => batch[s].got[o] = DocText(round, s, o)
=============================================================================
