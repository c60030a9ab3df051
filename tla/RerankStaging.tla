---------------------------- MODULE RerankStaging -----------------------------
(***************************************************************************)
(* app/services/remote_reranker.py: a request stages its documents as      *)
(* points of a collection all rerankers share, asks Qdrant for their       *)
(* order and deletes them; after failures Pinecone answers instead.        *)
(*                                                                         *)
(* An attempt runs in a thread.  A timeout ends the wait for the thread,   *)
(* not the thread, and the next attempt runs beside it.  A call to Qdrant  *)
(* that fails may have been applied, or may still be applied later.        *)
(***************************************************************************)
EXTENDS Integers, FiniteSets, Collections

CONSTANTS Rerankers,          \* RemoteReranker objects
          Rerankings,         \* requests
          RerankerOf,         \* of a request
          ModesOf,            \* of an object: the modes its callers ask for
          Sizes,              \* numbers of documents
          RerankLimit,        \* rerank_return_limit
          RerankRetries,      \* QDRANT_RERANK_MAX_RETRIES
          CircuitFailures,    \* RERANK_CIRCUIT_BREAKER_FAILURES
          MaxStaged,          \* QDRANT_RERANK_MAX_STAGING_POINTS
          MaxTries,           \* bound: attempts of all requests together
          MaxLosses           \* bound: restarts and points that stay behind

ASSUME RerankAssumption ==
  /\ Sizes \subseteq Nat \ {0}
  /\ {RerankLimit, RerankRetries, CircuitFailures, MaxStaged} \subseteq Nat \ {0}
  /\ {MaxTries, MaxLosses} \subseteq Nat
  /\ \A k \in Rerankers : ModesOf[k] \subseteq {"current", "qdrant-only", "pinecone-only"}

StagingAttempts == Rerankings \X (1..RerankRetries)

VARIABLES collection,   \* the staging collection: absent, bare, indexed
          staging,       \* its points: [of, index, old]
          late,         \* attempts whose upsert Qdrant has yet to apply
          thread, request,
          reranker,     \* what each object knows
          left          \* attempts whose points nobody deletes but a sweep

rerankVars == <<collection, staging, late, thread, request, reranker, left>>

NoThread == [at |-> "none", error |-> "", ranked |-> {}]
NoRequest == [at |-> "new", mode |-> "", by |-> "", size |-> 1, attempt |-> 0,
              ranked |-> {}]
NewReranker == [ready |-> FALSE, due |-> TRUE, failures |-> 0, cooled |-> FALSE]

RerankInit ==
  /\ collection \in {"absent", "bare", "indexed"}
  /\ staging = {} /\ late = {} /\ left = {}
  /\ thread = [a \in StagingAttempts |-> NoThread]
  /\ request = [r \in Rerankings |-> NoRequest]
  /\ reranker = [k \in Rerankers |-> NewReranker]

Size(a) == request[a[1]].size
Indices(n) == 0..(n - 1)
NewPoints(a) == {[of |-> a, index |-> i, old |-> FALSE] : i \in Indices(Size(a))}
PointsOf(a) == {p \in staging : p.of = a}
\* _request_filter
RequestFilter(a) == PointsOf(a)
Aged(points) == {p \in points : p.old}

-----------------------------------------------------------------------------
(* rerank                                                                   *)

Circuit(k) == reranker[k].failures >= CircuitFailures

Begin(r, record) == request' = [request EXCEPT ![r] = record]

StartAttempt(r, n, threads) ==
  thread' = [threads EXCEPT ![<<r, n>>] = [NoThread EXCEPT !.at = "ensure"]]

Tries == SetExt!MapThenSumSet(LAMBDA q : request[q].attempt, Rerankings)

\* _circuit_is_open closes a circuit that has cooled down.
Rerank(r) ==
  /\ request[r].at = "new"
  /\ \E n \in Sizes, mode \in ModesOf[RerankerOf[r]] :
       LET k == RerankerOf[r]
           record == [NoRequest EXCEPT !.mode = mode, !.size = n]
           open == mode = "current" /\ Circuit(k)
       IN  \/ /\ mode = "pinecone-only" \/ (open /\ ~reranker[k].cooled)
              /\ Begin(r, [record EXCEPT !.at = "pinecone"])
              /\ UNCHANGED <<thread, reranker>>
           \/ /\ mode # "pinecone-only" /\ (open => reranker[k].cooled)
              /\ Tries < MaxTries
              /\ Begin(r, [record EXCEPT !.at = "qdrant", !.attempt = 1])
              /\ StartAttempt(r, 1, thread)
              /\ reranker' = IF open THEN [reranker EXCEPT ![k].failures = 0, ![k].cooled = FALSE]
                           ELSE reranker
  /\ UNCHANGED <<collection, staging, late, left>>

\* rerank, when the last attempt of _qdrant_rerank raises
GiveUp(r, error) ==
  Begin(r, [request[r] EXCEPT !.at =
    IF request[r].mode = "current" /\ error \in {"transient", "unavailable"}
    THEN "pinecone" ELSE "raised"])

\* _record_qdrant_failure and the loop of _qdrant_rerank
Failed(r, error, threads) ==
  LET n == request[r].attempt
  IN  \/ /\ error = "transient" /\ n < RerankRetries /\ Tries < MaxTries
         /\ Begin(r, [request[r] EXCEPT !.attempt = n + 1])
         /\ StartAttempt(r, n + 1, threads)
         /\ UNCHANGED reranker
      \/ /\ error = "transient" /\ n = RerankRetries
         /\ GiveUp(r, error)
         /\ reranker' = [reranker EXCEPT ![RerankerOf[r]].failures =
                           IF @ < CircuitFailures THEN @ + 1 ELSE @,
                         ![RerankerOf[r]].cooled = FALSE]
         /\ thread' = threads
      \/ /\ error # "transient" /\ GiveUp(r, error)
         /\ thread' = threads
         /\ UNCHANGED reranker

\* The thread has returned, or raised.
Returned(r) ==
  /\ request[r].at = "qdrant"
  /\ LET t == thread[<<r, request[r].attempt>>]
         others == [thread EXCEPT ![<<r, request[r].attempt>>] = NoThread]
     IN  /\ t.at = "ended"
         /\ \/ /\ t.error = ""
               /\ Begin(r, [request[r] EXCEPT !.at = "answered", !.by = "qdrant",
                                              !.ranked = t.ranked])
               /\ reranker' = [reranker EXCEPT ![RerankerOf[r]].failures = 0,
                                            ![RerankerOf[r]].cooled = FALSE]
               /\ thread' = others
            \/ t.error # "" /\ Failed(r, t.error, others)
  /\ UNCHANGED <<collection, staging, late, left>>

\* wait_for gives up on a thread, which runs on.
TimedOut(r) ==
  /\ request[r].at = "qdrant"
  /\ thread[<<r, request[r].attempt>>].at # "ended"
  /\ Failed(r, "transient", thread)
  /\ UNCHANGED <<collection, staging, late, left>>

\* _pinecone_rerank; whatever order it gives.
AskPinecone(r) ==
  /\ request[r].at = "pinecone"
  /\ \/ Begin(r, [request[r] EXCEPT !.at = "raised"])
     \/ Begin(r, [request[r] EXCEPT !.at = "answered", !.by = "pinecone"])
  /\ UNCHANGED <<collection, staging, late, thread, reranker, left>>

-----------------------------------------------------------------------------
(* _qdrant_once, in the thread of an attempt                                *)

OfThread(a) == RerankerOf[a[1]]
Errors == {"transient", "unavailable", "fatal"}
Goes(a, at) == thread' = [thread EXCEPT ![a].at = at]
\* What becomes of a thread nobody waits for is not kept.
Awaited(a) == request[a[1]].at = "qdrant" /\ request[a[1]].attempt = a[2]
EndsThread(a, error) ==
  thread' = [thread EXCEPT ![a] =
    IF Awaited(a) THEN [@ EXCEPT !.at = "ended", !.error = error] ELSE NoThread]
\* mutant: only an order that was found is followed by the deletion
ToCleanup_Found(a, error) == EndsThread(a, error)

\* The finally clause, once points may have been written.
ToCleanup(a, error) == thread' = [thread EXCEPT ![a].at = "cleanup", ![a].error = error]

\* _ensure_qdrant_collection; its lock is the object's, so two objects may both create.
Ensured(a) == /\ Goes(a, "sweep") /\ collection' = "indexed"
              /\ reranker' = [reranker EXCEPT ![OfThread(a)].ready = TRUE]

LookUp(a) ==
  /\ thread[a].at = "ensure"
  /\ \A b \in StagingAttempts : OfThread(b) = OfThread(a) => thread[b].at # "create"
  /\ \/ /\ reranker[OfThread(a)].ready \/ collection # "absent"
        /\ Ensured(a)
     \/ /\ ~reranker[OfThread(a)].ready
        /\ \/ collection = "absent" /\ Goes(a, "create")
           \/ \E error \in Errors : EndsThread(a, error)
        /\ UNCHANGED <<collection, reranker>>
  /\ UNCHANGED <<staging, late, request, left>>

\* Another object may have created the collection meanwhile; and the indexes may fail.
CreateStaging(a) ==
  /\ thread[a].at = "create"
  /\ \/ collection = "absent" /\ Ensured(a)
     \/ /\ \/ collection = "absent" /\ collection' \in {"absent", "bare"}
              /\ \E error \in Errors : EndsThread(a, error)
           \/ collection # "absent" /\ UNCHANGED collection /\ EndsThread(a, "fatal")
        /\ UNCHANGED reranker
  /\ UNCHANGED <<staging, late, request, left>>

\* _maybe_sweep_stale: no more than once an interval, the check of the limit too.
Sweep(a) ==
  /\ thread[a].at = "sweep" /\ reranker[OfThread(a)].due
  /\ \/ /\ staging' = staging \ Aged(staging)
        /\ reranker' = [reranker EXCEPT ![OfThread(a)].due = FALSE]
        /\ IF Cardinality(staging') + Size(a) > MaxStaged
           THEN EndsThread(a, "transient") ELSE Goes(a, "upsert")
     \/ /\ staging' \in {staging, staging \ Aged(staging)}
        /\ \E error \in Errors : EndsThread(a, error)
        /\ UNCHANGED reranker
  /\ UNCHANGED <<collection, late, request, left>>

StagePoints(a) ==
  /\ \/ thread[a].at = "upsert"
     \/ thread[a].at = "sweep" /\ ~reranker[OfThread(a)].due
  /\ \/ /\ staging' = staging \union NewPoints(a) /\ Goes(a, "query")
        /\ UNCHANGED <<late, left>>
     \/ /\ \E error \in Errors : ToCleanup(a, error)
        /\ \/ staging' \in {staging, staging \union NewPoints(a)} /\ UNCHANGED <<late, left>>
           \/ /\ Cardinality(left) < MaxLosses
              /\ late' = late \union {a} /\ left' = left \union {a}
              /\ UNCHANGED staging
  /\ UNCHANGED <<collection, request, reranker>>

\* The points of this request, the best of them as far as the limit.  No valid point is
\* an error with a status that is transient.
Query(a) ==
  /\ thread[a].at = "query"
  /\ \/ \E ranked \in SUBSET {<<p.of[1], p.index>> : p \in RequestFilter(a)} :
          /\ Cardinality(ranked) = SetExt!Min({Cardinality(RequestFilter(a)), Size(a), RerankLimit})
          /\ thread' = [thread EXCEPT ![a].at = "cleanup", ![a].ranked = ranked,
                          ![a].error = IF ranked = {} THEN "transient" ELSE ""]
     \/ \E error \in Errors : ToCleanup(a, error)
  /\ UNCHANGED <<collection, staging, late, request, reranker, left>>

\* A failure to delete is only logged.
Cleanup(a) ==
  /\ thread[a].at = "cleanup"
  /\ EndsThread(a, thread[a].error)
  /\ \/ staging' = staging \ PointsOf(a) /\ UNCHANGED left
     \/ /\ Cardinality(left) < MaxLosses
        /\ left' = left \union {a} /\ UNCHANGED staging
  /\ UNCHANGED <<collection, late, request, reranker>>

-----------------------------------------------------------------------------
(* Qdrant, time and restarts                                                *)

ApplyLate(a) ==
  /\ a \in late /\ late' = late \ {a}
  /\ staging' = staging \union NewPoints(a)
  /\ UNCHANGED <<collection, thread, request, reranker, left>>

\* QDRANT_RERANK_STALE_SECONDS is longer than the calls of a thread can take together.
Age(a) ==
  /\ thread[a].at \in {"none", "ended"} /\ \E p \in PointsOf(a) : ~p.old
  /\ staging' = (staging \ PointsOf(a)) \union {[p EXCEPT !.old = TRUE] : p \in PointsOf(a)}
  /\ UNCHANGED <<collection, late, thread, request, reranker, left>>

\* The interval of the sweeps and the cooldown of the circuit pass.
Elapse(k) ==
  /\ \/ ~reranker[k].due /\ reranker' = [reranker EXCEPT ![k].due = TRUE]
     \/ Circuit(k) /\ ~reranker[k].cooled /\ reranker' = [reranker EXCEPT ![k].cooled = TRUE]
  /\ UNCHANGED <<collection, staging, late, thread, request, left>>

Restart(k) ==
  LET running == {a \in StagingAttempts : OfThread(a) = k /\ thread[a].at \notin {"none", "ended"}}
  IN  /\ running # {} /\ Cardinality(left \union running) <= MaxLosses
      /\ thread' = [a \in StagingAttempts |-> IF OfThread(a) = k THEN NoThread ELSE thread[a]]
      /\ request' = [r \in Rerankings |->
           IF RerankerOf[r] = k /\ request[r].at \in {"qdrant", "pinecone"}
           THEN [request[r] EXCEPT !.at = "raised"] ELSE request[r]]
      /\ reranker' = [reranker EXCEPT ![k] = NewReranker]
      /\ left' = left \union running
      /\ UNCHANGED <<collection, staging, late>>

RerankNext ==
  \/ \E k \in Rerankers : Elapse(k) \/ Restart(k)
  \/ \E r \in Rerankings : Rerank(r) \/ Returned(r) \/ TimedOut(r) \/ AskPinecone(r)
  \/ \E a \in StagingAttempts : \/ LookUp(a) \/ CreateStaging(a) \/ Sweep(a)
                         \/ StagePoints(a) \/ Query(a) \/ Cleanup(a) \/ ApplyLate(a)
                         \/ Age(a)
RerankSpec == RerankInit /\ [][RerankNext]_rerankVars

-----------------------------------------------------------------------------
(* Requests that share the staging collection do not touch each other's    *)
(* points.  An order from Qdrant is of the documents of its own request,   *)
(* of as many as the limit lets through, whatever timed-out attempts,      *)
(* sweeps of other rerankers and late writes do meanwhile.  And the points *)
(* in the collection are those of a thread that will still delete them, or *)
(* of an attempt whose write or deletion was lost, which a sweep removes.  *)
StagingApart ==
  /\ \A r \in Rerankings : request[r].by = "qdrant" =>
       /\ request[r].ranked \subseteq {r} \X Indices(request[r].size)
       /\ Cardinality(request[r].ranked) = SetExt!Min({request[r].size, RerankLimit})
  /\ \A p \in staging :
       p.of \in left \/ thread[p.of].at \in {"query", "cleanup"}
  /\ staging # {} => collection = "indexed"
===============================================================================
