---------------------------- MODULE FullIngestion ----------------------------
(***************************************************************************)
(* app/ingestion/hf_pipeline.py run_full, with the SQLite CheckpointStore  *)
(* it resumes from and the Pinecone index it fills.                        *)
(*                                                                         *)
(* Documents are numbered in the order _iter_all_document_ids yields them. *)
(* Every SQLite transaction and every remote call that changes state is a  *)
(* step of its own; the process may die between any two of them, and an    *)
(* upsert that failed or was in flight may have landed in part.  Only one  *)
(* run works on a checkpoint at a time (huggingface-ingestion-runbook.md,  *)
(* "khong chay hai full process chung checkpoint").                        *)
(***************************************************************************)
EXTENDS Integers, FiniteSets

CONSTANTS NumDocs,        \* EXPECTED_DOCUMENT_COUNT
          Sizes,          \* UPLOAD_BATCH_SIZE values an operator may configure
          Concurrency,    \* INGESTION_BATCH_CONCURRENCY
          MaxFaults       \* bound: crashes, failed upserts and index deletions

ASSUME NumDocsAssumption == NumDocs \in Nat \ {0}
ASSUME SizesAssumption == Sizes \subseteq Nat \ {0}
ASSUME ConcurrencyAssumption == Concurrency \in Nat \ {0}
ASSUME MaxFaultsAssumption == MaxFaults \in Nat

VARIABLES
  \* durable: the checkpoint tables and the final report
  completed,              \* batches.batch_id
  failures,               \* failures.document_id, stage pinecone_upload
  recordedSize,           \* last metric upload_batch_size, 0 when none
  initialized,            \* metric pinecone_initialized present
  reported,               \* the ingestion report has been written
  \* remote: the Pinecone index
  indexExists, points,
  \* volatile: the locals of the running process
  pc,
  size,                   \* settings.UPLOAD_BATCH_SIZE of this run, 0 when idle
  skip,                   \* completed as read once at the start
  fresh,                  \* ~initialized as read once at the start
  ahead,                  \* batches not yet put in a window
  outcome,                \* of each batch of the current window
  errors,                 \* errors # [] in flush_window
  \* bound
  faults

checkpointVars == <<completed, failures, recordedSize, initialized, reported>>
remoteVars == <<indexExists, points>>
runVars == <<size, skip, fresh, ahead, outcome, errors>>
vars == <<checkpointVars, remoteVars, pc, runVars, faults>>

Docs == 1..NumDocs
BatchIds == 0..(NumDocs - 1)

\* iter_numbered_batches: the i-th document falls in batch i div batch_size,
\* the ids staying what they are whatever was completed before.
BatchOf(s, d) == (d - 1) \div s
BatchDocs(s, b) == {d \in Docs : BatchOf(s, d) = b}
\* mutant: a trailing partial batch is dropped
NumberedBatches_FullOnly(s) == {b \in BatchIds : Cardinality(BatchDocs(s, b)) = s}

NumberedBatches(s) == {b \in BatchIds : BatchDocs(s, b) # {}}

CompletedDocs == UNION {BatchDocs(recordedSize, b) : b \in completed}

NoWindow == [b \in BatchIds |-> "none"]
Window == {b \in BatchIds : outcome[b] # "none"}
InFlight == {b \in BatchIds : outcome[b] = "inflight"}

\* The batch flush_window settles next: outcomes come back in window order.
Settling(b) == /\ pc = "flush"
               /\ InFlight = {}
               /\ b \in Window
               /\ \A c \in Window : b <= c

\* The process is gone: its locals are lost.
Stopped == /\ pc' = "idle"
           /\ size' = 0
           /\ skip' = {}
           /\ fresh' = FALSE
           /\ ahead' = {}
           /\ outcome' = NoWindow
           /\ errors' = FALSE

TypeOK ==
  /\ completed \subseteq BatchIds
  /\ failures \subseteq Docs
  /\ recordedSize \in Sizes \union {0}
  /\ initialized \in BOOLEAN
  /\ reported \in BOOLEAN
  /\ indexExists \in BOOLEAN
  /\ points \subseteq Docs
  /\ pc \in {"idle", "check", "reset", "create", "mark", "fill", "flush",
             "count", "audit"}
  /\ size \in Sizes \union {0}
  /\ skip \subseteq BatchIds
  /\ fresh \in BOOLEAN
  /\ ahead \subseteq BatchIds
  /\ outcome \in [BatchIds ->
                    {"none", "inflight", "uploaded", "failed", "cleared"}]
  /\ errors \in BOOLEAN
  /\ faults \in 0..MaxFaults

Init ==
  /\ completed = {} /\ failures = {} /\ recordedSize = 0
  /\ initialized = FALSE /\ reported = FALSE
  /\ indexExists \in BOOLEAN           \* an older index may be there
  /\ points \in IF indexExists THEN {{}, Docs} ELSE {{}}
  /\ pc = "idle" /\ size = 0 /\ skip = {} /\ fresh = FALSE
  /\ ahead = {} /\ outcome = NoWindow /\ errors = FALSE
  /\ faults = 0

\* mutant: a resumed run may renumber the batches with another size
Start_AnySize(s) ==
  /\ pc = "idle"
  /\ pc' = "check" /\ size' = s /\ skip' = completed /\ fresh' = ~initialized
  /\ recordedSize' = s
  /\ UNCHANGED <<completed, failures, initialized, reported, remoteVars,
                 ahead, outcome, errors, faults>>

(* run_full up to the first remote call: read the checkpoint once, refuse  *)
(* another batch size once a batch is completed, else record the size.     *)
Start(s) ==
  /\ pc = "idle"
  /\ completed # {} => recordedSize = s
  /\ pc' = "check"
  /\ size' = s
  /\ skip' = completed
  /\ fresh' = ~initialized
  /\ recordedSize' = IF completed = {} THEN s ELSE recordedSize
  /\ UNCHANGED <<completed, failures, initialized, reported, remoteVars,
                 ahead, outcome, errors, faults>>

\* mutant: a missing index is recreated under a checkpoint with batches
CheckIndex_Trusting ==
  /\ pc = "check"
  /\ pc' = "reset"
  /\ UNCHANGED <<runVars, checkpointVars, remoteVars, faults>>

(* Completed batches but no index: RuntimeError before anything remote.    *)
CheckIndex ==
  /\ pc = "check"
  /\ IF skip # {} /\ ~indexExists
     THEN Stopped
     ELSE pc' = "reset" /\ UNCHANGED runVars
  /\ UNCHANGED <<checkpointVars, remoteVars, faults>>

(* reset_or_create_index, first half: delete unless this run resumes.      *)
ResetIndex ==
  /\ pc = "reset"
  /\ IF indexExists /\ fresh
     THEN indexExists' = FALSE /\ points' = {}
     ELSE UNCHANGED remoteVars
  /\ pc' = IF indexExists /\ ~fresh THEN "mark" ELSE "create"
  /\ UNCHANGED <<checkpointVars, runVars, faults>>

CreateIndex ==
  /\ pc = "create"
  /\ indexExists' = TRUE
  /\ points' = {}
  /\ pc' = "mark"
  /\ UNCHANGED <<checkpointVars, runVars, faults>>

MarkInitialized ==
  /\ pc = "mark"
  /\ initialized' = TRUE
  /\ ahead' = NumberedBatches(size) \ skip
  /\ pc' = "fill"
  /\ UNCHANGED <<completed, failures, recordedSize, reported, remoteVars,
                 size, skip, fresh, outcome, errors, faults>>

(* The next INGESTION_BATCH_CONCURRENCY batches, in order, start at once.  *)
FillWindow ==
  /\ pc = "fill"
  /\ ahead # {}
  /\ \E W \in SUBSET ahead :
       /\ \/ Cardinality(W) = Concurrency
          \/ Cardinality(W) < Concurrency /\ W = ahead
       /\ \A w \in W, a \in ahead \ W : w < a
       /\ ahead' = ahead \ W
       /\ outcome' = [b \in BatchIds |-> IF b \in W THEN "inflight" ELSE "none"]
  /\ pc' = "flush"
  /\ UNCHANGED <<checkpointVars, remoteVars, size, skip, fresh, errors, faults>>

(* _prepare_batch and upload_record_batch succeed for one batch.           *)
UploadOk(b) ==
  /\ pc = "flush"
  /\ outcome[b] = "inflight"
  /\ points' = points \union BatchDocs(size, b)
  /\ outcome' = [outcome EXCEPT ![b] = "uploaded"]
  /\ UNCHANGED <<checkpointVars, indexExists, pc, size, skip, fresh, ahead,
                 errors, faults>>

(* The upsert gives up after its retries; some of it may have landed.      *)
UploadFail(b) ==
  /\ pc = "flush"
  /\ outcome[b] = "inflight"
  /\ faults < MaxFaults
  /\ \E landed \in SUBSET BatchDocs(size, b) : points' = points \union landed
  /\ outcome' = [outcome EXCEPT ![b] = "failed"]
  /\ faults' = faults + 1
  /\ UNCHANGED <<checkpointVars, indexExists, pc, size, skip, fresh, ahead,
                 errors>>

(* One record_failure transaction per document of a failed batch.          *)
RecordFailure(b) ==
  /\ Settling(b)
  /\ outcome[b] = "failed"
  /\ \E d \in BatchDocs(size, b) \ failures :
       /\ \A e \in BatchDocs(size, b) \ failures : d <= e
       /\ failures' = failures \union {d}
  /\ UNCHANGED <<completed, recordedSize, initialized, reported, remoteVars,
                 pc, runVars, faults>>

\* mutant: a failed batch is logged, neither audited nor raised
FailureRecorded_Swallowed(b) ==
  /\ Settling(b)
  /\ outcome[b] = "failed"
  /\ outcome' = [outcome EXCEPT ![b] = "none"]
  /\ UNCHANGED <<checkpointVars, remoteVars, pc, size, skip, fresh, ahead,
                 errors, faults>>

FailureRecorded(b) ==
  /\ Settling(b)
  /\ outcome[b] = "failed"
  /\ BatchDocs(size, b) \subseteq failures
  /\ outcome' = [outcome EXCEPT ![b] = "none"]
  /\ errors' = TRUE
  /\ UNCHANGED <<checkpointVars, remoteVars, pc, size, skip, fresh, ahead, faults>>

\* mutant: a batch that succeeds keeps its earlier audit
ClearFailures_Kept(b) ==
  /\ Settling(b)
  /\ outcome[b] = "uploaded"
  /\ outcome' = [outcome EXCEPT ![b] = "cleared"]
  /\ UNCHANGED <<checkpointVars, remoteVars, pc, size, skip, fresh, ahead,
                 errors, faults>>

ClearFailures(b) ==
  /\ Settling(b)
  /\ outcome[b] = "uploaded"
  /\ failures' = failures \ BatchDocs(size, b)
  /\ outcome' = [outcome EXCEPT ![b] = "cleared"]
  /\ UNCHANGED <<completed, recordedSize, initialized, reported, remoteVars,
                 pc, size, skip, fresh, ahead, errors, faults>>

MarkCompleted(b) ==
  /\ Settling(b)
  /\ outcome[b] = "cleared"
  /\ completed' = completed \union {b}
  /\ outcome' = [outcome EXCEPT ![b] = "none"]
  /\ UNCHANGED <<failures, recordedSize, initialized, reported, remoteVars,
                 pc, size, skip, fresh, ahead, errors, faults>>

(* raise errors[0] ends the run; otherwise on to the next window.          *)
FlushDone ==
  /\ pc = "flush"
  /\ Window = {}
  /\ IF errors THEN Stopped ELSE pc' = "fill" /\ UNCHANGED runVars
  /\ UNCHANGED <<checkpointVars, remoteVars, faults>>

AllFlushed ==
  /\ pc = "fill"
  /\ ahead = {}
  /\ pc' = "count"
  /\ UNCHANGED <<checkpointVars, remoteVars, runVars, faults>>

(* wait_for_vector_count: the expected count, or TimeoutError.             *)
AwaitCount ==
  /\ pc = "count"
  /\ IF Cardinality(points) = NumDocs
     THEN pc' = "audit" /\ UNCHANGED runVars
     ELSE Stopped
  /\ UNCHANGED <<checkpointVars, remoteVars, faults>>

(* Any audited failure refuses the report; otherwise it is written.        *)
WriteReport ==
  /\ pc = "audit"
  /\ reported' = (reported \/ failures = {})
  /\ Stopped
  /\ UNCHANGED <<completed, failures, recordedSize, initialized, remoteVars,
                 faults>>

(* A kill, or an exception that leaves run_full (a failed probe, create,   *)
(* embedding or SQLite call); what was in flight may still land.           *)
Die ==
  /\ pc # "idle"
  /\ faults < MaxFaults
  /\ \E landed \in SUBSET UNION {BatchDocs(size, b) : b \in InFlight} :
       points' = points \union landed
  /\ faults' = faults + 1
  /\ Stopped
  /\ UNCHANGED <<checkpointVars, indexExists>>

(* The index disappears between two runs.                                  *)
IndexVanishes ==
  /\ pc = "idle"
  /\ indexExists
  /\ faults < MaxFaults
  /\ indexExists' = FALSE
  /\ points' = {}
  /\ faults' = faults + 1
  /\ UNCHANGED <<checkpointVars, pc, runVars>>

BatchStep == \E b \in BatchIds :
  \/ UploadOk(b)
  \/ RecordFailure(b)
  \/ FailureRecorded(b)
  \/ ClearFailures(b)
  \/ MarkCompleted(b)

RunStep == \/ CheckIndex \/ ResetIndex \/ CreateIndex \/ MarkInitialized
           \/ FillWindow \/ BatchStep \/ FlushDone \/ AllFlushed
           \/ AwaitCount \/ WriteReport

Fault == \/ \E b \in BatchIds : UploadFail(b)
         \/ Die
         \/ IndexVanishes

Next == (\E s \in Sizes : Start(s)) \/ RunStep \/ Fault

Spec == Init /\ [][Next]_vars

\* A running process keeps running, and the operator reruns the command
\* after an interruption, as the runbook's Resume section prescribes.
FairSpec == Spec /\ WF_vars(RunStep) /\ WF_vars(\E s \in Sizes : Start(s))

-----------------------------------------------------------------------------
(* A batch the checkpoint lets a resumed run skip is in the index, unless  *)
(* the index is gone: upload happens before mark_completed, a resumed run  *)
(* keeps the numbering, and no reset follows a completed batch.            *)
CompletedDurable == indexExists => CompletedDocs \subseteq points

(* No document is both audited as failed and in a completed batch, however *)
(* the windows failed, were retried, or were cut by a crash.               *)
AuditExact == failures \intersect CompletedDocs = {}

(* The report is written only when every document is indexed, completed    *)
(* and clear of audited failures, whatever faults and resumes preceded.    *)
ReportSound ==
  [][~reported /\ reported' =>
       points = Docs /\ CompletedDocs = Docs /\ failures = {}]_vars

(* The pipeline keeps the promise of the abstract acknowledgement ledger:  *)
(* Pinecone is the target, CompletedDocs the ledger.                       *)
Ledger == INSTANCE AckLedger
            WITH Items <- Docs, acked <- CompletedDocs, alive <- indexExists
ImplementsLedger == Ledger!LedgerSpec

(* Once the faults stop, resuming ends with a report, or with the refusal  *)
(* of a checkpoint whose index vanished under completed batches.           *)
EventuallyReported == <>(reported \/ (completed # {} /\ ~indexExists))
=============================================================================
