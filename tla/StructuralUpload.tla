--------------------------- MODULE StructuralUpload ---------------------------
(***************************************************************************)
(* run_structural_index_pilot.py upload and finalize, with the adaptive    *)
(* upload loop of app/ingestion/structural_upload.py, the acknowledgement  *)
(* ledger of structural_checkpoint.py and the HNSW activation of           *)
(* structural_pilot.py.                                                    *)
(*                                                                         *)
(* Records are numbered in the order _iter_plan_records yields them; their *)
(* contents are fixed by the plan's manifest, so a batch identity is the   *)
(* set of its records.  Several upload commands may run on one checkpoint: *)
(* nothing in the code excludes it.  Every SQLite transaction, every       *)
(* Qdrant call and every file operation is a step of its own.              *)
(***************************************************************************)
EXTENDS Integers, FiniteSets

CONSTANTS Procs,          \* concurrent upload commands
          NumRecords,     \* manifest.record_count
          Probe,          \* records the model probe has upserted
          MinBatch, MaxBatch,         \* contract.upload_batch_min, _max
          MaxWorkers, Shards,         \* contract.upload_max_workers, shard_count
          MaxTries,       \* contract.max_retries
          GrowAfter,      \* healthy waves before the controller grows
          MaxPolls,       \* finalize --max-polls
          Outputs,        \* paths an operator may name for upload --output
          FinalOutputs,   \* and for finalize --output
          NoPath,
          MaxFaults       \* bound: failed calls and crashes

Records == 1..NumRecords
Slots == 0..(MaxWorkers - 1)
MinOf(a, b) == IF a <= b THEN a ELSE b
MaxOf(a, b) == IF a >= b THEN a ELSE b
Width == MinOf(Shards, MaxWorkers)

ASSUME ManifestAssumption == NumRecords \in Nat /\ Probe \subseteq Records /\ Probe # {}
ASSUME BatchAssumption == MinBatch \in Nat \ {0} /\ MaxBatch \in Nat /\ MinBatch <= MaxBatch
ASSUME WorkerAssumption == MaxWorkers \in Nat \ {0} /\ Shards \in Nat \ {0}
ASSUME LimitAssumption == /\ MaxTries \in Nat \ {0} /\ GrowAfter \in Nat \ {0}
                          /\ MaxPolls \in Nat \ {0} /\ MaxFaults \in Nat
ASSUME PathAssumption == NoPath \notin Outputs \union FinalOutputs

VARIABLES
  \* remote: the Qdrant collection
  durable,      \* points Qdrant has accepted
  visible,      \* points counted by get_collection
  hnsw,         \* hnsw_config.m
  \* local files
  ledger,       \* committed_batches, each the set of its records
  reports,      \* upload report at each output path
  receipts,     \* finalize receipt at each output path
  \* running commands
  job,          \* of each upload command: its locals
  final,        \* the finalize command: its locals
  \* bound
  faults

remoteVars == <<durable, visible, hnsw>>
vars == <<remoteVars, ledger, reports, receipts, job, final, faults>>

Committed == UNION ledger

EmptySlot == [recs |-> {}, st |-> "none", tries |-> 1]
Sending(S) == [recs |-> S, st |-> "sending", tries |-> 1]

\* AdaptiveUploadController.from_contract, and locals not yet assigned.
IdleJob == [pc |-> "idle", path |-> NoPath, pending |-> {},
            wave |-> [k \in Slots |-> EmptySlot],
            bs |-> MinBatch, wk |-> Width, healthy |-> 0, total |-> 0]
IdleFinal == [pc |-> "idle", path |-> NoPath, polls |-> 0]

Init ==
  /\ durable = Probe
  /\ visible = Probe
  /\ hnsw = 0
  /\ ledger = {}
  /\ reports = [o \in Outputs |-> "none"]
  /\ receipts = [o \in FinalOutputs |-> "none"]
  /\ job = [p \in Procs |-> IdleJob]
  /\ final = IdleFinal
  /\ faults = 0

MayFail == faults < MaxFaults /\ faults' = faults + 1
Leave(p) == job' = [job EXCEPT ![p] = IdleJob]

-----------------------------------------------------------------------------
(* The checkpoint.                                                         *)

\* mutant: the rows of other batches are not compared, INSERT OR IGNORE
CommitConflict_Ignored(b) == FALSE
\* commit_receipt: a record already committed under another batch identity.
CommitConflict(b) == \E c \in ledger : c # b /\ c \intersect b # {}

-----------------------------------------------------------------------------
(* The adaptive controller and the wave it cuts.                           *)

Rank(S, r) == Cardinality({q \in S : q < r})
Slice(S, n, k) == {r \in S : Rank(S, r) \div n = k}

\* _next_wave: the next bs * wk pending records, in wk batches of bs.
NextWave(j) ==
  [k \in Slots |-> IF k < j.wk /\ Slice(j.pending, j.bs, k) # {}
                     THEN Sending(Slice(j.pending, j.bs, k)) ELSE EmptySlot]

WaveRecords(w) == UNION {w[k].recs : k \in Slots}
Retries(w) == Cardinality({t \in Slots \X (2..MaxTries) : t[2] <= w[t[1]].tries})

Shrink(j) == [j EXCEPT !.bs = MaxOf(MinBatch, @ \div 2),
                       !.wk = MaxOf(1, @ \div 2),
                       !.healthy = 0]

Grow(j) == [j EXCEPT !.bs = MinOf(MaxBatch, @ * 2),
                     !.wk = MinOf(Width, @ + 1),
                     !.healthy = 0]

Observe(j) == IF Retries(j.wave) >= 2 THEN Shrink(j)
              ELSE IF j.healthy + 1 < GrowAfter THEN [j EXCEPT !.healthy = @ + 1]
              ELSE Grow(j)

-----------------------------------------------------------------------------
(* The upload command.                                                     *)

\* _run_upload up to import_probe_receipt: the probe batch enters the ledger.
Start(p, o) ==
  /\ job[p].pc = "idle"
  /\ reports[o] = "none"
  /\ IF CommitConflict(Probe)
       THEN UNCHANGED <<ledger, job>>
       ELSE /\ ledger' = ledger \union {Probe}
            /\ job' = [job EXCEPT ![p].pc = "preflight", ![p].path = o]
  /\ UNCHANGED <<remoteVars, reports, receipts, final, faults>>

\* mutant: a resumed run does not read the acknowledgements back
Pending_All == Records
\* iter_pending: the identities are read once, before the first record.
Pending == Records \ Committed

\* The preflight upsert of one probe record, which the collection holds
\* already, over the transport select_upload_transport settles on.
Preflight(p) ==
  /\ job[p].pc = "preflight"
  /\ job' = [job EXCEPT ![p].pc = "loop", ![p].pending = Pending]
  /\ UNCHANGED <<remoteVars, ledger, reports, receipts, final, faults>>

PreflightFails(p) ==
  /\ job[p].pc = "preflight"
  /\ MayFail
  /\ Leave(p)
  /\ UNCHANGED <<remoteVars, ledger, reports, receipts, final>>

BeginWave(p) ==
  /\ job[p].pc = "loop"
  /\ job[p].pending # {}
  /\ LET w == NextWave(job[p]) IN
       job' = [job EXCEPT ![p].pc = "wave", ![p].wave = w,
                          ![p].pending = @ \ WaveRecords(w)]
  /\ UNCHANGED <<remoteVars, ledger, reports, receipts, final, faults>>

InFlight(p, k) == job[p].pc = "wave" /\ job[p].wave[k].st = "sending"
Settle(p, k, s) == job' = [job EXCEPT ![p].wave[k].st = s]

\* upload_one_batch: the status is "completed", or "acknowledged" and the
\* points are applied later.
UpsertOk(p, k) ==
  /\ InFlight(p, k)
  /\ durable' = durable \union job[p].wave[k].recs
  /\ visible' \in {visible, visible \union job[p].wave[k].recs}
  /\ Settle(p, k, "acked")
  /\ UNCHANGED <<hnsw, ledger, reports, receipts, final, faults>>

\* A call that fails may have reached Qdrant.
MayLand(S) == durable' \in {durable, durable \union S}

\* retry_transient: a transient error is retried until the last attempt.
UpsertTransient(p, k) ==
  /\ InFlight(p, k)
  /\ MayFail
  /\ MayLand(job[p].wave[k].recs)
  /\ IF job[p].wave[k].tries < MaxTries
       THEN job' = [job EXCEPT ![p].wave[k].tries = @ + 1]
       ELSE Settle(p, k, "failed")
  /\ UNCHANGED <<visible, hnsw, ledger, reports, receipts, final>>

UpsertFails(p, k) ==
  /\ InFlight(p, k)
  /\ MayFail
  /\ MayLand(job[p].wave[k].recs)
  /\ Settle(p, k, "failed")
  /\ UNCHANGED <<visible, hnsw, ledger, reports, receipts, final>>

WaveSettled(p) == job[p].pc = "wave" /\ \A k \in Slots : job[p].wave[k].st # "sending"

\* mutant: the receipts of failed batches are committed with the others
Receipts_All(p) == {k \in Slots : job[p].wave[k].st \in {"acked", "failed"}}
Receipts(p) == {k \in Slots : job[p].wave[k].st = "acked"}

\* commit_receipt of one receipt of the wave, a conflict ending the command.
\* The receipts come in the order of record ids, which is not the order of
\* the records: any order is allowed.
CommitReceipt(p, k) ==
  /\ WaveSettled(p)
  /\ k \in Receipts(p)
  /\ LET b == job[p].wave[k].recs IN
       IF CommitConflict(b)
         THEN Leave(p) /\ UNCHANGED ledger
         ELSE ledger' = ledger \union {b} /\ Settle(p, k, "committed")
  /\ UNCHANGED <<remoteVars, reports, receipts, final, faults>>

\* mutant: the error of a batch is raised before the receipts are committed
WaveDone_RaisesFirst(p) ==
  /\ WaveSettled(p)
  /\ \E k \in Slots : job[p].wave[k].st = "failed"
  /\ Leave(p)
  /\ UNCHANGED <<remoteVars, ledger, reports, receipts, final, faults>>

WaveFailed(p) == \E k \in Slots : job[p].wave[k].st = "failed"

\* After the receipts: raise wave_error, or observe the wave and go on.
WaveDone(p) ==
  /\ WaveSettled(p)
  /\ Receipts(p) = {}
  /\ IF WaveFailed(p) THEN Leave(p)
     ELSE job' = [job EXCEPT ![p] = [Observe(job[p]) EXCEPT
                    !.pc = "loop", !.wave = [k \in Slots |-> EmptySlot]]]
  /\ UNCHANGED <<remoteVars, ledger, reports, receipts, final, faults>>

\* committed_count, and the refusal of a ledger larger than the manifest.
CountCommitted(p) ==
  /\ job[p].pc = "loop"
  /\ job[p].pending = {}
  /\ IF Cardinality(Committed) > NumRecords
       THEN Leave(p)
       ELSE job' = [job EXCEPT ![p].pc = "counted", ![p].total = Cardinality(Committed)]
  /\ UNCHANGED <<remoteVars, ledger, reports, receipts, final, faults>>

\* write_immutable_json, open("xb"): a file of another run has other bytes.
OpenReport(p) ==
  /\ job[p].pc = "counted"
  /\ IF reports[job[p].path] = "none"
       THEN /\ reports' = [reports EXCEPT ![job[p].path] = "torn"]
            /\ job' = [job EXCEPT ![p].pc = "writing"]
       ELSE Leave(p) /\ UNCHANGED reports
  /\ UNCHANGED <<remoteVars, ledger, receipts, final, faults>>

Status(t) == IF t = NumRecords THEN "UPLOAD_COMPLETE" ELSE "UPLOAD_INCOMPLETE"

WriteReport(p) ==
  /\ job[p].pc = "writing"
  /\ reports' = [reports EXCEPT ![job[p].path] = Status(job[p].total)]
  /\ Leave(p)
  /\ UNCHANGED <<remoteVars, ledger, receipts, final, faults>>

\* A failed write unlinks the file it created.
WriteFails(p) ==
  /\ job[p].pc = "writing"
  /\ MayFail
  /\ reports' = [reports EXCEPT ![job[p].path] = "none"]
  /\ Leave(p)
  /\ UNCHANGED <<remoteVars, ledger, receipts, final>>

\* The command is killed; an upsert in flight may still land.
Die(p) ==
  /\ job[p].pc # "idle"
  /\ MayFail
  /\ \E K \in SUBSET {k \in Slots : InFlight(p, k)} :
       durable' = durable \union UNION {job[p].wave[k].recs : k \in K}
  /\ Leave(p)
  /\ UNCHANGED <<visible, hnsw, ledger, reports, receipts, final>>

\* Qdrant applies what it has accepted.
Apply ==
  /\ visible # durable
  /\ visible' = durable
  /\ UNCHANGED <<durable, hnsw, ledger, reports, receipts, job, final, faults>>

-----------------------------------------------------------------------------
(* The finalize command.                                                   *)

\* mutant: the pre-finalize readback does not pass expected_points_count
CountMatches_Any == TRUE
CountMatches == Cardinality(visible) = NumRecords

Conclude(o, s) == /\ receipts' = [receipts EXCEPT ![o] = s]
                  /\ final' = IdleFinal

\* _validate_pre_finalize_chain: a complete report is required.
StartFinalize(o) ==
  /\ final.pc = "idle"
  /\ receipts[o] = "none"
  /\ \E r \in Outputs : reports[r] = "UPLOAD_COMPLETE"
  /\ final' = [pc |-> "check", path |-> o, polls |-> MaxPolls]
  /\ UNCHANGED <<remoteVars, ledger, reports, receipts, job, faults>>

\* The first get_collection; HNSW is already on when a finalize was cut.
Readback ==
  /\ final.pc = "check"
  /\ IF hnsw = 0 /\ ~CountMatches
       THEN Conclude(final.path, "BLOCKED_TECHNICAL")
       ELSE /\ final' = [final EXCEPT !.pc = IF hnsw = 0 THEN "activate" ELSE "poll"]
            /\ UNCHANGED receipts
  /\ UNCHANGED <<remoteVars, ledger, reports, job, faults>>

\* update_collection(hnsw_config m=16)
Activate ==
  /\ final.pc = "activate"
  /\ hnsw' = 16
  /\ final' = [final EXCEPT !.pc = "poll"]
  /\ UNCHANGED <<durable, visible, ledger, reports, receipts, job, faults>>

\* A Qdrant call raises, or the command is killed and leaves no receipt.
FinalizeFails ==
  /\ final.pc # "idle"
  /\ MayFail
  /\ hnsw' \in IF final.pc = "activate" THEN {hnsw, 16} ELSE {hnsw}
  /\ \/ Conclude(final.path, "BLOCKED_TECHNICAL")
     \/ final' = IdleFinal /\ UNCHANGED receipts
  /\ UNCHANGED <<durable, visible, ledger, reports, job>>

\* One turn of the health poll: the finalized readback, green or not yet.
Poll(green) ==
  /\ final.pc = "poll"
  /\ IF hnsw = 16 /\ CountMatches /\ green
       THEN Conclude(final.path, "PASS_FINALIZE")
       ELSE IF final.polls > 1
              THEN final' = [final EXCEPT !.polls = @ - 1] /\ UNCHANGED receipts
              ELSE Conclude(final.path, "BLOCKED_TECHNICAL")
  /\ UNCHANGED <<remoteVars, ledger, reports, job, faults>>

-----------------------------------------------------------------------------
Launch(p) == \E o \in Outputs : Start(p, o)

UploadStep(p) ==
  \/ Preflight(p) \/ BeginWave(p)
  \/ \E k \in Slots : UpsertOk(p, k) \/ CommitReceipt(p, k)
  \/ WaveDone(p) \/ CountCommitted(p) \/ OpenReport(p) \/ WriteReport(p)

UploadFault(p) ==
  \/ PreflightFails(p)
  \/ \E k \in Slots : UpsertTransient(p, k) \/ UpsertFails(p, k)
  \/ WriteFails(p) \/ Die(p)

FinalizeStep == \/ \E o \in FinalOutputs : StartFinalize(o)
                \/ Readback
                \/ Activate
                \/ FinalizeFails
                \/ \E green \in BOOLEAN : Poll(green)

Next == \/ \E p \in Procs : Launch(p) \/ UploadStep(p) \/ UploadFault(p)
        \/ Apply
        \/ FinalizeStep

Spec == Init /\ [][Next]_vars

\* A running command keeps running (a Qdrant call answers or times out), and
\* the operator reruns it while a path is free.  Nothing is assumed of Apply
\* or of finalize.
FairSpec == Spec /\ \A p \in Procs : WF_vars(UploadStep(p)) /\ WF_vars(Launch(p))

-----------------------------------------------------------------------------
Job == [pc : {"idle", "preflight", "loop", "wave", "counted", "writing"},
        path : Outputs \union {NoPath},
        pending : SUBSET Records,
        wave : [Slots -> [recs : SUBSET Records,
                          st : {"none", "sending", "acked", "failed", "committed"},
                          tries : 1..MaxTries]],
        bs : MinBatch..MaxBatch, wk : 1..Width,
        healthy : 0..(GrowAfter - 1), total : 0..NumRecords]

TypeOK ==
  /\ durable \subseteq Records /\ visible \subseteq durable
  /\ hnsw \in {0, 16}
  /\ ledger \subseteq SUBSET Records
  /\ reports \in [Outputs -> {"none", "torn", "UPLOAD_COMPLETE", "UPLOAD_INCOMPLETE"}]
  /\ receipts \in [FinalOutputs -> {"none", "PASS_FINALIZE", "BLOCKED_TECHNICAL"}]
  /\ job \in [Procs -> Job]
  /\ final \in [pc : {"idle", "check", "activate", "poll"}, path : FinalOutputs \union {NoPath},
                polls : 0..MaxPolls]
  /\ faults \in 0..MaxFaults

(* However commands overlap, fail and resume with other batch sizes, no    *)
(* record is in two committed batches: usage_totals, the sum over          *)
(* committed_batches, counts the tokens of every record once.              *)
CountedOnce == \A b, c \in ledger : b # c => b \intersect c = {}

(* An upload report that was written says UPLOAD_COMPLETE, and the ledger  *)
(* holds every record of the manifest: a run that lost a batch raises      *)
(* before it reports.                                                      *)
ReportedComplete ==
  \A o \in Outputs : reports[o] \notin {"none", "torn"} =>
    reports[o] = "UPLOAD_COMPLETE" /\ Committed = Records

(* Both: the ledger is exact, whatever overlaps or is lost, and complete   *)
(* where a report says so.                                                 *)
LedgerExact == CountedOnce /\ ReportedComplete

(* An error in one batch of a wave does not lose the receipts of the       *)
(* others: a command that was not killed leaves an acknowledged batch out  *)
(* of the ledger only when another command's batches stand in the way.     *)
ReceiptsKept ==
  [][\A p \in Procs, k \in Slots :
       job[p].wave[k].st = "acked" /\ job'[p].pc = "idle" /\ faults' = faults =>
         \E i \in Slots : CommitConflict(job[p].wave[i].recs)]_vars

(* HNSW is activated only over the whole manifest: an acknowledged point   *)
(* that is not applied yet keeps finalize from switching the index on.     *)
ActivatedWhole == [][hnsw' # hnsw => visible = Records]_vars

(* The upload keeps the promise of the abstract acknowledgement ledger: a  *)
(* record a resumed run skips is one Qdrant has accepted.                  *)
Ledger == INSTANCE AckLedger
            WITH Items <- Records, points <- durable, acked <- Committed, alive <- TRUE
ImplementsLedger == Ledger!LedgerSpec

(* Once the faults stop, rerunning the command ends with a complete report *)
(* although commands that overlap make each other fail, unless kills in    *)
(* the middle of the write have left a torn file at every path: a torn     *)
(* file refuses every later run.                                           *)
EventuallyUploaded ==
  \/ <>(\E o \in Outputs : reports[o] = "UPLOAD_COMPLETE")
  \/ <>[](\A o \in Outputs : reports[o] = "torn")
==============================================================================
