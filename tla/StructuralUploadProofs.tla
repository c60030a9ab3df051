------------------------ MODULE StructuralUploadProofs ------------------------
(***************************************************************************)
(* Proofs about StructuralUpload, for every manifest, probe, contract,     *)
(* number of upload commands and number of faults.                         *)
(*                                                                         *)
(* The inductive invariant adds three facts to the properties: what a      *)
(* batch state says of the ledger and of Qdrant (LedgerSound), that a      *)
(* running command still holds every record it has not committed           *)
(* (NothingDropped), and that finalize activates only after it has seen    *)
(* every point (Activating).                                               *)
(***************************************************************************)
EXTENDS StructuralUpload, FiniteSetTheorems, TLAPS

LedgerSound ==
  /\ Probe \subseteq durable
  /\ Committed \subseteq durable
  /\ \A p \in Procs, k \in Slots :
       job[p].wave[k].st = "acked" => job[p].wave[k].recs \subseteq durable

HoldsAll(p) ==
  /\ job[p].pc \in {"loop", "wave"} =>
       Records \subseteq Committed \union job[p].pending \union WaveRecords(job[p].wave)
  /\ job[p].pc # "wave" => \A k \in Slots : job[p].wave[k].st = "none"
  /\ \A k \in Slots :
       /\ job[p].wave[k].st = "none" => job[p].wave[k].recs = {}
       /\ job[p].wave[k].st = "committed" => job[p].wave[k].recs \subseteq Committed
  /\ job[p].pc \in {"counted", "writing"} =>
       job[p].total = NumRecords /\ Committed = Records

NothingDropped == \A p \in Procs : HoldsAll(p)

Activating == final.pc = "activate" => visible = Records

UploadInv == TypeOK /\ CountedOnce /\ LedgerSound /\ NothingDropped
             /\ ReportedComplete /\ Activating
-----------------------------------------------------------------------------
(* Facts about the locals of a command.                                    *)

SlotStates == {"none", "sending", "acked", "failed", "committed"}
Slot == [recs : SUBSET Records, st : SlotStates, tries : 1..MaxTries]

LEMMA WidthFacts == Width \in 1..MaxWorkers
<1>1. MaxWorkers \in Nat \ {0} /\ Shards \in Nat \ {0}
  BY WorkerAssumption
<1>2. CASE Shards <= MaxWorkers
  BY <1>1, <1>2 DEF Width, MinOf
<1>3. CASE ~(Shards <= MaxWorkers)
  BY <1>1, <1>3 DEF Width, MinOf
<1> QED
  BY <1>2, <1>3

LEMMA IdleJobType == IdleJob \in Job
<1>1. EmptySlot \in Slot
  BY LimitAssumption DEF EmptySlot, Slot, SlotStates
<1>2. [k \in Slots |-> EmptySlot] \in [Slots -> Slot]
  BY <1>1
<1>3. MinBatch \in MinBatch..MaxBatch
  BY BatchAssumption
<1>4. Width \in 1..Width
  BY WidthFacts, WorkerAssumption
<1>5. 0 \in 0..(GrowAfter - 1) /\ 0 \in 0..NumRecords
  BY LimitAssumption, ManifestAssumption
<1> QED
  BY <1>2, <1>3, <1>4, <1>5 DEF IdleJob, Job, Slot, SlotStates

\* A settled slot, and nothing else, has changed.
LEMMA SettleFacts ==
  ASSUME NEW j \in Job, NEW k \in Slots, NEW s \in SlotStates
  PROVE  LET n == [j EXCEPT !.wave[k].st = s] IN
           /\ n \in Job
           /\ n.pc = j.pc /\ n.path = j.path /\ n.pending = j.pending
           /\ n.wave[k].st = s
           /\ \A i \in Slots : n.wave[i].recs = j.wave[i].recs
           /\ \A i \in Slots : i # k => n.wave[i] = j.wave[i]
<1> DEFINE x == [j.wave[k] EXCEPT !.st = s]
           w == [j.wave EXCEPT ![k] = x]
           n == [j EXCEPT !.wave = w]
<1>1. j.wave \in [Slots -> Slot]
  BY DEF Job, Slot, SlotStates
<1>2. x \in Slot /\ x.st = s /\ x.recs = j.wave[k].recs
  BY <1>1 DEF Slot
<1>3. w \in [Slots -> Slot] /\ w[k] = x /\ \A i \in Slots : i # k => w[i] = j.wave[i]
  BY <1>1, <1>2
<1> HIDE DEF x, w
<1>4. n \in Job /\ n.wave = w /\ n.pc = j.pc /\ n.path = j.path /\ n.pending = j.pending
  BY <1>3 DEF Job, Slot, SlotStates
<1>5. [j EXCEPT !.wave[k].st = s] = n
  BY DEF w, x
<1> QED
  BY <1>2, <1>3, <1>4, <1>5

\* A retry counts one more attempt of its slot, and changes nothing else.
LEMMA RetryFacts ==
  ASSUME NEW j \in Job, NEW k \in Slots, j.wave[k].tries < MaxTries
  PROVE  LET n == [j EXCEPT !.wave[k].tries = @ + 1] IN
           /\ n \in Job
           /\ n.pc = j.pc /\ n.path = j.path /\ n.pending = j.pending
           /\ \A i \in Slots : n.wave[i].recs = j.wave[i].recs /\ n.wave[i].st = j.wave[i].st
<1> DEFINE x == [j.wave[k] EXCEPT !.tries = @ + 1]
           w == [j.wave EXCEPT ![k] = x]
           n == [j EXCEPT !.wave = w]
<1>1. j.wave \in [Slots -> Slot]
  BY DEF Job, Slot, SlotStates
<1>2. x \in Slot /\ x.st = j.wave[k].st /\ x.recs = j.wave[k].recs
  BY <1>1, LimitAssumption DEF Slot
<1>3. w \in [Slots -> Slot] /\ w[k] = x /\ \A i \in Slots : i # k => w[i] = j.wave[i]
  BY <1>1, <1>2
<1> HIDE DEF x, w
<1>4. n \in Job /\ n.wave = w /\ n.pc = j.pc /\ n.path = j.path /\ n.pending = j.pending
  BY <1>3 DEF Job, Slot, SlotStates
<1>5. [j EXCEPT !.wave[k].tries = @ + 1] = n
  BY DEF w, x
<1> QED
  BY <1>2, <1>3, <1>4, <1>5

\* The next wave takes pending records only, and leaves unused slots empty.
LEMMA NextWaveFacts ==
  ASSUME NEW j \in Job
  PROVE  /\ NextWave(j) \in [Slots -> Slot]
         /\ \A k \in Slots :
              /\ NextWave(j)[k].st \in {"none", "sending"}
              /\ NextWave(j)[k].st = "none" => NextWave(j)[k].recs = {}
         /\ WaveRecords(NextWave(j)) \subseteq j.pending
<1>1. ASSUME NEW k \in Slots
      PROVE  /\ NextWave(j)[k] \in Slot /\ NextWave(j)[k].recs \subseteq j.pending
             /\ NextWave(j)[k].st \in {"none", "sending"}
             /\ NextWave(j)[k].st = "none" => NextWave(j)[k].recs = {}
  <2> DEFINE S == Slice(j.pending, j.bs, k)
  <2>1. S \subseteq j.pending /\ j.pending \subseteq Records
    BY DEF Slice, Job
  <2>2. EmptySlot \in Slot /\ EmptySlot.recs = {} /\ EmptySlot.st = "none"
    BY LimitAssumption DEF EmptySlot, Slot, SlotStates
  <2>3. Sending(S) \in Slot /\ Sending(S).recs = S /\ Sending(S).st = "sending"
    BY <2>1, LimitAssumption DEF Sending, Slot, SlotStates
  <2>4. NextWave(j)[k] = Sending(S) \/ NextWave(j)[k] = EmptySlot
    BY DEF NextWave
  <2> QED
    BY <2>1, <2>2, <2>3, <2>4
<1>2. NextWave(j) \in [Slots -> Slot]
  BY <1>1 DEF NextWave
<1> QED
  BY <1>1, <1>2 DEF WaveRecords

\* Whatever the controller decides, the batch and worker limits hold.
LEMMA ObserveFacts ==
  ASSUME NEW j \in Job
  PROVE  LET n == [Observe(j) EXCEPT !.pc = "loop", !.wave = [k \in Slots |-> EmptySlot]] IN
           /\ n \in Job
           /\ n.pc = "loop" /\ n.path = j.path /\ n.pending = j.pending
           /\ n.wave = [k \in Slots |-> EmptySlot]
<1> DEFINE e == [k \in Slots |-> EmptySlot]
<1>1. e \in [Slots -> Slot]
  BY LimitAssumption DEF EmptySlot, Slot, SlotStates
<1>2. Observe(j) \in Job /\ Observe(j).path = j.path /\ Observe(j).pending = j.pending
  <2>1. j.bs \in MinBatch..MaxBatch /\ j.wk \in 1..Width /\ j.healthy \in 0..(GrowAfter - 1)
    BY DEF Job
  <2>2. j.bs \in Nat /\ j.wk \in Nat /\ j.bs \div 2 \in Nat /\ j.wk \div 2 \in Nat
        /\ j.bs \div 2 <= j.bs /\ j.wk \div 2 <= j.wk
    BY <2>1, BatchAssumption, WidthFacts, WorkerAssumption
  <2>3. CASE Observe(j) = Shrink(j)
    <3>1. MaxOf(MinBatch, j.bs \div 2) \in MinBatch..MaxBatch
      BY <2>1, <2>2, BatchAssumption DEF MaxOf
    <3>2. MaxOf(1, j.wk \div 2) \in 1..Width
      BY <2>1, <2>2, WidthFacts, WorkerAssumption DEF MaxOf
    <3>3. 0 \in 0..(GrowAfter - 1)
      BY LimitAssumption
    <3> QED
      BY <2>3, <3>1, <3>2, <3>3 DEF Shrink, Job
  <2>4. CASE Observe(j) = [j EXCEPT !.healthy = @ + 1] /\ j.healthy + 1 < GrowAfter
    <3>1. j.healthy + 1 \in 0..(GrowAfter - 1)
      BY <2>1, <2>4, LimitAssumption
    <3> QED
      BY <2>4, <3>1 DEF Job
  <2>5. CASE Observe(j) = Grow(j)
    <3>1. MinOf(MaxBatch, j.bs * 2) \in MinBatch..MaxBatch
      BY <2>1, <2>2, BatchAssumption DEF MinOf
    <3>2. MinOf(Width, j.wk + 1) \in 1..Width
      BY <2>1, <2>2, WidthFacts, WorkerAssumption DEF MinOf
    <3>3. 0 \in 0..(GrowAfter - 1)
      BY LimitAssumption
    <3> QED
      BY <2>5, <3>1, <3>2, <3>3 DEF Grow, Job
  <2> QED
    BY <2>3, <2>4, <2>5 DEF Observe
<1> HIDE DEF e
<1>3. [Observe(j) EXCEPT !.pc = "loop", !.wave = e] \in Job
  BY <1>1, <1>2 DEF Job, Slot, SlotStates
<1> QED
  BY <1>2, <1>3 DEF e, Job

-----------------------------------------------------------------------------
(* What a step does to the table of commands.                              *)

LEMMA LeaveStep ==
  ASSUME job \in [Procs -> Job], NEW p \in Procs, Leave(p)
  PROVE  /\ job' \in [Procs -> Job]
         /\ job'[p] = IdleJob
         /\ \A q \in Procs : q # p => job'[q] = job[q]
BY IdleJobType DEF Leave

LEMMA SettleStep ==
  ASSUME job \in [Procs -> Job], NEW p \in Procs, NEW k \in Slots,
         NEW s \in SlotStates, Settle(p, k, s)
  PROVE  /\ job' \in [Procs -> Job]
         /\ \A q \in Procs : q # p => job'[q] = job[q]
         /\ job'[p].pc = job[p].pc /\ job'[p].path = job[p].path
         /\ job'[p].pending = job[p].pending
         /\ job'[p].wave[k].st = s
         /\ \A i \in Slots : job'[p].wave[i].recs = job[p].wave[i].recs
         /\ \A i \in Slots : i # k => job'[p].wave[i] = job[p].wave[i]
<1> DEFINE n == [job[p] EXCEPT !.wave[k].st = s]
<1>1. job[p] \in Job
  OBVIOUS
<1>2. /\ n \in Job
      /\ n.pc = job[p].pc /\ n.path = job[p].path /\ n.pending = job[p].pending
      /\ n.wave[k].st = s
      /\ \A i \in Slots : n.wave[i].recs = job[p].wave[i].recs
      /\ \A i \in Slots : i # k => n.wave[i] = job[p].wave[i]
  BY <1>1, SettleFacts
<1>3. job' = [job EXCEPT ![p] = n]
  BY DEF Settle
<1> HIDE DEF n
<1> QED
  BY <1>2, <1>3

LEMMA RetryStep ==
  ASSUME job \in [Procs -> Job], NEW p \in Procs, NEW k \in Slots,
         job[p].wave[k].tries < MaxTries,
         job' = [job EXCEPT ![p].wave[k].tries = @ + 1]
  PROVE  /\ job' \in [Procs -> Job]
         /\ \A q \in Procs : q # p => job'[q] = job[q]
         /\ job'[p].pc = job[p].pc /\ job'[p].path = job[p].path
         /\ job'[p].pending = job[p].pending
         /\ \A i \in Slots : /\ job'[p].wave[i].recs = job[p].wave[i].recs
                             /\ job'[p].wave[i].st = job[p].wave[i].st
<1> DEFINE n == [job[p] EXCEPT !.wave[k].tries = @ + 1]
<1>1. job[p] \in Job
  OBVIOUS
<1>2. /\ n \in Job
      /\ n.pc = job[p].pc /\ n.path = job[p].path /\ n.pending = job[p].pending
      /\ \A i \in Slots : n.wave[i].recs = job[p].wave[i].recs /\ n.wave[i].st = job[p].wave[i].st
  BY <1>1, RetryFacts
<1>3. job' = [job EXCEPT ![p] = n]
  OBVIOUS
<1> HIDE DEF n
<1> QED
  BY <1>2, <1>3

\* The other assignments to the locals of a command.
LEMMA UpdateFacts ==
  ASSUME NEW j \in Job
  PROVE  /\ \A o \in Outputs : [j EXCEPT !.pc = "preflight", !.path = o] \in Job
         /\ \A S \in SUBSET Records : [j EXCEPT !.pc = "loop", !.pending = S] \in Job
         /\ \A S \in SUBSET Records, w \in [Slots -> Slot] :
              [j EXCEPT !.pc = "wave", !.wave = w, !.pending = S] \in Job
         /\ \A t \in 0..NumRecords : [j EXCEPT !.pc = "counted", !.total = t] \in Job
         /\ [j EXCEPT !.pc = "writing"] \in Job
<1>1. ASSUME NEW o \in Outputs PROVE [j EXCEPT !.pc = "preflight", !.path = o] \in Job
  BY DEF Job
<1>2. ASSUME NEW S \in SUBSET Records PROVE [j EXCEPT !.pc = "loop", !.pending = S] \in Job
  BY DEF Job
<1>3. ASSUME NEW S \in SUBSET Records, NEW w \in [Slots -> Slot]
      PROVE  [j EXCEPT !.pc = "wave", !.wave = w, !.pending = S] \in Job
  BY DEF Job, Slot, SlotStates
<1>4. ASSUME NEW t \in 0..NumRecords PROVE [j EXCEPT !.pc = "counted", !.total = t] \in Job
  BY DEF Job
<1>5. [j EXCEPT !.pc = "writing"] \in Job
  BY DEF Job
<1> QED
  BY <1>1, <1>2, <1>3, <1>4, <1>5

\* The slot of a call in flight holds records of the manifest.
LEMMA SlotFacts ==
  ASSUME job \in [Procs -> Job], NEW p \in Procs, NEW k \in Slots
  PROVE  job[p].wave[k] \in Slot /\ job[p].wave[k].recs \subseteq Records
BY DEF Job, Slot, SlotStates

LEMMA CountFacts ==
  ASSUME NEW S \in SUBSET Records
  PROVE  /\ IsFiniteSet(S) /\ Cardinality(S) \in Nat
         /\ Cardinality(S) = NumRecords => S = Records
         /\ S = Records => Cardinality(S) = NumRecords
         /\ Cardinality(S) <= NumRecords
<1>1. IsFiniteSet(Records) /\ Cardinality(Records) = NumRecords
  BY FS_Interval, ManifestAssumption DEF Records
<1>2. IsFiniteSet(S) /\ Cardinality(S) <= NumRecords /\ (Cardinality(S) = NumRecords => S = Records)
  BY <1>1, FS_Subset
<1> QED
  BY <1>1, <1>2, FS_CardinalityType

-----------------------------------------------------------------------------
(* Type correctness.                                                       *)

LEMMA TypeInit == Init => TypeOK
<1> SUFFICES ASSUME Init PROVE TypeOK
  OBVIOUS
<1>1. job \in [Procs -> Job]
  BY IdleJobType DEF Init
<1>2. IdleFinal \in [pc : {"idle", "activate", "poll"}, path : FinalOutputs \union {NoPath},
                     polls : 0..MaxPolls]
  BY LimitAssumption DEF IdleFinal
<1> QED
  BY <1>1, <1>2, ManifestAssumption, LimitAssumption DEF Init, TypeOK

LEMMA TypeStep == TypeOK /\ [Next]_vars => TypeOK'
<1> SUFFICES ASSUME TypeOK, [Next]_vars PROVE TypeOK'
  OBVIOUS
<1> USE DEF TypeOK
<1>0. job \in [Procs -> Job]
  OBVIOUS
<1>f. MayFail => faults' \in 0..MaxFaults
  BY LimitAssumption DEF MayFail
<1>1. ASSUME NEW p \in Procs, NEW o \in Outputs, Start(p, o) PROVE TypeOK'
  <2>1. job' \in [Procs -> Job]
    <3> DEFINE n == [job[p] EXCEPT !.pc = "preflight", !.path = o]
    <3>1. job[p] \in Job
      BY <1>0
    <3>2. n \in Job
      BY <3>1, UpdateFacts
    <3>3. job' \in {job, [job EXCEPT ![p] = n]}
      BY <1>1 DEF Start
    <3> HIDE DEF n
    <3> QED
      BY <1>0, <3>2, <3>3
  <2> QED
    BY <1>1, <2>1, ManifestAssumption DEF Start, remoteVars
<1>2. ASSUME NEW p \in Procs, Preflight(p) PROVE TypeOK'
  <2> DEFINE n == [job[p] EXCEPT !.pc = "loop", !.pending = Pending]
  <2>1. n \in Job
    <3>1. job[p] \in Job /\ Pending \in SUBSET Records
      BY <1>0 DEF Pending
    <3> QED
      BY <3>1, UpdateFacts
  <2>2. job' \in [Procs -> Job]
    <3>1. job' = [job EXCEPT ![p] = n]
      BY <1>2 DEF Preflight
    <3> HIDE DEF n
    <3> QED
      BY <1>0, <2>1, <3>1
  <2> QED
    BY <1>2, <2>2 DEF Preflight, remoteVars
<1>3. ASSUME NEW p \in Procs, PreflightFails(p) PROVE TypeOK'
  <2>1. job' \in [Procs -> Job]
    BY <1>0, <1>3, LeaveStep DEF PreflightFails
  <2> QED
    BY <1>3, <2>1, <1>f DEF PreflightFails, remoteVars
<1>4. ASSUME NEW p \in Procs, BeginWave(p) PROVE TypeOK'
  <2> DEFINE w == NextWave(job[p])
  <2>1. w \in [Slots -> Slot]
    BY <1>0, NextWaveFacts
  <2> HIDE DEF w
  <2> DEFINE S == job[p].pending \ WaveRecords(w)
           n == [job[p] EXCEPT !.pc = "wave", !.wave = w, !.pending = S]
  <2>2. n \in Job
    <3>1. job[p] \in Job /\ S \in SUBSET Records
      BY <1>0 DEF Job
    <3> QED
      BY <2>1, <3>1, UpdateFacts
  <2>3. job' = [job EXCEPT ![p] = n]
    BY <1>4 DEF BeginWave, w
  <2> HIDE DEF n
  <2>4. job' \in [Procs -> Job]
    BY <1>0, <2>2, <2>3
  <2> QED
    BY <1>4, <2>4 DEF BeginWave, remoteVars
<1>5. ASSUME NEW p \in Procs, NEW k \in Slots, UpsertOk(p, k) PROVE TypeOK'
  <2>1. job' \in [Procs -> Job]
    BY <1>0, <1>5, SettleStep DEF UpsertOk, SlotStates
  <2>2. job[p].wave[k].recs \subseteq Records
    BY <1>0, SlotFacts
  <2> QED
    BY <1>5, <2>1, <2>2 DEF UpsertOk
<1>6. ASSUME NEW p \in Procs, NEW k \in Slots, UpsertTransient(p, k) PROVE TypeOK'
  <2>1. job' \in [Procs -> Job]
    BY <1>0, <1>6, SettleStep, RetryStep DEF UpsertTransient, SlotStates
  <2>2. job[p].wave[k].recs \subseteq Records
    BY <1>0, SlotFacts
  <2> QED
    BY <1>6, <2>1, <2>2, <1>f DEF UpsertTransient, MayLand
<1>7. ASSUME NEW p \in Procs, NEW k \in Slots, UpsertFails(p, k) PROVE TypeOK'
  <2>1. job' \in [Procs -> Job]
    BY <1>0, <1>7, SettleStep DEF UpsertFails, SlotStates
  <2>2. job[p].wave[k].recs \subseteq Records
    BY <1>0, SlotFacts
  <2> QED
    BY <1>7, <2>1, <2>2, <1>f DEF UpsertFails, MayLand
<1>8. ASSUME NEW p \in Procs, NEW k \in Slots, CommitReceipt(p, k) PROVE TypeOK'
  <2>1. job' \in [Procs -> Job]
    BY <1>0, <1>8, SettleStep, LeaveStep DEF CommitReceipt, SlotStates
  <2>2. job[p].wave[k].recs \subseteq Records
    BY <1>0, SlotFacts
  <2> QED
    BY <1>8, <2>1, <2>2 DEF CommitReceipt, remoteVars
<1>9. ASSUME NEW p \in Procs, WaveDone(p) PROVE TypeOK'
  <2> DEFINE n == [Observe(job[p]) EXCEPT !.pc = "loop",
                                          !.wave = [k \in Slots |-> EmptySlot]]
  <2>1. n \in Job
    BY <1>0, ObserveFacts
  <2> HIDE DEF n
  <2>2. Leave(p) \/ job' = [job EXCEPT ![p] = n]
    BY <1>9 DEF WaveDone, n
  <2>3. job' \in [Procs -> Job]
    BY <1>0, <2>1, <2>2, LeaveStep
  <2> QED
    BY <1>9, <2>3 DEF WaveDone, remoteVars
<1>10. ASSUME NEW p \in Procs, CountCommitted(p) PROVE TypeOK'
  <2>1. Committed \in SUBSET Records
    BY DEF Committed
  <2>2. CASE Cardinality(Committed) > NumRecords
    BY <2>1, <2>2, CountFacts, ManifestAssumption
  <2>3. CASE ~(Cardinality(Committed) > NumRecords)
    <3>1. Cardinality(Committed) \in 0..NumRecords
      BY <2>1, CountFacts, ManifestAssumption
    <3> DEFINE n == [job[p] EXCEPT !.pc = "counted", !.total = Cardinality(Committed)]
    <3>2. n \in Job
      <4>1. job[p] \in Job
        BY <1>0
      <4> QED
        BY <3>1, <4>1, UpdateFacts
    <3>3. job' \in [Procs -> Job]
      <4>1. job' = [job EXCEPT ![p] = n]
        BY <1>10, <2>3 DEF CountCommitted
      <4> HIDE DEF n
      <4> QED
        BY <1>0, <3>2, <4>1
    <3> QED
      BY <1>10, <3>3 DEF CountCommitted, remoteVars
  <2> QED
    BY <2>2, <2>3
<1>11. ASSUME NEW p \in Procs, OpenReport(p) PROVE TypeOK'
  <2> DEFINE n == [job[p] EXCEPT !.pc = "writing"]
  <2>1. n \in Job
    <3>1. job[p] \in Job
      BY <1>0
    <3> QED
      BY <3>1, UpdateFacts
  <2>2. job' \in [Procs -> Job]
    <3>1. Leave(p) \/ job' = [job EXCEPT ![p] = n]
      BY <1>11 DEF OpenReport
    <3> HIDE DEF n
    <3> QED
      BY <1>0, <2>1, <3>1, LeaveStep
  <2> QED
    BY <1>11, <2>2 DEF OpenReport, remoteVars
<1>12. ASSUME NEW p \in Procs, WriteReport(p) PROVE TypeOK'
  <2>1. job' \in [Procs -> Job]
    BY <1>0, <1>12, LeaveStep DEF WriteReport
  <2> QED
    BY <1>12, <2>1 DEF WriteReport, Status, remoteVars
<1>13. ASSUME NEW p \in Procs, WriteFails(p) PROVE TypeOK'
  <2>1. job' \in [Procs -> Job]
    BY <1>0, <1>13, LeaveStep DEF WriteFails
  <2> QED
    BY <1>13, <2>1, <1>f DEF WriteFails, remoteVars
<1>14. ASSUME NEW p \in Procs, Die(p) PROVE TypeOK'
  <2>1. job' \in [Procs -> Job]
    BY <1>0, <1>14, LeaveStep DEF Die
  <2>2. durable' \subseteq Records /\ durable \subseteq durable'
    BY <1>14, <1>0, SlotFacts DEF Die
  <2> QED
    BY <1>14, <2>1, <2>2, <1>f DEF Die
<1>15. CASE Apply
  BY <1>15 DEF Apply
<1>16. ASSUME NEW o \in FinalOutputs, StartFinalize(o) PROVE TypeOK'
  BY <1>16, LimitAssumption DEF StartFinalize, remoteVars
<1>17. CASE Readback
  BY <1>17, LimitAssumption DEF Readback, Conclude, IdleFinal, remoteVars
<1>18. CASE Activate
  BY <1>18 DEF Activate
<1>19. CASE FinalizeFails
  <2>1. /\ faults' \in 0..MaxFaults /\ hnsw' \in {0, 16}
        /\ UNCHANGED <<durable, visible, ledger, reports, job>>
    BY <1>19, <1>f DEF FinalizeFails
  <2>2. /\ receipts' \in [FinalOutputs -> {"none", "PASS_FINALIZE", "BLOCKED_TECHNICAL"}]
        /\ final' = IdleFinal
    BY <1>19 DEF FinalizeFails, Conclude
  <2> QED
    BY <2>1, <2>2, LimitAssumption DEF IdleFinal
<1>20. ASSUME NEW green \in BOOLEAN, Poll(green) PROVE TypeOK'
  BY <1>20, LimitAssumption DEF Poll, Conclude, IdleFinal, remoteVars
<1>21. CASE UNCHANGED vars
  BY <1>21 DEF vars, remoteVars
<1> QED
  BY <1>1, <1>2, <1>3, <1>4, <1>5, <1>6, <1>7, <1>8, <1>9, <1>10, <1>11, <1>12,
     <1>13, <1>14, <1>15, <1>16, <1>17, <1>18, <1>19, <1>20, <1>21
     DEF Next, Launch, UploadStep, UploadFault, FinalizeStep

(* The state of the upload keeps its type.                                 *)
THEOREM TypeCorrect == Spec => []TypeOK
BY TypeInit, TypeStep, PTL DEF Spec

-----------------------------------------------------------------------------
(* No record is counted twice.                                             *)

\* The ledger grows by one batch that meets no other.
LEMMA LedgerStep ==
  ASSUME [Next]_vars
  PROVE  \/ ledger' = ledger
         \/ \E b : ~CommitConflict(b) /\ ledger' = ledger \union {b}
<1>1. ASSUME NEW p \in Procs, NEW o \in Outputs, Start(p, o)
      PROVE  ledger' = ledger \/ (~CommitConflict(Probe) /\ ledger' = ledger \union {Probe})
  BY <1>1 DEF Start
<1>2. ASSUME NEW p \in Procs, NEW k \in Slots, CommitReceipt(p, k)
      PROVE  \/ ledger' = ledger
             \/ /\ ~CommitConflict(job[p].wave[k].recs)
                /\ ledger' = ledger \union {job[p].wave[k].recs}
  BY <1>2 DEF CommitReceipt
<1>3. ASSUME NEW p \in Procs, UploadStep(p), ~\E k \in Slots : CommitReceipt(p, k)
      PROVE  ledger' = ledger
  BY <1>3 DEF UploadStep, Preflight, BeginWave, UpsertOk, WaveDone, CountCommitted,
              OpenReport, WriteReport
<1>4. ASSUME NEW p \in Procs, UploadFault(p) PROVE ledger' = ledger
  BY <1>4 DEF UploadFault, PreflightFails, UpsertTransient, UpsertFails, WriteFails, Die
<1>5. Apply \/ FinalizeStep \/ UNCHANGED vars => ledger' = ledger
  BY DEF Apply, FinalizeStep, StartFinalize, Readback, Activate, FinalizeFails, Poll, vars
<1> QED
  BY <1>1, <1>2, <1>3, <1>4, <1>5 DEF Next, Launch

LEMMA OnceStep == CountedOnce /\ [Next]_vars => CountedOnce'
<1> SUFFICES ASSUME CountedOnce, [Next]_vars PROVE CountedOnce'
  OBVIOUS
<1>1. CASE ledger' = ledger
  BY <1>1 DEF CountedOnce
<1>2. ASSUME NEW b, ~CommitConflict(b), ledger' = ledger \union {b} PROVE CountedOnce'
  <2> SUFFICES ASSUME NEW c \in ledger', NEW d \in ledger', c # d PROVE c \intersect d = {}
    BY DEF CountedOnce
  <2>1. CASE c \in ledger /\ d \in ledger
    BY <2>1 DEF CountedOnce
  <2>2. CASE c = b
    BY <1>2, <2>2 DEF CommitConflict
  <2>3. CASE d = b
    BY <1>2, <2>3 DEF CommitConflict
  <2> QED
    BY <1>2, <2>1, <2>2, <2>3
<1> QED
  BY <1>1, <1>2, LedgerStep

(* Whatever overlaps, fails or resumes, no two committed batches share a   *)
(* record, and usage_totals counts each record's tokens once.              *)
THEOREM NoDoubleCount == Spec => []CountedOnce
<1>1. Init => CountedOnce
  BY DEF Init, CountedOnce
<1> QED
  BY <1>1, OnceStep, PTL DEF Spec

-----------------------------------------------------------------------------
(* Acknowledged records are durable.                                       *)

LEMMA SoundInit == Init => LedgerSound
BY DEF Init, LedgerSound, Committed, IdleJob, EmptySlot

\* It is enough to look at the slots: one that is acknowledged was so before,
\* or its records are durable now.
LEMMA SoundFromSlots ==
  ASSUME LedgerSound, durable \subseteq durable',
         Committed' \subseteq durable',
         \A q \in Procs, i \in Slots : job'[q].wave[i].st = "acked" =>
           \/ job'[q].wave[i].recs \subseteq durable'
           \/ job[q].wave[i].st = "acked" /\ job'[q].wave[i].recs = job[q].wave[i].recs
  PROVE  LedgerSound'
<1>1. Probe \subseteq durable'
  BY DEF LedgerSound
<1>2. ASSUME NEW q \in Procs, NEW i \in Slots, job'[q].wave[i].st = "acked"
      PROVE  job'[q].wave[i].recs \subseteq durable'
  BY <1>2 DEF LedgerSound
<1> QED
  BY <1>1, <1>2 DEF LedgerSound

LEMMA IdleSlots == \A i \in Slots : IdleJob.wave[i] = EmptySlot
BY DEF IdleJob

LEMMA SoundStep == TypeOK /\ LedgerSound /\ [Next]_vars => LedgerSound'
<1> SUFFICES ASSUME TypeOK, LedgerSound, [Next]_vars PROVE LedgerSound'
  OBVIOUS
<1>0. job \in [Procs -> Job] /\ EmptySlot.st = "none"
  BY DEF TypeOK, EmptySlot
<1>c. Committed \subseteq durable /\ Probe \subseteq durable
  BY DEF LedgerSound
<1> DEFINE SlotsKept == \A q \in Procs, i \in Slots : job'[q].wave[i].st = "acked" =>
             \/ job'[q].wave[i].recs \subseteq durable'
             \/ job[q].wave[i].st = "acked" /\ job'[q].wave[i].recs = job[q].wave[i].recs
<1>l. ASSUME NEW p \in Procs, Leave(p) PROVE SlotsKept
  <2>1. job'[p] = IdleJob /\ \A q \in Procs : q # p => job'[q] = job[q]
    BY <1>0, <1>l, LeaveStep
  <2> QED
    BY <1>0, <2>1, IdleSlots
<1>s. ASSUME NEW p \in Procs, NEW k \in Slots, NEW s \in SlotStates, Settle(p, k, s),
             s = "acked" => job[p].wave[k].recs \subseteq durable'
      PROVE  SlotsKept
  BY <1>0, <1>s, SettleStep
<1>u. ASSUME job' = job PROVE SlotsKept
  BY <1>u
<1>1. ASSUME NEW p \in Procs, NEW o \in Outputs, Start(p, o) PROVE LedgerSound'
  <2>1. \A q \in Procs : job'[q].wave = job[q].wave
    BY <1>0, <1>1 DEF Start, Job
  <2>2. Committed' \subseteq durable' /\ durable' = durable
    BY <1>1, <1>c DEF Start, remoteVars, Committed
  <2> QED
    BY <2>1, <2>2, SoundFromSlots
<1>2. ASSUME NEW p \in Procs, Preflight(p) \/ CountCommitted(p) \/ OpenReport(p)
      PROVE  LedgerSound'
  <2>1. CASE Leave(p)
    BY <1>2, <1>c, <1>l, <2>1, SoundFromSlots
       DEF Preflight, CountCommitted, OpenReport, remoteVars, Committed
  <2>2. CASE ~Leave(p)
    <3>1. \A q \in Procs : job'[q].wave = job[q].wave
      <4>1. CASE Preflight(p)
        BY <1>0, <4>1 DEF Preflight, Job
      <4>2. CASE CountCommitted(p)
        <5>1. job' = [job EXCEPT ![p].pc = "counted", ![p].total = Cardinality(Committed)]
          BY <2>2, <4>2 DEF CountCommitted
        <5>2. job'[p] = [job[p] EXCEPT !.pc = "counted", !.total = Cardinality(Committed)]
              /\ "wave" \in DOMAIN job[p]
          BY <1>0, <5>1 DEF Job
        <5>3. \A q \in Procs : q # p => job'[q] = job[q]
          BY <1>0, <5>1
        <5> QED
          BY <5>2, <5>3
      <4>3. CASE OpenReport(p)
        BY <1>0, <2>2, <4>3 DEF OpenReport, Job
      <4> QED
        BY <1>2, <4>1, <4>2, <4>3
    <3> QED
      BY <1>2, <1>c, <3>1, SoundFromSlots
         DEF Preflight, CountCommitted, OpenReport, remoteVars, Committed
  <2> QED
    BY <2>1, <2>2
<1>3. ASSUME NEW p \in Procs, PreflightFails(p) \/ WriteReport(p) \/ WriteFails(p)
      PROVE  LedgerSound'
  BY <1>3, <1>c, <1>l, SoundFromSlots
     DEF PreflightFails, WriteReport, WriteFails, remoteVars, Committed
<1>4. ASSUME NEW p \in Procs, BeginWave(p) PROVE LedgerSound'
  <2>1. job' = [job EXCEPT ![p].pc = "wave", ![p].wave = NextWave(job[p]),
                           ![p].pending = @ \ WaveRecords(NextWave(job[p]))]
    BY <1>4 DEF BeginWave
  <2>2. job'[p].wave = NextWave(job[p]) /\ \A q \in Procs : q # p => job'[q] = job[q]
    BY <1>0, <2>1 DEF Job
  <2>3. SlotsKept
    BY <1>0, <2>2, NextWaveFacts
  <2> QED
    BY <1>4, <1>c, <2>3, SoundFromSlots DEF BeginWave, remoteVars, Committed
<1>5. ASSUME NEW p \in Procs, NEW k \in Slots, UpsertOk(p, k) PROVE LedgerSound'
  <2>1. durable \subseteq durable' /\ job[p].wave[k].recs \subseteq durable' /\ ledger' = ledger
    BY <1>5 DEF UpsertOk
  <2>2. SlotsKept
    BY <1>5, <1>s, <2>1 DEF UpsertOk, SlotStates
  <2> QED
    BY <1>c, <2>1, <2>2, SoundFromSlots DEF Committed
<1>6. ASSUME NEW p \in Procs, NEW k \in Slots, UpsertTransient(p, k) PROVE LedgerSound'
  <2>1. durable \subseteq durable' /\ ledger' = ledger
    BY <1>6 DEF UpsertTransient, MayLand
  <2>2. SlotsKept
    <3>1. CASE Settle(p, k, "failed")
      BY <1>s, <3>1 DEF SlotStates
    <3>2. CASE ~Settle(p, k, "failed")
      BY <1>0, <1>6, <3>2, RetryStep DEF UpsertTransient
    <3> QED
      BY <3>1, <3>2
  <2> QED
    BY <1>c, <2>1, <2>2, SoundFromSlots DEF Committed
<1>7. ASSUME NEW p \in Procs, NEW k \in Slots, UpsertFails(p, k) PROVE LedgerSound'
  <2>1. durable \subseteq durable' /\ ledger' = ledger
    BY <1>7 DEF UpsertFails, MayLand
  <2>2. SlotsKept
    BY <1>7, <1>s DEF UpsertFails, SlotStates
  <2> QED
    BY <1>c, <2>1, <2>2, SoundFromSlots DEF Committed
<1>8. ASSUME NEW p \in Procs, NEW k \in Slots, CommitReceipt(p, k) PROVE LedgerSound'
  <2>1. job[p].wave[k].recs \subseteq durable /\ durable' = durable
    BY <1>8 DEF CommitReceipt, Receipts, LedgerSound, remoteVars
  <2>2. Committed' \subseteq durable'
    BY <1>8, <1>c, <2>1 DEF CommitReceipt, Committed
  <2>3. SlotsKept
    BY <1>8, <1>l, <1>s DEF CommitReceipt, SlotStates
  <2> QED
    BY <2>1, <2>2, <2>3, SoundFromSlots
<1>9. ASSUME NEW p \in Procs, WaveDone(p) PROVE LedgerSound'
  <2> DEFINE n == [Observe(job[p]) EXCEPT !.pc = "loop",
                                          !.wave = [k \in Slots |-> EmptySlot]]
  <2>1. n.wave = [k \in Slots |-> EmptySlot]
    BY <1>0, ObserveFacts
  <2> HIDE DEF n
  <2>2. Leave(p) \/ job' = [job EXCEPT ![p] = n]
    BY <1>9 DEF WaveDone, n
  <2>3. SlotsKept
    BY <1>0, <1>l, <2>1, <2>2
  <2> QED
    BY <1>9, <1>c, <2>3, SoundFromSlots DEF WaveDone, remoteVars, Committed
<1>10. ASSUME NEW p \in Procs, Die(p) PROVE LedgerSound'
  <2>1. durable \subseteq durable' /\ ledger' = ledger /\ Leave(p)
    BY <1>10 DEF Die
  <2> QED
    BY <1>c, <1>l, <2>1, SoundFromSlots DEF Committed
<1>11. CASE Apply \/ FinalizeStep \/ UNCHANGED vars
  <2>1. job' = job /\ durable' = durable /\ ledger' = ledger
    BY <1>11 DEF Apply, FinalizeStep, StartFinalize, Readback, Activate, FinalizeFails, Poll,
                 remoteVars, vars
  <2> QED
    BY <1>c, <1>u, <2>1, SoundFromSlots DEF Committed
<1> QED
  BY <1>1, <1>2, <1>3, <1>4, <1>5, <1>6, <1>7, <1>8, <1>9, <1>10, <1>11
     DEF Next, Launch, UploadStep, UploadFault

-----------------------------------------------------------------------------
(* A running command still holds what it has not committed.                *)

LEMMA CommittedGrows ==
  ASSUME TypeOK, TypeOK', [Next]_vars
  PROVE  Committed \subseteq Committed' /\ Committed' \subseteq Records
<1>1. ledger \subseteq ledger'
  BY LedgerStep
<1> QED
  BY <1>1 DEF Committed, TypeOK

LEMMA DroppedInit == Init => NothingDropped
BY DEF Init, NothingDropped, HoldsAll, IdleJob, EmptySlot

\* A command whose locals did not change, while the ledger grew.
LEMMA HoldsFrame ==
  ASSUME NEW q \in Procs, HoldsAll(q), job'[q] = job[q],
         Committed \subseteq Committed', Committed' \subseteq Records
  PROVE  HoldsAll(q)'
<1>1. job'[q].pc \in {"loop", "wave"} =>
        Records \subseteq Committed' \union job'[q].pending \union WaveRecords(job'[q].wave)
  BY DEF HoldsAll
<1>2. \A k \in Slots :
        /\ job'[q].wave[k].st = "none" => job'[q].wave[k].recs = {}
        /\ job'[q].wave[k].st = "committed" => job'[q].wave[k].recs \subseteq Committed'
  BY DEF HoldsAll
<1>3. job'[q].pc \in {"counted", "writing"} => job'[q].total = NumRecords /\ Committed' = Records
  BY DEF HoldsAll
<1>4. job'[q].pc # "wave" => \A k \in Slots : job'[q].wave[k].st = "none"
  BY DEF HoldsAll
<1> QED
  BY <1>1, <1>2, <1>3, <1>4 DEF HoldsAll

LEMMA HoldsIdle ==
  ASSUME NEW p \in Procs, job'[p] = IdleJob
  PROVE  HoldsAll(p)'
BY DEF HoldsAll, IdleJob, EmptySlot

\* A command in the middle of its wave, the slots settling one by one.
LEMMA HoldsWave ==
  ASSUME NEW p \in Procs, HoldsAll(p), Committed \subseteq Committed',
         job[p].pc = "wave", job'[p].pc = "wave", job'[p].pending = job[p].pending,
         \A i \in Slots :
           /\ job'[p].wave[i].recs = job[p].wave[i].recs
           /\ \/ job'[p].wave[i].st = job[p].wave[i].st
              \/ job'[p].wave[i].st \in {"acked", "failed"}
              \/ job'[p].wave[i].recs \subseteq Committed' /\ job'[p].wave[i].st = "committed"
  PROVE  HoldsAll(p)'
<1>1. WaveRecords(job'[p].wave) = WaveRecords(job[p].wave)
  BY DEF WaveRecords
<1>2. Records \subseteq Committed' \union job'[p].pending \union WaveRecords(job'[p].wave)
  BY <1>1 DEF HoldsAll
<1>3. ASSUME NEW i \in Slots
      PROVE  /\ job'[p].wave[i].st = "none" => job'[p].wave[i].recs = {}
             /\ job'[p].wave[i].st = "committed" => job'[p].wave[i].recs \subseteq Committed'
  BY DEF HoldsAll
<1> QED
  BY <1>2, <1>3 DEF HoldsAll

LEMMA DroppedStep == TypeOK /\ TypeOK' /\ NothingDropped /\ [Next]_vars => NothingDropped'
<1> SUFFICES ASSUME TypeOK, TypeOK', NothingDropped, [Next]_vars PROVE NothingDropped'
  OBVIOUS
<1>0. job \in [Procs -> Job]
  BY DEF TypeOK
<1>c. Committed \subseteq Committed' /\ Committed' \subseteq Records
  BY CommittedGrows
<1>o. ASSUME NEW p \in Procs, HoldsAll(p)',
             \A q \in Procs : q # p => job'[q] = job[q]
      PROVE  NothingDropped'
  BY <1>c, <1>o, HoldsFrame DEF NothingDropped
<1>l. ASSUME NEW p \in Procs, Leave(p) PROVE NothingDropped'
  BY <1>0, <1>l, <1>o, LeaveStep, HoldsIdle
<1>h. \A p \in Procs : HoldsAll(p)
  BY DEF NothingDropped
<1>1. ASSUME NEW p \in Procs, NEW o \in Outputs, Start(p, o) PROVE NothingDropped'
  <2>1. CASE job' = job
    BY <1>c, <2>1, HoldsFrame DEF NothingDropped
  <2>2. CASE job' = [job EXCEPT ![p].pc = "preflight", ![p].path = o]
    <3>1. job'[p].pc = "preflight" /\ job'[p].wave = job[p].wave
          /\ \A q \in Procs : q # p => job'[q] = job[q]
      BY <1>0, <2>2 DEF Job
    <3>2. \A k \in Slots : job[p].wave[k].st = "none" /\ job[p].wave[k].recs = {}
      BY <1>1, <1>h DEF Start, HoldsAll
    <3>3. HoldsAll(p)'
      BY <3>1, <3>2 DEF HoldsAll
    <3> QED
      BY <1>o, <3>1, <3>3
  <2> QED
    BY <1>1, <2>1, <2>2 DEF Start
<1>2. ASSUME NEW p \in Procs, Preflight(p) PROVE NothingDropped'
  <2>1. job' = [job EXCEPT ![p].pc = "loop", ![p].pending = Pending] /\ ledger' = ledger
    BY <1>2 DEF Preflight
  <2>2. /\ job'[p].pc = "loop" /\ job'[p].wave = job[p].wave
        /\ job'[p].pending = Records \ Committed
        /\ \A q \in Procs : q # p => job'[q] = job[q]
    BY <1>0, <2>1 DEF Job, Pending
  <2>3. \A k \in Slots : job[p].wave[k].st = "none" /\ job[p].wave[k].recs = {}
    BY <1>2, <1>h DEF Preflight, HoldsAll
  <2>4. Records \subseteq Committed' \union job'[p].pending
    BY <2>2, <1>c
  <2>5. HoldsAll(p)'
    BY <2>2, <2>3, <2>4 DEF HoldsAll
  <2> QED
    BY <1>o, <2>2, <2>5
<1>3. ASSUME NEW p \in Procs, PreflightFails(p) \/ WriteReport(p) \/ WriteFails(p) \/ Die(p)
      PROVE  NothingDropped'
  BY <1>3, <1>l DEF PreflightFails, WriteReport, WriteFails, Die
<1>4. ASSUME NEW p \in Procs, BeginWave(p) PROVE NothingDropped'
  <2> DEFINE w == NextWave(job[p])
  <2>1. job[p] \in Job
    BY <1>0
  <2>2. \A k \in Slots : w[k].st \in {"none", "sending"} /\ (w[k].st = "none" => w[k].recs = {})
    BY <2>1, NextWaveFacts
  <2>3. job' = [job EXCEPT ![p].pc = "wave", ![p].wave = w, ![p].pending = @ \ WaveRecords(w)]
    BY <1>4 DEF BeginWave
  <2> HIDE DEF w
  <2>4. /\ job'[p].pc = "wave" /\ job'[p].wave = w
        /\ job'[p].pending = job[p].pending \ WaveRecords(w)
        /\ \A q \in Procs : q # p => job'[q] = job[q]
    BY <1>0, <2>3 DEF Job
  <2>5. Records \subseteq Committed \union job[p].pending
    <3>1. \A k \in Slots : job[p].wave[k].recs = {}
      BY <1>4, <1>h DEF BeginWave, HoldsAll
    <3>2. WaveRecords(job[p].wave) = {}
      BY <3>1 DEF WaveRecords
    <3> QED
      BY <1>4, <1>h, <3>2 DEF BeginWave, HoldsAll
  <2>6. HoldsAll(p)'
    BY <1>c, <2>2, <2>4, <2>5 DEF HoldsAll
  <2> QED
    BY <1>o, <2>4, <2>6
<1>5. ASSUME NEW p \in Procs, NEW k \in Slots,
             UpsertOk(p, k) \/ UpsertTransient(p, k) \/ UpsertFails(p, k)
      PROVE  NothingDropped'
  <2>1. job[p].pc = "wave"
    BY <1>5 DEF UpsertOk, UpsertTransient, UpsertFails, InFlight
  <2>2. \/ Settle(p, k, "acked") \/ Settle(p, k, "failed")
        \/ /\ job[p].wave[k].tries < MaxTries
           /\ job' = [job EXCEPT ![p].wave[k].tries = @ + 1]
    BY <1>5 DEF UpsertOk, UpsertTransient, UpsertFails
  <2>3. CASE Settle(p, k, "acked") \/ Settle(p, k, "failed")
    <3> PICK s \in {"acked", "failed"} : Settle(p, k, s)
      BY <2>3
    <3>1. /\ job'[p].pc = job[p].pc /\ job'[p].pending = job[p].pending
          /\ job'[p].wave[k].st = s
          /\ \A i \in Slots : job'[p].wave[i].recs = job[p].wave[i].recs
          /\ \A i \in Slots : i # k => job'[p].wave[i] = job[p].wave[i]
          /\ \A q \in Procs : q # p => job'[q] = job[q]
      BY <1>0, SettleStep DEF SlotStates
    <3>2. HoldsAll(p)'
      BY <1>c, <1>h, <2>1, <3>1, HoldsWave
    <3> QED
      BY <1>o, <3>1, <3>2
  <2>4. CASE /\ job[p].wave[k].tries < MaxTries
             /\ job' = [job EXCEPT ![p].wave[k].tries = @ + 1]
    <3>1. /\ job'[p].pc = job[p].pc /\ job'[p].pending = job[p].pending
          /\ \A i \in Slots : /\ job'[p].wave[i].recs = job[p].wave[i].recs
                              /\ job'[p].wave[i].st = job[p].wave[i].st
          /\ \A q \in Procs : q # p => job'[q] = job[q]
      BY <1>0, <2>4, RetryStep
    <3>2. HoldsAll(p)'
      BY <1>c, <1>h, <2>1, <3>1, HoldsWave
    <3> QED
      BY <1>o, <3>1, <3>2
  <2> QED
    BY <2>2, <2>3, <2>4
<1>6. ASSUME NEW p \in Procs, NEW k \in Slots, CommitReceipt(p, k) PROVE NothingDropped'
  <2>1. CASE Leave(p)
    BY <1>l, <2>1
  <2>2. CASE ~Leave(p)
    <3>1. job[p].pc = "wave" /\ Settle(p, k, "committed")
          /\ job[p].wave[k].recs \subseteq Committed'
      BY <1>6, <2>2 DEF CommitReceipt, WaveSettled, Committed
    <3>2. /\ job'[p].pc = job[p].pc /\ job'[p].pending = job[p].pending
          /\ job'[p].wave[k].st = "committed"
          /\ \A i \in Slots : job'[p].wave[i].recs = job[p].wave[i].recs
          /\ \A i \in Slots : i # k => job'[p].wave[i] = job[p].wave[i]
          /\ \A q \in Procs : q # p => job'[q] = job[q]
      BY <1>0, <3>1, SettleStep DEF SlotStates
    <3>3. HoldsAll(p)'
      BY <1>c, <1>h, <3>1, <3>2, HoldsWave
    <3> QED
      BY <1>o, <3>2, <3>3
  <2> QED
    BY <2>1, <2>2
<1>7. ASSUME NEW p \in Procs, WaveDone(p) PROVE NothingDropped'
  <2>1. CASE WaveFailed(p)
    BY <1>7, <1>l, <2>1 DEF WaveDone
  <2>2. CASE ~WaveFailed(p)
    <3> DEFINE n == [Observe(job[p]) EXCEPT !.pc = "loop",
                                            !.wave = [k \in Slots |-> EmptySlot]]
    <3>1. n \in Job /\ n.pc = "loop" /\ n.pending = job[p].pending
          /\ n.wave = [k \in Slots |-> EmptySlot]
      BY <1>0, ObserveFacts
    <3>2. job' = [job EXCEPT ![p] = n]
      BY <1>7, <2>2 DEF WaveDone
    <3> HIDE DEF n
    <3>3. /\ job'[p].pc = "loop" /\ job'[p].pending = job[p].pending
          /\ \A k \in Slots : job'[p].wave[k].st = "none" /\ job'[p].wave[k].recs = {}
          /\ \A q \in Procs : q # p => job'[q] = job[q]
      BY <1>0, <3>1, <3>2 DEF EmptySlot
    <3>4. ASSUME NEW k \in Slots PROVE job[p].wave[k].recs \subseteq Committed
      <4>1. job[p].wave[k].st \in SlotStates
        BY <1>0, SlotFacts DEF Slot
      <4>2. job[p].wave[k].st \in {"none", "committed"}
        BY <1>7, <2>2, <4>1 DEF WaveDone, WaveSettled, Receipts, WaveFailed, SlotStates
      <4> QED
        BY <1>h, <4>2 DEF HoldsAll
    <3>5. WaveRecords(job[p].wave) \subseteq Committed
      BY <3>4 DEF WaveRecords
    <3>6. Records \subseteq Committed' \union job'[p].pending
      BY <1>7, <1>c, <1>h, <3>3, <3>5 DEF WaveDone, WaveSettled, HoldsAll
    <3>7. HoldsAll(p)'
      BY <3>3, <3>6 DEF HoldsAll
    <3> QED
      BY <1>o, <3>3, <3>7
  <2> QED
    BY <2>1, <2>2
<1>8. ASSUME NEW p \in Procs, CountCommitted(p) PROVE NothingDropped'
  <2>1. Committed = Records /\ Cardinality(Committed) = NumRecords
    <3>1. WaveRecords(job[p].wave) = {}
      BY <1>8, <1>h DEF CountCommitted, HoldsAll, WaveRecords
    <3>2. Records \subseteq Committed
      BY <1>8, <1>h, <3>1 DEF CountCommitted, HoldsAll
    <3>3. Committed \in SUBSET Records
      BY DEF TypeOK, Committed
    <3> QED
      BY <3>2, <3>3, CountFacts
  <2>2. ~(Cardinality(Committed) > NumRecords)
    BY <2>1, ManifestAssumption
  <2>3. job' = [job EXCEPT ![p].pc = "counted", ![p].total = Cardinality(Committed)]
        /\ ledger' = ledger
    BY <1>8, <2>2 DEF CountCommitted
  <2>4. /\ job'[p].pc = "counted" /\ job'[p].wave = job[p].wave
        /\ job'[p].total = NumRecords /\ Committed' = Records
        /\ \A q \in Procs : q # p => job'[q] = job[q]
    BY <1>0, <2>1, <2>3 DEF Job, Committed
  <2>5. \A k \in Slots : job[p].wave[k].st = "none" /\ job[p].wave[k].recs = {}
    BY <1>8, <1>h DEF CountCommitted, HoldsAll
  <2>6. HoldsAll(p)'
    BY <2>4, <2>5 DEF HoldsAll
  <2> QED
    BY <1>o, <2>4, <2>6
<1>9. ASSUME NEW p \in Procs, OpenReport(p) PROVE NothingDropped'
  <2>1. CASE Leave(p)
    BY <1>l, <2>1
  <2>2. CASE ~Leave(p)
    <3>1. job' = [job EXCEPT ![p].pc = "writing"]
      BY <1>9, <2>2 DEF OpenReport
    <3>2. /\ job'[p].pc = "writing" /\ job'[p].wave = job[p].wave
          /\ job'[p].total = job[p].total
          /\ \A q \in Procs : q # p => job'[q] = job[q]
      BY <1>0, <3>1 DEF Job
    <3>3. HoldsAll(p)'
      BY <1>9, <1>c, <1>h, <3>2 DEF OpenReport, HoldsAll
    <3> QED
      BY <1>o, <3>2, <3>3
  <2> QED
    BY <2>1, <2>2
<1>10. CASE Apply \/ FinalizeStep \/ UNCHANGED vars
  <2>1. job' = job
    BY <1>10 DEF Apply, FinalizeStep, StartFinalize, Readback, Activate, FinalizeFails, Poll, vars
  <2> QED
    BY <1>c, <2>1, HoldsFrame DEF NothingDropped
<1> QED
  BY <1>1, <1>2, <1>3, <1>4, <1>5, <1>6, <1>7, <1>8, <1>9, <1>10
     DEF Next, Launch, UploadStep, UploadFault

-----------------------------------------------------------------------------
(* The report, the activation, and the invariant as a whole.               *)

LEMMA ReportStep ==
  TypeOK /\ TypeOK' /\ NothingDropped /\ ReportedComplete /\ [Next]_vars => ReportedComplete'
<1> SUFFICES ASSUME TypeOK, TypeOK', NothingDropped, ReportedComplete, [Next]_vars,
                    NEW o \in Outputs, reports'[o] \notin {"none", "torn"}
             PROVE  reports'[o] = "UPLOAD_COMPLETE" /\ Committed' = Records
  BY DEF ReportedComplete
<1>c. Committed \subseteq Committed' /\ Committed' \subseteq Records
  BY CommittedGrows
<1>r. reports \in [Outputs -> {"none", "torn", "UPLOAD_COMPLETE", "UPLOAD_INCOMPLETE"}]
  BY DEF TypeOK
<1>1. CASE reports'[o] = reports[o]
  BY <1>1, <1>c DEF ReportedComplete
<1>2. ASSUME NEW p \in Procs, OpenReport(p) \/ WriteFails(p) PROVE reports'[o] = reports[o]
  BY <1>2, <1>r DEF OpenReport, WriteFails
<1>3. ASSUME NEW p \in Procs, WriteReport(p), reports'[o] # reports[o]
      PROVE  reports'[o] = "UPLOAD_COMPLETE" /\ Committed' = Records
  <2>1. job[p].total = NumRecords /\ Committed = Records
    BY <1>3 DEF WriteReport, NothingDropped, HoldsAll
  <2> QED
    BY <1>3, <1>c, <1>r, <2>1 DEF WriteReport, Status
<1>4. ASSUME NEW p \in Procs,
             Launch(p) \/ (UploadStep(p) /\ ~OpenReport(p) /\ ~WriteReport(p))
               \/ (UploadFault(p) /\ ~WriteFails(p))
      PROVE  reports' = reports
  BY <1>4 DEF Launch, Start, UploadStep, UploadFault, Preflight, BeginWave, UpsertOk,
              CommitReceipt, WaveDone, CountCommitted, PreflightFails, UpsertTransient,
              UpsertFails, Die
<1>5. Apply \/ FinalizeStep \/ UNCHANGED vars => reports' = reports
  BY DEF Apply, FinalizeStep, StartFinalize, Readback, Activate, FinalizeFails, Poll, vars
<1> QED
  BY <1>1, <1>2, <1>3, <1>4, <1>5 DEF Next, UploadStep, UploadFault

LEMMA VisibleGrows == TypeOK /\ [Next]_vars => visible \subseteq visible'
BY DEF TypeOK, Next, Launch, UploadStep, UploadFault, FinalizeStep, Start, Preflight,
       BeginWave, UpsertOk, CommitReceipt, WaveDone, CountCommitted, OpenReport,
       WriteReport, PreflightFails, UpsertTransient, UpsertFails, WriteFails, Die, Apply,
       StartFinalize, Readback, Activate, FinalizeFails, Poll, remoteVars, vars

LEMMA ActivatingStep ==
  TypeOK /\ TypeOK' /\ Activating /\ [Next]_vars => Activating'
<1> SUFFICES ASSUME TypeOK, TypeOK', Activating, [Next]_vars, final'.pc = "activate"
             PROVE  visible' = Records
  BY DEF Activating
<1>1. visible \subseteq visible' /\ visible' \subseteq Records /\ visible \subseteq Records
  BY VisibleGrows DEF TypeOK
<1>2. CASE final' = final
  BY <1>1, <1>2 DEF Activating
<1>3. ASSUME Readback PROVE visible' = Records
  <2>1. ~(hnsw = 0 /\ ~CountMatches) /\ hnsw = 0
    BY <1>3 DEF Readback, Conclude, IdleFinal, TypeOK
  <2>2. visible = Records
    BY <1>1, <2>1, CountFacts DEF CountMatches
  <2> QED
    BY <1>1, <2>2
<1>4. /\ Activate => final'.pc = "poll"
      /\ (\E o \in FinalOutputs : StartFinalize(o)) => final'.pc = "check"
  BY DEF Activate, StartFinalize, TypeOK
<1>5. FinalizeFails \/ (\E green \in BOOLEAN : Poll(green)) => final'.pc # "activate"
  BY DEF FinalizeFails, Poll, Conclude, IdleFinal, TypeOK
<1>6. ASSUME NEW p \in Procs, Launch(p) \/ UploadStep(p) \/ UploadFault(p)
      PROVE  final' = final
  BY <1>6 DEF Launch, UploadStep, UploadFault, Start, Preflight, BeginWave, UpsertOk,
       CommitReceipt, WaveDone, CountCommitted, OpenReport, WriteReport, PreflightFails,
       UpsertTransient, UpsertFails, WriteFails, Die
<1>7. Apply \/ UNCHANGED vars => final' = final
  BY DEF Apply, vars
<1> QED
  BY <1>2, <1>3, <1>4, <1>5, <1>6, <1>7 DEF Next, FinalizeStep

LEMMA InvInit == Init => UploadInv
<1>1. Init => CountedOnce /\ ReportedComplete /\ Activating
  BY DEF Init, CountedOnce, ReportedComplete, Activating, IdleFinal
<1> QED
  BY <1>1, TypeInit, SoundInit, DroppedInit DEF UploadInv

LEMMA InvStep == UploadInv /\ [Next]_vars => UploadInv'
BY TypeStep, OnceStep, SoundStep, DroppedStep, ReportStep, ActivatingStep DEF UploadInv

LEMMA AlwaysUploadInv == Spec => []UploadInv
BY InvInit, InvStep, PTL DEF Spec

(* A written report is complete, and the ledger behind it holds the whole  *)
(* manifest, whatever was lost, raised or killed before it.                *)
THEOREM ReportSound == Spec => []ReportedComplete
<1>1. UploadInv => ReportedComplete
  BY DEF UploadInv
<1> QED
  BY <1>1, AlwaysUploadInv, PTL

(* The ledger counts each record once, and a written report is complete:   *)
(* the two together.                                                       *)
THEOREM LedgerExactness == Spec => []LedgerExact
BY NoDoubleCount, ReportSound, PTL DEF LedgerExact

(* HNSW is switched on only while get_collection counts every record.      *)
THEOREM ActivationSound == Spec => ActivatedWhole
<1>1. UploadInv /\ [Next]_vars => [hnsw' # hnsw => visible = Records]_vars
  <2> SUFFICES ASSUME UploadInv, [Next]_vars, hnsw' # hnsw PROVE visible = Records
    OBVIOUS
  <2>1. Activate \/ FinalizeFails
    BY DEF Next, Launch, UploadStep, UploadFault, FinalizeStep, Start, Preflight,
       BeginWave, UpsertOk, CommitReceipt, WaveDone, CountCommitted, OpenReport,
       WriteReport, PreflightFails, UpsertTransient, UpsertFails, WriteFails, Die, Apply,
       StartFinalize, Readback, Poll, remoteVars, vars
  <2> QED
    BY <2>1 DEF Activate, FinalizeFails, UploadInv, Activating
<1> QED
  BY <1>1, AlwaysUploadInv, PTL DEF Spec, ActivatedWhole

(* A wave error loses no receipt.                                          *)
THEOREM ReceiptsSafe == Spec => ReceiptsKept
<1>1. UploadInv /\ [Next]_vars =>
        [\A p \in Procs, k \in Slots :
           job[p].wave[k].st = "acked" /\ job'[p].pc = "idle" /\ faults' = faults =>
             \E i \in Slots : CommitConflict(job[p].wave[i].recs)]_vars
  <2>1. ASSUME UploadInv, Next, NEW p \in Procs, NEW k \in Slots,
               job[p].wave[k].st = "acked", job'[p].pc = "idle", faults' = faults
        PROVE  \E i \in Slots : CommitConflict(job[p].wave[i].recs)
    <3>0. job \in [Procs -> Job] /\ faults \in Nat /\ ~MayFail
      BY <2>1, LimitAssumption DEF UploadInv, TypeOK, MayFail
    <3>1. job[p].pc = "wave"
      BY <2>1 DEF UploadInv, NothingDropped, HoldsAll
    <3>2. job' # job
      BY <2>1, <3>1
    <3>3. PICK q \in Procs : Launch(q) \/ UploadStep(q) \/ UploadFault(q)
      BY <2>1, <3>2 DEF Next, Apply, FinalizeStep, StartFinalize, Readback,
                        Activate, FinalizeFails, Poll
    <3>4. ~UploadFault(q)
      BY <3>0 DEF UploadFault, PreflightFails, UpsertTransient, UpsertFails, WriteFails, Die
    <3>5. CASE q # p
      <4>1. job'[p] = job[p]
        BY <3>0, <3>3, <3>4, <3>5
           DEF Launch, Start, UploadStep, Preflight, BeginWave, UpsertOk, CommitReceipt,
               WaveDone, CountCommitted, OpenReport, WriteReport, Settle, Leave
      <4> QED
        BY <2>1, <3>1, <4>1
    <3>6. CASE q = p
      <4>1. \/ \E i \in Slots : UpsertOk(p, i) \/ CommitReceipt(p, i)
            \/ WaveDone(p)
        BY <3>1, <3>3, <3>4, <3>6
           DEF Launch, Start, UploadStep, Preflight, BeginWave, CountCommitted,
               OpenReport, WriteReport
      <4>2. ASSUME NEW i \in Slots, UpsertOk(p, i) PROVE FALSE
        <5>1. job'[p].pc = job[p].pc
          BY <3>0, <4>2, SettleStep DEF UpsertOk, SlotStates
        <5> QED
          BY <2>1, <3>1, <5>1
      <4>3. ASSUME NEW i \in Slots, CommitReceipt(p, i)
            PROVE  CommitConflict(job[p].wave[i].recs)
        <5> SUFFICES ASSUME ~CommitConflict(job[p].wave[i].recs) PROVE FALSE
          OBVIOUS
        <5>1. job'[p].pc = job[p].pc
          BY <3>0, <4>3, SettleStep DEF CommitReceipt, SlotStates
        <5> QED
          BY <2>1, <3>1, <5>1
      <4>4. WaveDone(p) => FALSE
        BY <2>1 DEF WaveDone, Receipts
      <4> QED
        BY <4>1, <4>2, <4>3, <4>4
    <3> QED
      BY <3>5, <3>6
  <2> QED
    BY <2>1
<1> QED
  BY <1>1, AlwaysUploadInv, PTL DEF Spec, ReceiptsKept

(* The upload implements the abstract acknowledgement ledger: initial      *)
(* states map to initial states, and every step to a ledger step or a      *)
(* stutter.                                                                *)
THEOREM Refinement == Spec => ImplementsLedger
<1>1. Init => Ledger!LedgerInit
  BY ManifestAssumption DEF Init, Ledger!LedgerInit, Committed
<1>2. UploadInv /\ [Next]_vars => [Ledger!LedgerNext]_(Ledger!ledgerVars)
  <2> SUFFICES ASSUME UploadInv, [Next]_vars
               PROVE  Ledger!LedgerNext \/ UNCHANGED Ledger!ledgerVars
    OBVIOUS
  <2> USE DEF Ledger!LedgerNext, Ledger!ledgerVars
  <2>0. job \in [Procs -> Job]
    BY DEF UploadInv, TypeOK
  <2>1. ASSUME NEW b \in SUBSET durable, durable' = durable,
               ledger' = ledger \/ ledger' = ledger \union {b}
        PROVE  Ledger!LedgerNext \/ UNCHANGED Ledger!ledgerVars
    <3>1. Committed' = Committed \/ Committed' = Committed \union b
      BY <2>1 DEF Committed
    <3> QED
      BY <2>1, <3>1 DEF Ledger!Acknowledge
  <2>2. ASSUME NEW S \in SUBSET Records, ledger' = ledger,
               durable' = durable \/ durable' = durable \union S
        PROVE  Ledger!LedgerNext \/ UNCHANGED Ledger!ledgerVars
    <3>1. Committed' = Committed
      BY <2>2 DEF Committed
    <3> QED
      BY <2>2, <3>1 DEF Ledger!WriteItems
  <2>3. ASSUME NEW p \in Procs, NEW o \in Outputs, Start(p, o)
        PROVE  Ledger!LedgerNext \/ UNCHANGED Ledger!ledgerVars
    BY <2>1, <2>3 DEF Start, remoteVars, UploadInv, LedgerSound
  <2>4. ASSUME NEW p \in Procs, NEW k \in Slots, CommitReceipt(p, k)
        PROVE  Ledger!LedgerNext \/ UNCHANGED Ledger!ledgerVars
    <3>1. job[p].wave[k].recs \subseteq durable
      BY <2>4 DEF CommitReceipt, Receipts, UploadInv, LedgerSound
    <3> QED
      BY <2>1, <2>4, <3>1 DEF CommitReceipt, remoteVars
  <2>5. ASSUME NEW p \in Procs, NEW k \in Slots,
               UpsertOk(p, k) \/ UpsertTransient(p, k) \/ UpsertFails(p, k)
        PROVE  Ledger!LedgerNext \/ UNCHANGED Ledger!ledgerVars
    <3>1. job[p].wave[k].recs \subseteq Records
      BY <2>0, SlotFacts
    <3> QED
      BY <2>2, <2>5, <3>1 DEF UpsertOk, UpsertTransient, UpsertFails, MayLand
  <2>6. ASSUME NEW p \in Procs, Die(p)
        PROVE  Ledger!LedgerNext \/ UNCHANGED Ledger!ledgerVars
    <3> PICK K \in SUBSET {k \in Slots : InFlight(p, k)} :
               durable' = durable \union UNION {job[p].wave[k].recs : k \in K}
      BY <2>6 DEF Die
    <3>1. UNION {job[p].wave[k].recs : k \in K} \subseteq Records
      BY <2>0, SlotFacts
    <3> QED
      BY <2>2, <2>6, <3>1 DEF Die
  <2>7. ASSUME NEW p \in Procs,
               \/ Preflight(p) \/ BeginWave(p) \/ WaveDone(p) \/ CountCommitted(p)
               \/ OpenReport(p) \/ WriteReport(p) \/ PreflightFails(p) \/ WriteFails(p)
        PROVE  durable' = durable /\ ledger' = ledger
    BY <2>7 DEF Preflight, BeginWave, WaveDone, CountCommitted, OpenReport, WriteReport,
                PreflightFails, WriteFails, remoteVars
  <2>8. Apply \/ FinalizeStep \/ UNCHANGED vars => durable' = durable /\ ledger' = ledger
    BY DEF Apply, FinalizeStep, StartFinalize, Readback, Activate, FinalizeFails, Poll, remoteVars, vars
  <2> QED
    BY <2>2, <2>3, <2>4, <2>5, <2>6, <2>7, <2>8 DEF Next, Launch, UploadStep, UploadFault
<1> QED
  BY <1>1, <1>2, AlwaysUploadInv, PTL DEF Spec, ImplementsLedger, Ledger!LedgerSpec
===============================================================================
