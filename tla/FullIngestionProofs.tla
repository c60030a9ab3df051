------------------------- MODULE FullIngestionProofs -------------------------
(***************************************************************************)
(* Proofs about FullIngestion for every corpus, set of batch sizes, window *)
(* width and fault bound.                                                  *)
(***************************************************************************)
EXTENDS FullIngestion, TLAPS

-----------------------------------------------------------------------------
(* The inductive invariant, in named parts.                                *)

\* The run works with the size the checkpoint recorded.
SizeAgrees ==
  /\ pc # "idle" => size \in Sizes /\ size = recordedSize
  /\ completed # {} => recordedSize \in Sizes /\ initialized

\* Until the index is settled the process still sees the checkpoint as it is,
\* and an index is only deleted or created while nothing is completed.
Preparing ==
  /\ pc \in {"check", "reset", "create", "mark"} => skip = completed
  /\ pc \in {"check", "reset", "create", "mark"} /\ fresh => completed = {}
  /\ pc = "reset" /\ completed # {} => indexExists
  /\ pc = "create" => completed = {}
  /\ pc \in {"mark", "fill", "flush", "count", "audit"} => indexExists
  /\ pc \in {"fill", "flush", "count", "audit"} => initialized

\* A window exists only while it is flushed; what it holds is neither ahead
\* nor completed, and what it reports as uploaded is in the index.
WindowSound ==
  /\ pc # "flush" => outcome = NoWindow
  /\ pc \in {"fill", "flush"} => ahead \intersect completed = {}
  /\ \A b \in Window : b \notin completed /\ b \notin ahead
  /\ \A b \in BatchIds : outcome[b] \in {"uploaded", "cleared"} =>
       BatchDocs(size, b) \subseteq points
  /\ \A b \in BatchIds : outcome[b] = "cleared" =>
       BatchDocs(size, b) \intersect failures = {}

\* No numbered batch is lost between the windows.
Accounted ==
  /\ pc = "fill" => NumberedBatches(size) \subseteq ahead \union completed
  /\ pc = "flush" /\ ~errors =>
       NumberedBatches(size) \subseteq ahead \union Window \union completed
  /\ pc \in {"count", "audit"} => NumberedBatches(size) \subseteq completed

IInv == /\ TypeOK
        /\ SizeAgrees
        /\ Preparing
        /\ WindowSound
        /\ Accounted
        /\ CompletedDurable
        /\ AuditExact

-----------------------------------------------------------------------------
(* Facts about the numbering of batches.                                   *)

(* Every document falls in a numbered batch. *)
LEMMA BatchOfDocument ==
  ASSUME NEW s \in Sizes, NEW d \in Docs
  PROVE  /\ BatchOf(s, d) \in NumberedBatches(s)
         /\ d \in BatchDocs(s, BatchOf(s, d))
<1>1. s \in Nat /\ s >= 1 /\ d \in Nat /\ d >= 1 /\ d <= NumDocs /\ NumDocs \in Nat
  BY SizesAssumption, NumDocsAssumption DEF Docs
<1>2. (d - 1) \div s \in Nat /\ (d - 1) \div s <= d - 1
  BY <1>1, Z3
<1>3. BatchOf(s, d) \in BatchIds
  BY <1>1, <1>2 DEF BatchOf, BatchIds
<1>4. d \in BatchDocs(s, BatchOf(s, d))
  BY DEF BatchDocs
<1> QED
  BY <1>3, <1>4 DEF NumberedBatches

(* Two batches of one size share no document. *)
LEMMA BatchesDisjoint ==
  ASSUME NEW s, NEW b, NEW c, b # c
  PROVE  BatchDocs(s, b) \intersect BatchDocs(s, c) = {}
BY DEF BatchDocs

LEMMA BatchDocsInDocs ==
  ASSUME NEW s, NEW b
  PROVE  BatchDocs(s, b) \subseteq Docs
BY DEF BatchDocs

(* Completing every numbered batch completes every document. *)
LEMMA AllBatchesAllDocs ==
  ASSUME recordedSize \in Sizes, NumberedBatches(recordedSize) \subseteq completed
  PROVE  CompletedDocs = Docs
<1>1. CompletedDocs \subseteq Docs
  BY BatchDocsInDocs DEF CompletedDocs
<1>2. ASSUME NEW d \in Docs PROVE d \in CompletedDocs
  <2>1. /\ BatchOf(recordedSize, d) \in completed
        /\ d \in BatchDocs(recordedSize, BatchOf(recordedSize, d))
    BY BatchOfDocument
  <2> QED
    BY <2>1 DEF CompletedDocs
<1> QED
  BY <1>1, <1>2

-----------------------------------------------------------------------------
(* The invariant holds initially. *)
THEOREM InitIInv == Init => IInv
<1> SUFFICES ASSUME Init PROVE IInv
  OBVIOUS
<1>1. TypeOK
  <2>1. points \subseteq Docs
    BY DEF Init
  <2>2. outcome \in [BatchIds ->
                       {"none", "inflight", "uploaded", "failed", "cleared"}]
    BY DEF Init, NoWindow
  <2>3. faults \in 0..MaxFaults
    BY MaxFaultsAssumption DEF Init
  <2> QED
    BY <2>1, <2>2, <2>3 DEF Init, TypeOK
<1>2. SizeAgrees /\ Preparing /\ WindowSound /\ Accounted
  BY DEF Init, SizeAgrees, Preparing, WindowSound, Accounted, NoWindow, Window, BatchIds
<1>3. CompletedDurable /\ AuditExact
  BY DEF Init, CompletedDurable, AuditExact, CompletedDocs
<1> QED
  BY <1>1, <1>2, <1>3 DEF IInv

-----------------------------------------------------------------------------
(* Every step keeps the invariant, one theorem per part.                   *)

(* Every step keeps the types. *)
THEOREM TypeStep ==
  TypeOK /\ [Next]_vars => TypeOK'
<1> SUFFICES ASSUME TypeOK, [Next]_vars
             PROVE  TypeOK'
  OBVIOUS
<1> USE DEF TypeOK, NoWindow
<1>1. CASE \E s \in Sizes : Start(s)
  BY <1>1 DEF Start, checkpointVars, remoteVars, runVars
<1>2. CASE CheckIndex
  BY <1>2 DEF CheckIndex, checkpointVars, remoteVars, runVars, Stopped
<1>3. CASE ResetIndex
  BY <1>3 DEF ResetIndex, checkpointVars, remoteVars, runVars
<1>4. CASE CreateIndex
  BY <1>4 DEF CreateIndex, checkpointVars, remoteVars, runVars
<1>5. CASE MarkInitialized
  BY <1>5 DEF MarkInitialized, checkpointVars, remoteVars, runVars, NumberedBatches
<1>6. CASE FillWindow
  BY <1>6 DEF FillWindow, checkpointVars, remoteVars, runVars
<1>7. CASE \E b \in BatchIds : UploadOk(b)
  BY <1>7, BatchDocsInDocs DEF UploadOk, checkpointVars, remoteVars, runVars
<1>8. CASE \E b \in BatchIds : RecordFailure(b)
  BY <1>8, BatchDocsInDocs DEF RecordFailure, checkpointVars, remoteVars, runVars, Settling
<1>9. CASE \E b \in BatchIds : FailureRecorded(b)
  BY <1>9 DEF FailureRecorded, checkpointVars, remoteVars, runVars, Settling
<1>10. CASE \E b \in BatchIds : ClearFailures(b)
  BY <1>10 DEF ClearFailures, checkpointVars, remoteVars, runVars, Settling
<1>11. CASE \E b \in BatchIds : MarkCompleted(b)
  BY <1>11 DEF MarkCompleted, checkpointVars, remoteVars, runVars, Settling
<1>12. CASE FlushDone
  BY <1>12 DEF FlushDone, checkpointVars, remoteVars, runVars, Stopped
<1>13. CASE AllFlushed
  BY <1>13 DEF AllFlushed, checkpointVars, remoteVars, runVars
<1>14. CASE AwaitCount
  BY <1>14 DEF AwaitCount, checkpointVars, remoteVars, runVars, Stopped
<1>15. CASE WriteReport
  BY <1>15 DEF WriteReport, checkpointVars, remoteVars, runVars, Stopped
<1>16. CASE \E b \in BatchIds : UploadFail(b)
  BY <1>16, BatchDocsInDocs, MaxFaultsAssumption DEF UploadFail, checkpointVars, remoteVars, runVars
<1>17. CASE Die
  <2>1. points' \subseteq Docs
    BY <1>17, BatchDocsInDocs DEF Die
  <2>2. faults' \in 0..MaxFaults
    BY <1>17, MaxFaultsAssumption DEF Die
  <2> QED
    BY <1>17, <2>1, <2>2 DEF Die, checkpointVars, Stopped
<1>18. CASE IndexVanishes
  <2>1. faults' \in 0..MaxFaults
    BY <1>18, MaxFaultsAssumption DEF IndexVanishes
  <2> QED
    BY <1>18, <2>1 DEF IndexVanishes, checkpointVars, runVars
<1>19. CASE UNCHANGED vars
  BY <1>19 DEF vars, checkpointVars, remoteVars, runVars
<1> QED
  BY <1>1, <1>2, <1>3, <1>4, <1>5, <1>6, <1>7, <1>8, <1>9, <1>10, <1>11, <1>12, <1>13, <1>14, <1>15, <1>16, <1>17, <1>18, <1>19
  DEF Next, RunStep, BatchStep, Fault

(* Every step keeps the run at the recorded batch size. *)
THEOREM SizeStep ==
  TypeOK /\ SizeAgrees /\ Preparing /\ [Next]_vars => SizeAgrees'
<1> SUFFICES ASSUME TypeOK /\ SizeAgrees /\ Preparing, [Next]_vars
             PROVE  SizeAgrees'
  OBVIOUS
<1> USE DEF TypeOK, SizeAgrees, Preparing
<1>1. CASE \E s \in Sizes : Start(s)
  BY <1>1 DEF Start, checkpointVars, remoteVars, runVars
<1>2. CASE CheckIndex
  BY <1>2 DEF CheckIndex, checkpointVars, remoteVars, runVars, Stopped
<1>3. CASE ResetIndex
  BY <1>3 DEF ResetIndex, checkpointVars, remoteVars, runVars
<1>4. CASE CreateIndex
  BY <1>4 DEF CreateIndex, checkpointVars, remoteVars, runVars
<1>5. CASE MarkInitialized
  BY <1>5 DEF MarkInitialized, checkpointVars, remoteVars, runVars
<1>6. CASE FillWindow
  BY <1>6 DEF FillWindow, checkpointVars, remoteVars, runVars
<1>7. CASE \E b \in BatchIds : UploadOk(b)
  BY <1>7 DEF UploadOk, checkpointVars, remoteVars, runVars
<1>8. CASE \E b \in BatchIds : RecordFailure(b)
  BY <1>8 DEF RecordFailure, checkpointVars, remoteVars, runVars, Settling
<1>9. CASE \E b \in BatchIds : FailureRecorded(b)
  BY <1>9 DEF FailureRecorded, checkpointVars, remoteVars, runVars, Settling
<1>10. CASE \E b \in BatchIds : ClearFailures(b)
  BY <1>10 DEF ClearFailures, checkpointVars, remoteVars, runVars, Settling
<1>11. CASE \E b \in BatchIds : MarkCompleted(b)
  BY <1>11 DEF MarkCompleted, checkpointVars, remoteVars, runVars, Settling
<1>12. CASE FlushDone
  BY <1>12 DEF FlushDone, checkpointVars, remoteVars, runVars, Stopped
<1>13. CASE AllFlushed
  BY <1>13 DEF AllFlushed, checkpointVars, remoteVars, runVars
<1>14. CASE AwaitCount
  BY <1>14 DEF AwaitCount, checkpointVars, remoteVars, runVars, Stopped
<1>15. CASE WriteReport
  BY <1>15 DEF WriteReport, checkpointVars, remoteVars, runVars, Stopped
<1>16. CASE \E b \in BatchIds : UploadFail(b)
  BY <1>16 DEF UploadFail, checkpointVars, remoteVars, runVars
<1>17. CASE Die
  BY <1>17 DEF Die, checkpointVars, remoteVars, runVars, Stopped
<1>18. CASE IndexVanishes
  BY <1>18 DEF IndexVanishes, checkpointVars, remoteVars, runVars
<1>19. CASE UNCHANGED vars
  BY <1>19 DEF vars, checkpointVars, remoteVars, runVars
<1> QED
  BY <1>1, <1>2, <1>3, <1>4, <1>5, <1>6, <1>7, <1>8, <1>9, <1>10, <1>11, <1>12, <1>13, <1>14, <1>15, <1>16, <1>17, <1>18, <1>19
  DEF Next, RunStep, BatchStep, Fault

(* Every step keeps the index under the completed batches. *)
THEOREM PreparingStep ==
  TypeOK /\ SizeAgrees /\ Preparing /\ [Next]_vars => Preparing'
<1> SUFFICES ASSUME TypeOK /\ SizeAgrees /\ Preparing, [Next]_vars
             PROVE  Preparing'
  OBVIOUS
<1> USE DEF TypeOK, SizeAgrees, Preparing
<1>1. CASE \E s \in Sizes : Start(s)
  BY <1>1 DEF Start, checkpointVars, remoteVars, runVars
<1>2. CASE CheckIndex
  BY <1>2 DEF CheckIndex, checkpointVars, remoteVars, runVars, Stopped
<1>3. CASE ResetIndex
  BY <1>3 DEF ResetIndex, checkpointVars, remoteVars, runVars
<1>4. CASE CreateIndex
  BY <1>4 DEF CreateIndex, checkpointVars, remoteVars, runVars
<1>5. CASE MarkInitialized
  BY <1>5 DEF MarkInitialized, checkpointVars, remoteVars, runVars
<1>6. CASE FillWindow
  BY <1>6 DEF FillWindow, checkpointVars, remoteVars, runVars
<1>7. CASE \E b \in BatchIds : UploadOk(b)
  BY <1>7 DEF UploadOk, checkpointVars, remoteVars, runVars
<1>8. CASE \E b \in BatchIds : RecordFailure(b)
  BY <1>8 DEF RecordFailure, checkpointVars, remoteVars, runVars, Settling
<1>9. CASE \E b \in BatchIds : FailureRecorded(b)
  BY <1>9 DEF FailureRecorded, checkpointVars, remoteVars, runVars, Settling
<1>10. CASE \E b \in BatchIds : ClearFailures(b)
  BY <1>10 DEF ClearFailures, checkpointVars, remoteVars, runVars, Settling
<1>11. CASE \E b \in BatchIds : MarkCompleted(b)
  BY <1>11 DEF MarkCompleted, checkpointVars, remoteVars, runVars, Settling
<1>12. CASE FlushDone
  BY <1>12 DEF FlushDone, checkpointVars, remoteVars, runVars, Stopped
<1>13. CASE AllFlushed
  BY <1>13 DEF AllFlushed, checkpointVars, remoteVars, runVars
<1>14. CASE AwaitCount
  BY <1>14 DEF AwaitCount, checkpointVars, remoteVars, runVars, Stopped
<1>15. CASE WriteReport
  BY <1>15 DEF WriteReport, checkpointVars, remoteVars, runVars, Stopped
<1>16. CASE \E b \in BatchIds : UploadFail(b)
  BY <1>16 DEF UploadFail, checkpointVars, remoteVars, runVars
<1>17. CASE Die
  BY <1>17 DEF Die, checkpointVars, remoteVars, runVars, Stopped
<1>18. CASE IndexVanishes
  BY <1>18 DEF IndexVanishes, checkpointVars, remoteVars, runVars
<1>19. CASE UNCHANGED vars
  BY <1>19 DEF vars, checkpointVars, remoteVars, runVars
<1> QED
  BY <1>1, <1>2, <1>3, <1>4, <1>5, <1>6, <1>7, <1>8, <1>9, <1>10, <1>11, <1>12, <1>13, <1>14, <1>15, <1>16, <1>17, <1>18, <1>19
  DEF Next, RunStep, BatchStep, Fault

(* Every step keeps the window's outcomes honest. *)
THEOREM WindowStep ==
  TypeOK /\ SizeAgrees /\ Preparing /\ WindowSound /\ [Next]_vars => WindowSound'
<1> SUFFICES ASSUME TypeOK /\ SizeAgrees /\ Preparing /\ WindowSound, [Next]_vars
             PROVE  WindowSound'
  OBVIOUS
<1> USE DEF TypeOK, SizeAgrees, Preparing, WindowSound, NoWindow, Window, InFlight
<1>1. CASE \E s \in Sizes : Start(s)
  BY <1>1 DEF Start, checkpointVars, remoteVars, runVars
<1>2. CASE CheckIndex
  BY <1>2 DEF CheckIndex, checkpointVars, remoteVars, runVars, Stopped
<1>3. CASE ResetIndex
  BY <1>3 DEF ResetIndex, checkpointVars, remoteVars, runVars
<1>4. CASE CreateIndex
  BY <1>4 DEF CreateIndex, checkpointVars, remoteVars, runVars
<1>5. CASE MarkInitialized
  BY <1>5 DEF MarkInitialized, checkpointVars, remoteVars, runVars
<1>6. CASE FillWindow
  BY <1>6 DEF FillWindow, checkpointVars, remoteVars, runVars
<1>7. CASE \E b \in BatchIds : UploadOk(b)
  BY <1>7 DEF UploadOk, checkpointVars, remoteVars, runVars
<1>8. CASE \E b \in BatchIds : RecordFailure(b)
  BY <1>8, BatchesDisjoint DEF RecordFailure, checkpointVars, remoteVars, runVars, Settling
<1>9. CASE \E b \in BatchIds : FailureRecorded(b)
  BY <1>9 DEF FailureRecorded, checkpointVars, remoteVars, runVars, Settling
<1>10. CASE \E b \in BatchIds : ClearFailures(b)
  BY <1>10 DEF ClearFailures, checkpointVars, remoteVars, runVars, Settling
<1>11. CASE \E b \in BatchIds : MarkCompleted(b)
  BY <1>11 DEF MarkCompleted, checkpointVars, remoteVars, runVars, Settling
<1>12. CASE FlushDone
  BY <1>12 DEF FlushDone, checkpointVars, remoteVars, runVars, Stopped
<1>13. CASE AllFlushed
  BY <1>13 DEF AllFlushed, checkpointVars, remoteVars, runVars
<1>14. CASE AwaitCount
  BY <1>14 DEF AwaitCount, checkpointVars, remoteVars, runVars, Stopped
<1>15. CASE WriteReport
  BY <1>15 DEF WriteReport, checkpointVars, remoteVars, runVars, Stopped
<1>16. CASE \E b \in BatchIds : UploadFail(b)
  BY <1>16 DEF UploadFail, checkpointVars, remoteVars, runVars
<1>17. CASE Die
  BY <1>17 DEF Die, checkpointVars, remoteVars, runVars, Stopped
<1>18. CASE IndexVanishes
  BY <1>18 DEF IndexVanishes, checkpointVars, remoteVars, runVars
<1>19. CASE UNCHANGED vars
  BY <1>19 DEF vars, checkpointVars, remoteVars, runVars
<1> QED
  BY <1>1, <1>2, <1>3, <1>4, <1>5, <1>6, <1>7, <1>8, <1>9, <1>10, <1>11, <1>12, <1>13, <1>14, <1>15, <1>16, <1>17, <1>18, <1>19
  DEF Next, RunStep, BatchStep, Fault

(* Every step keeps every numbered batch in one of its places. *)
THEOREM AccountedStep ==
  TypeOK /\ SizeAgrees /\ Preparing /\ WindowSound /\ Accounted /\ [Next]_vars => Accounted'
<1> SUFFICES ASSUME TypeOK /\ SizeAgrees /\ Preparing /\ WindowSound /\ Accounted, [Next]_vars
             PROVE  Accounted'
  OBVIOUS
<1> USE DEF TypeOK, SizeAgrees, Preparing, WindowSound, Accounted, NoWindow, Window
<1>1. CASE \E s \in Sizes : Start(s)
  BY <1>1 DEF Start, checkpointVars, remoteVars, runVars
<1>2. CASE CheckIndex
  BY <1>2 DEF CheckIndex, checkpointVars, remoteVars, runVars, Stopped
<1>3. CASE ResetIndex
  BY <1>3 DEF ResetIndex, checkpointVars, remoteVars, runVars
<1>4. CASE CreateIndex
  BY <1>4 DEF CreateIndex, checkpointVars, remoteVars, runVars
<1>5. CASE MarkInitialized
  BY <1>5 DEF MarkInitialized, checkpointVars, remoteVars, runVars
<1>6. CASE FillWindow
  BY <1>6 DEF FillWindow, checkpointVars, remoteVars, runVars
<1>7. CASE \E b \in BatchIds : UploadOk(b)
  BY <1>7 DEF UploadOk, checkpointVars, remoteVars, runVars
<1>8. CASE \E b \in BatchIds : RecordFailure(b)
  BY <1>8 DEF RecordFailure, checkpointVars, remoteVars, runVars, Settling
<1>9. CASE \E b \in BatchIds : FailureRecorded(b)
  BY <1>9 DEF FailureRecorded, checkpointVars, remoteVars, runVars, Settling
<1>10. CASE \E b \in BatchIds : ClearFailures(b)
  BY <1>10 DEF ClearFailures, checkpointVars, remoteVars, runVars, Settling
<1>11. CASE \E b \in BatchIds : MarkCompleted(b)
  BY <1>11 DEF MarkCompleted, checkpointVars, remoteVars, runVars, Settling
<1>12. CASE FlushDone
  BY <1>12 DEF FlushDone, checkpointVars, remoteVars, runVars, Stopped
<1>13. CASE AllFlushed
  BY <1>13 DEF AllFlushed, checkpointVars, remoteVars, runVars
<1>14. CASE AwaitCount
  BY <1>14 DEF AwaitCount, checkpointVars, remoteVars, runVars, Stopped
<1>15. CASE WriteReport
  BY <1>15 DEF WriteReport, checkpointVars, remoteVars, runVars, Stopped
<1>16. CASE \E b \in BatchIds : UploadFail(b)
  BY <1>16 DEF UploadFail, checkpointVars, remoteVars, runVars
<1>17. CASE Die
  BY <1>17 DEF Die, checkpointVars, remoteVars, runVars, Stopped
<1>18. CASE IndexVanishes
  BY <1>18 DEF IndexVanishes, checkpointVars, remoteVars, runVars
<1>19. CASE UNCHANGED vars
  BY <1>19 DEF vars, checkpointVars, remoteVars, runVars
<1> QED
  BY <1>1, <1>2, <1>3, <1>4, <1>5, <1>6, <1>7, <1>8, <1>9, <1>10, <1>11, <1>12, <1>13, <1>14, <1>15, <1>16, <1>17, <1>18, <1>19
  DEF Next, RunStep, BatchStep, Fault

(* The set of completed documents changes only when a batch completes. *)
LEMMA CompletedDocsSteps ==
  ASSUME TypeOK, SizeAgrees, [Next]_vars
  PROVE  \/ CompletedDocs' = CompletedDocs /\ completed' = completed
         \/ \E b \in BatchIds :
              /\ MarkCompleted(b)
              /\ CompletedDocs' = CompletedDocs \union BatchDocs(size, b)
<1>1. CASE completed' = completed /\ recordedSize' = recordedSize
  BY <1>1 DEF CompletedDocs
<1>2. CASE \E s \in Sizes : Start(s)
  BY <1>2 DEF Start, CompletedDocs
<1>3. ASSUME NEW b \in BatchIds, MarkCompleted(b)
      PROVE  CompletedDocs' = CompletedDocs \union BatchDocs(size, b)
  <2>1. recordedSize' = recordedSize /\ size = recordedSize
    BY <1>3 DEF MarkCompleted, Settling, SizeAgrees
  <2>2. completed' = completed \union {b}
    BY <1>3 DEF MarkCompleted
  <2> QED
    BY <2>1, <2>2 DEF CompletedDocs
<1> QED
  BY <1>1, <1>2, <1>3
  DEF Next, RunStep, BatchStep, Fault, CheckIndex, ResetIndex, CreateIndex,
      MarkInitialized, FillWindow, UploadOk, RecordFailure, FailureRecorded,
      ClearFailures, FlushDone, AllFlushed, AwaitCount, WriteReport,
      UploadFail, Die, IndexVanishes, Stopped, vars, checkpointVars

(* Points leave the index only when it is deleted or created empty. *)
LEMMA PointsSteps ==
  ASSUME Preparing, [Next]_vars
  PROVE  \/ points \subseteq points' /\ indexExists' = indexExists
         \/ ~indexExists'
         \/ completed = {} /\ completed' = {}
BY DEF Preparing, Next, RunStep, BatchStep, Fault, Start, CheckIndex, ResetIndex, CreateIndex,
      MarkInitialized, FillWindow, UploadOk, RecordFailure, FailureRecorded,
      ClearFailures, MarkCompleted, FlushDone, AllFlushed, AwaitCount, WriteReport,
      UploadFail, Die, IndexVanishes, Stopped, vars, checkpointVars, remoteVars

(* Every step keeps completed batches in the index. *)
THEOREM DurableStep ==
  TypeOK /\ SizeAgrees /\ Preparing /\ WindowSound /\ CompletedDurable /\ [Next]_vars
    => CompletedDurable'
<1> SUFFICES ASSUME TypeOK, SizeAgrees, Preparing, WindowSound,
                    CompletedDurable, [Next]_vars
             PROVE  CompletedDurable'
  OBVIOUS
<1>1. CASE CompletedDocs' = CompletedDocs /\ completed' = completed
  <2>1. CASE completed = {}
    BY <1>1, <2>1 DEF CompletedDocs, CompletedDurable
  <2>2. CASE completed # {}
    BY <1>1, <2>2, PointsSteps DEF CompletedDurable
  <2> QED
    BY <2>1, <2>2
<1>2. ASSUME NEW b \in BatchIds, MarkCompleted(b),
             CompletedDocs' = CompletedDocs \union BatchDocs(size, b)
      PROVE  CompletedDurable'
  <2>1. BatchDocs(size, b) \subseteq points
    BY <1>2 DEF MarkCompleted, WindowSound
  <2> QED
    BY <1>2, <2>1 DEF MarkCompleted, remoteVars, CompletedDurable
<1> QED
  BY <1>1, <1>2, CompletedDocsSteps

(* Every step keeps audited failures apart from completed documents. *)
THEOREM AuditStep ==
  TypeOK /\ SizeAgrees /\ WindowSound /\ AuditExact /\ [Next]_vars => AuditExact'
<1> SUFFICES ASSUME TypeOK, SizeAgrees, WindowSound, AuditExact, [Next]_vars
             PROVE  AuditExact'
  OBVIOUS
<1>1. CASE \E b \in BatchIds : RecordFailure(b)
  <2> PICK b \in BatchIds : RecordFailure(b)
    BY <1>1
  <2>1. CompletedDocs' = CompletedDocs
    BY DEF RecordFailure, CompletedDocs
  <2>2. b \notin completed /\ (completed # {} => size = recordedSize)
    BY DEF RecordFailure, Settling, WindowSound, SizeAgrees
  <2>3. BatchDocs(size, b) \intersect CompletedDocs = {}
    BY <2>2, BatchesDisjoint DEF CompletedDocs
  <2> QED
    BY <2>1, <2>3 DEF RecordFailure, AuditExact
<1>2. CASE \E b \in BatchIds : MarkCompleted(b)
  <2> PICK b \in BatchIds : MarkCompleted(b)
    BY <1>2
  <2>1. BatchDocs(size, b) \intersect failures = {}
    BY DEF MarkCompleted, Settling, WindowSound
  <2>2. CompletedDocs' = CompletedDocs \union BatchDocs(size, b)
    BY DEF MarkCompleted, Settling, SizeAgrees, CompletedDocs
  <2> QED
    BY <2>1, <2>2 DEF MarkCompleted, AuditExact
<1>3. CASE /\ CompletedDocs' = CompletedDocs
           /\ failures' \subseteq failures
  BY <1>3 DEF AuditExact
<1>4. \/ \E b \in BatchIds : RecordFailure(b)
      \/ failures' \subseteq failures
  BY DEF Next, RunStep, BatchStep, Fault, Start, CheckIndex, ResetIndex, CreateIndex,
      MarkInitialized, FillWindow, UploadOk, FailureRecorded,
      ClearFailures, MarkCompleted, FlushDone, AllFlushed, AwaitCount, WriteReport,
      UploadFail, Die, IndexVanishes, Stopped, vars, checkpointVars
<1> QED
  BY <1>1, <1>2, <1>3, <1>4, CompletedDocsSteps

-----------------------------------------------------------------------------
(* The invariant is inductive. *)
THEOREM StepIInv == IInv /\ [Next]_vars => IInv'
BY TypeStep, SizeStep, PreparingStep, WindowStep, AccountedStep, DurableStep, AuditStep
DEF IInv

THEOREM AlwaysIInv == Spec => []IInv
BY InitIInv, StepIInv, PTL DEF Spec

(* The checkpoint, the index and the locals of a run keep their types. *)
THEOREM TypeCorrect == Spec => []TypeOK
BY AlwaysIInv, PTL DEF IInv

(* However runs are cut, failed and resumed, a batch that a resumed run    *)
(* skips is in the index, as long as the index exists.                     *)
THEOREM Durability == Spec => []CompletedDurable
BY AlwaysIInv, PTL DEF IInv

(* No completed document is also audited as failed. *)
THEOREM AuditExactness == Spec => []AuditExact
BY AlwaysIInv, PTL DEF IInv

(* A report is written only over a complete index and a complete ledger. *)
THEOREM ReportSoundness == Spec => ReportSound
<1>1. IInv /\ [Next]_vars =>
        (~reported /\ reported' =>
           points = Docs /\ CompletedDocs = Docs /\ failures = {})
  <2> SUFFICES ASSUME IInv, [Next]_vars, ~reported, reported'
               PROVE  points = Docs /\ CompletedDocs = Docs /\ failures = {}
    OBVIOUS
  <2>1. WriteReport
    BY DEF Next, RunStep, BatchStep, Fault, Start, CheckIndex, ResetIndex, CreateIndex,
      MarkInitialized, FillWindow, UploadOk, RecordFailure, FailureRecorded,
      ClearFailures, MarkCompleted, FlushDone, AllFlushed, AwaitCount,
      UploadFail, Die, IndexVanishes, Stopped, vars, checkpointVars
  <2>2. pc = "audit" /\ failures = {}
    BY <2>1 DEF WriteReport, IInv, TypeOK
  <2>3. recordedSize \in Sizes /\ NumberedBatches(recordedSize) \subseteq completed
    BY <2>2 DEF IInv, SizeAgrees, Accounted
  <2>4. CompletedDocs = Docs
    BY <2>3, AllBatchesAllDocs
  <2>5. points = Docs
    BY <2>2, <2>4 DEF IInv, TypeOK, Preparing, CompletedDurable
  <2> QED
    BY <2>2, <2>4, <2>5
<1> QED
  BY <1>1, AlwaysIInv, PTL DEF Spec, ReportSound

(* run_full implements the abstract acknowledgement ledger: initial states *)
(* map to initial states, and every step to a ledger step or a stutter.    *)
THEOREM Refinement == Spec => ImplementsLedger
<1>1. Init => Ledger!LedgerInit
  BY DEF Init, Ledger!LedgerInit, CompletedDocs
<1>2. IInv /\ [Next]_vars => [Ledger!LedgerNext]_(Ledger!ledgerVars)
  <2> SUFFICES ASSUME IInv, [Next]_vars
               PROVE  Ledger!LedgerNext \/ UNCHANGED Ledger!ledgerVars
    OBVIOUS
  <2> USE DEF Ledger!LedgerNext, Ledger!ledgerVars
  <2>1. CASE \E b \in BatchIds : MarkCompleted(b)
    <3> PICK b \in BatchIds : MarkCompleted(b)
      BY <2>1
    <3>1. CompletedDocs' = CompletedDocs \union BatchDocs(size, b)
      BY DEF MarkCompleted, Settling, IInv, SizeAgrees, CompletedDocs
    <3>2. BatchDocs(size, b) \subseteq points /\ indexExists
      BY DEF MarkCompleted, Settling, IInv, WindowSound, Preparing
    <3>3. Ledger!Acknowledge
      BY <3>1, <3>2 DEF MarkCompleted, remoteVars, Ledger!Acknowledge
    <3> QED
      BY <3>3
  <2>2. CASE CompletedDocs' = CompletedDocs /\ completed' = completed
    <3>1. CASE CreateIndex
      <4>1. CompletedDocs = {}
        BY <3>1 DEF CreateIndex, IInv, Preparing, CompletedDocs
      <4>2. Ledger!CreateTarget
        BY <2>2, <3>1, <4>1 DEF CreateIndex, Ledger!CreateTarget
      <4> QED
        BY <4>2
    <3>2. CASE indexExists' = FALSE /\ points' = {}
      BY <2>2, <3>2 DEF Ledger!LoseTarget
    <3>3. CASE UNCHANGED <<points, indexExists>>
      BY <2>2, <3>3
    <3>4. ASSUME indexExists, indexExists' = indexExists,
                 NEW S \in SUBSET Docs, points' = points \union S
          PROVE  Ledger!WriteItems
      BY <2>2, <3>4 DEF Ledger!WriteItems
    <3>5. CASE \E b \in BatchIds : UploadOk(b) \/ UploadFail(b)
      <4> PICK b \in BatchIds : UploadOk(b) \/ UploadFail(b)
        BY <3>5
      <4>1. indexExists /\ indexExists' = indexExists
        BY DEF UploadOk, UploadFail, IInv, Preparing
      <4>2. PICK S \in SUBSET BatchDocs(size, b) : points' = points \union S
        BY DEF UploadOk, UploadFail
      <4> QED
        BY <3>4, <4>1, <4>2, BatchDocsInDocs
    <3>6. CASE Die
      <4>1. PICK S \in SUBSET UNION {BatchDocs(size, b) : b \in InFlight} :
              points' = points \union S
        BY <3>6 DEF Die
      <4>2. S \subseteq Docs
        BY <4>1, BatchDocsInDocs
      <4>3. CASE indexExists
        BY <3>4, <3>6, <4>1, <4>2, <4>3 DEF Die
      <4>4. CASE ~indexExists
        <5>1. InFlight = {}
          BY <4>4 DEF IInv, TypeOK, Preparing, WindowSound, InFlight, NoWindow
        <5>2. points' = points
          BY <4>1, <5>1
        <5> QED
          BY <2>2, <3>6, <5>2 DEF Die
      <4> QED
        BY <4>3, <4>4
    <3> QED
      BY <2>1, <3>1, <3>2, <3>3, <3>5, <3>6
      DEF Next, RunStep, BatchStep, Fault, Start, CheckIndex, ResetIndex,
          MarkInitialized, FillWindow, RecordFailure, FailureRecorded,
          ClearFailures, MarkCompleted, FlushDone, AllFlushed, AwaitCount, WriteReport,
          IndexVanishes, Stopped, vars, checkpointVars, remoteVars
  <2> QED
    BY <2>1, <2>2, CompletedDocsSteps DEF IInv
<1> QED
  BY <1>1, <1>2, AlwaysIInv, PTL DEF Spec, ImplementsLedger, Ledger!LedgerSpec
=============================================================================
