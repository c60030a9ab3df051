---------------------------- MODULE OfflineProofs -----------------------------
(***************************************************************************)
(* That what the offline work reports is right, for any number of          *)
(* operators and processes.                                                *)
(*                                                                         *)
(* A receipt of the pilots' chain which finalize or verify passed vouches  *)
(* for exactly the records of its plan: a count says nothing by itself; it *)
(* does because every receipt of the chain stands for points that Qdrant   *)
(* has accepted and keeps, so that a complete upload and an equal count    *)
(* leave room for no other point, once all of it is applied. Before that,  *)
(* a point that makes up the number is of a plan that was adopted too: all *)
(* that was ever accepted is a record of such a plan.                      *)
(*                                                                         *)
(* A report of the golden suite answers for itself, whoever shares its     *)
(* checkpoint: the file may hold anyone's rows, old or new, whole or none; *)
(* what makes the report right is that every row carries the fingerprint   *)
(* it was evaluated under, and that the fingerprint contains the questions.*)
(*                                                                         *)
(* An answer is judged on evidence that passed the gate, because a run     *)
(* which others are bound to is over: its rows, from which the gate is     *)
(* computed, change no more, whoever edits the datasets meanwhile.  That it*)
(* passed says that every gold document was found: a ratio of two sums is  *)
(* 1 only if each of its terms is, as long as rounding hides none.         *)
(*                                                                         *)
(* A label of gold evidence changes only as a reviewer decided: queues and *)
(* sidecars are written once, and a preview built again for a promotion is *)
(* of the sidecar its queue was made for.                                  *)
(*                                                                         *)
(* A checkpoint of the Vertex migration lists what the collection holds,   *)
(* in a model that some checkpoint is bound to, since a record is listed   *)
(* after the points of its batch are there and only a deletion of the      *)
(* collection removes points.                                              *)
(*                                                                         *)
(* A report of that migration leaves out nothing it planned. What a command*)
(* has planned is listed or still pending, at every step; the plan itself  *)
(* and the choice of documents behind it are made position by position, so *)
(* they are right by induction over the positions: after every offer the   *)
(* sample holds what was offered so far, which makes the choice balanced.  *)
(*                                                                         *)
(* The measures of an evaluation mean what their names say. lcs_length is  *)
(* the length of a longest common subsequence, because each entry of dp is *)
(* that of two beginnings; the nesting of the levels and of the kinds of a *)
(* match gives the rest.                                                   *)
(***************************************************************************)
EXTENDS EvaluationRuns, EvaluationSuite, EvaluationMetrics, PilotChain, GoldAdjudication,
        VertexMigration, FiniteSetTheorems, SequenceTheorems, TLAPS

-----------------------------------------------------------------------------
(* The receipts of the pilots                                              *)

\* What the receipts of the chain stand for.
ProbedHeld ==
  \A p \in Plans : Has(p, "probe", "pass") => ProbeOf[p] \subseteq collection.accepted
CommittedHeld == \A p \in Plans : committed[p] \subseteq collection.accepted
CompleteHeld ==
  \A p \in Plans : Has(p, "upload", "complete") => CorpusOf[p] \subseteq collection.accepted
PassedHeld ==
  \A r \in receipts : r.kind \in {"finalize", "verify"} /\ r.status = "pass" => Vouches(r)

\* What is applied was accepted; what was accepted is of a plan that adopted the
\* collection.
AppliedAccepted == collection.points \subseteq collection.accepted
AcceptedAdopted ==
  \A e \in collection.accepted : \E q \in Plans : Has(q, "create", "ok") /\ e \in CorpusOf[q]

\* A command was let in by the receipts before it, and has seen what it will
\* write down.
CommandBound(c) ==
  /\ c.name # "none" => c.plan \in Plans
  /\ c.name = "probe" => Has(c.plan, "create", "ok")
  /\ c.name = "upload" => Probed(c.plan)
  /\ c.name \in {"finalize", "verify"} => Chained(c.plan)
  /\ c.stage \in {"sample", "passed"} =>
       c.name \in {"finalize", "verify"} /\ Vouches(c)
CommandsBound == \A o \in Operators : CommandBound(command[o])

ChainInv == /\ PilotTypeOK /\ ProbedHeld /\ CommittedHeld /\ CompleteHeld /\ PassedHeld
            /\ CommandsBound /\ AppliedAccepted /\ AcceptedAdopted

-----------------------------------------------------------------------------
\* A collection that counts as many points as the plan has records, all of them
\* accepted, holds those and no other; or it is behind, and a point of another plan
\* makes up the number.
LEMMA CountedVouches ==
  ASSUME ChainInv, NEW p \in Plans, Counted(p), CorpusOf[p] \subseteq collection.accepted,
         collection.points # CorpusOf[p]
  PROVE  /\ collection.points # collection.accepted
         /\ collection.points \intersect Foreign(p) # {}
<1>1. PICK held, all : held = collection.points /\ all = CorpusOf[p]
  OBVIOUS
<1>2. IsFiniteSet(Records) /\ held \subseteq Records /\ all \subseteq Records /\ held # all
  BY <1>1, PilotAssumption DEF ChainInv, PilotTypeOK
<1>3. IsFiniteSet(held) /\ IsFiniteSet(all)
  BY <1>2, FS_Subset
<1>4. Cardinality(all) = Cardinality(held)
  BY <1>1 DEF Counted, N
\* Of two sets with one cardinality neither is part of the other.
<1>5. ~(all \subseteq held) /\ ~(held \subseteq all)
  <2>1. ASSUME all \subseteq held PROVE FALSE
    BY <1>2, <1>3, <1>4, <2>1, FS_Subset
  <2>2. ASSUME held \subseteq all PROVE FALSE
    BY <1>2, <1>3, <1>4, <2>2, FS_Subset
  <2> QED
    BY <2>1, <2>2
<1>6. PICK e \in held : e \notin all
  BY <1>5
<1>7. PICK q \in Plans : Has(q, "create", "ok") /\ e \in CorpusOf[q]
  BY <1>1, <1>6 DEF ChainInv, AppliedAccepted, AcceptedAdopted
<1>8. e \in Foreign(p)
  BY <1>1, <1>2, <1>6, <1>7 DEF Foreign
<1> QED
  BY <1>1, <1>5, <1>6, <1>8

\* A step of an operator applies no point; what it upserts is its plan's, and it
\* was let in by a plan that adopted the collection.
LEMMA CollectionStep ==
  ASSUME PilotTypeOK, CommandsBound, NEW o \in Operators, PilotStep(o)
  PROVE  /\ collection'.points = collection.points
         /\ collection.accepted \subseteq collection'.accepted
         /\ \/ collection'.accepted = collection.accepted
            \/ /\ command[o].plan \in Plans /\ Has(command[o].plan, "create", "ok")
               /\ collection'.accepted \subseteq collection.accepted \union CorpusOf[command[o].plan]
<1> DEFINE p == command[o].plan
<1>1. CommandBound(command[o])
  BY DEF CommandsBound
<1>2. ASSUME NEW b, b \subseteq CorpusOf[p], Upsert(b), command[o].name \in {"probe", "upload"}
      PROVE  /\ collection'.points = collection.points
             /\ collection.accepted \subseteq collection'.accepted
             /\ p \in Plans /\ Has(p, "create", "ok")
             /\ collection'.accepted \subseteq collection.accepted \union CorpusOf[p]
  <2>1. p \in Plans /\ Has(p, "create", "ok")
    BY <1>1, <1>2 DEF CommandBound, Probed
  <2>2. /\ collection'.points = collection.points
        /\ collection'.accepted = collection.accepted \union b
    BY <1>2 DEF Upsert, PilotTypeOK
  <2> QED
    BY <1>2, <2>1, <2>2
<1>3. p \in Plans => ProbeOf[p] \subseteq CorpusOf[p]
  BY PilotAssumption
<1>4. CASE Create(o) \/ CreateIndexes(o) \/ Adopt(o) \/ ReadCreated(o)
  BY <1>4 DEF Create, CreateIndexes, Adopt, ReadCreated, PilotTypeOK
<1>5. CASE UpsertProbe(o)
  <2>1. command[o].name = "probe" /\ p \in Plans
    BY <1>1, <1>5 DEF UpsertProbe, At, CommandBound
  <2>2. \/ UNCHANGED collection
        \/ \E b \in SUBSET ProbeOf[p] : Upsert(b)
    BY <1>5 DEF UpsertProbe
  <2> QED
    BY <1>2, <1>3, <2>1, <2>2
<1>6. CASE Preflight(o)
  <2>1. command[o].name = "upload" /\ p \in Plans
    BY <1>1, <1>6 DEF Preflight, At, CommandBound
  <2>2. PICK r \in ProbeOf[p] : Upsert({r})
    BY <1>6 DEF Preflight
  <2> QED
    BY <1>2, <1>3, <2>1, <2>2
<1>7. CASE UploadBatch(o)
  <2>1. command[o].name = "upload"
    BY <1>7 DEF UploadBatch, At
  <2>2. PICK b \in SUBSET (CorpusOf[p] \ committed[p]) : Upsert(b)
    BY <1>7 DEF UploadBatch
  <2> QED
    BY <1>2, <2>1, <2>2
<1>8. CASE Activate(o)
  BY <1>8 DEF Activate, PilotTypeOK
<1>9. CASE \/ ReadProbe(o) \/ BlockProbe(o) \/ ReportUpload(o) \/ WriteOutcome(o)
           \/ Poll(o) \/ ReadVerified(o) \/ Sample(o)
  BY <1>9 DEF ReadProbe, BlockProbe, ReportUpload, WriteOutcome, Poll, ReadVerified, Sample
<1> QED
  BY <1>4, <1>5, <1>6, <1>7, <1>8, <1>9 DEF PilotStep

\* Nothing that was accepted or written is taken back: by no command, no change of
\* files, and not as points are applied.
LEMMA NothingTakenBack ==
  ASSUME PilotTypeOK, CommandsBound, [PilotNext]_pilotVars
  PROVE  /\ collection.accepted \subseteq collection'.accepted
         /\ receipts \subseteq receipts'
<1>1. CASE UNCHANGED <<collection, receipts>>
  BY <1>1
<1>2. CASE ApplyPoints
  BY <1>2 DEF ApplyPoints, PilotTypeOK
<1>3. ASSUME NEW o \in Operators, NEW p \in Plans, RunAny(o, p)
      PROVE  UNCHANGED <<collection, receipts>>
  BY <1>3 DEF RunAny, RunCreate, RunProbe, RunUpload, RunFinalize, RunVerify, Run
<1>4. ASSUME NEW o \in Operators, PilotStep(o) PROVE receipts \subseteq receipts'
  BY <1>4 DEF PilotStep, Create, CreateIndexes, Adopt, ReadCreated, UpsertProbe, ReadProbe,
              BlockProbe, Preflight, UploadBatch, ReportUpload, Activate, Poll, ReadVerified,
              Sample, WriteOutcome, Write
<1> QED
  BY <1>1, <1>2, <1>3, <1>4, CollectionStep DEF PilotNext, pilotVars, Change, WritePlan

\* What is applied was accepted, of a plan that adopted the collection.
LEMMA AcceptedStep ==
  ASSUME ChainInv, [PilotNext]_pilotVars
  PROVE  AppliedAccepted' /\ AcceptedAdopted'
<1>1. receipts \subseteq receipts'
  BY NothingTakenBack DEF ChainInv
<1>2. ASSUME collection'.accepted = collection.accepted PROVE AcceptedAdopted'
  BY <1>1, <1>2 DEF ChainInv, AcceptedAdopted, Has
<1>3. CASE UNCHANGED collection
  BY <1>2, <1>3 DEF ChainInv, AppliedAccepted
<1>4. CASE ApplyPoints
  <2>1. PICK b \in SUBSET (collection.accepted \ collection.points) :
          collection' = [collection EXCEPT !.points = @ \union b]
    BY <1>4 DEF ApplyPoints
  <2>2. /\ collection'.points = collection.points \union b
        /\ collection'.accepted = collection.accepted
    BY <2>1 DEF ChainInv, PilotTypeOK
  <2> QED
    BY <1>2, <2>2 DEF ChainInv, AppliedAccepted
<1>5. ASSUME NEW o \in Operators, PilotStep(o) PROVE AppliedAccepted' /\ AcceptedAdopted'
  <2>1. /\ collection'.points = collection.points
        /\ collection.accepted \subseteq collection'.accepted
        /\ \/ collection'.accepted = collection.accepted
           \/ /\ command[o].plan \in Plans /\ Has(command[o].plan, "create", "ok")
              /\ collection'.accepted \subseteq collection.accepted \union CorpusOf[command[o].plan]
    BY <1>5, CollectionStep DEF ChainInv
  <2>2. AppliedAccepted'
    BY <2>1 DEF ChainInv, AppliedAccepted
  <2>3. AcceptedAdopted'
    BY <1>1, <1>2, <2>1 DEF ChainInv, AcceptedAdopted, Has
  <2> QED
    BY <2>2, <2>3
<1>6. ASSUME NEW o \in Operators, NEW p \in Plans, RunAny(o, p) PROVE UNCHANGED collection
  BY <1>6 DEF RunAny, RunCreate, RunProbe, RunUpload, RunFinalize, RunVerify, Run
<1> QED
  BY <1>3, <1>4, <1>5, <1>6 DEF PilotNext, pilotVars, Change, WritePlan

\* So a command that was let in stays let in.
LEMMA StillLetIn ==
  ASSUME receipts \subseteq receipts', NEW c, CommandBound(c)
  PROVE  CommandBound(c)'
BY DEF CommandBound, Probed, Chained, Has, Vouches, Foreign

-----------------------------------------------------------------------------
\* No receipt vouches for anything at first.
LEMMA InitChain == PilotInit => ChainInv
BY PilotAssumption DEF PilotInit, ChainInv, PilotTypeOK, ProbedHeld, CommittedHeld, CompleteHeld, PassedHeld,
  CommandsBound, CommandBound, Has, Idle, Unread, NoCollection, AppliedAccepted, AcceptedAdopted

\* The types, given that a running command has a plan.
LEMMA TypeStep == ASSUME PilotTypeOK, CommandsBound, [PilotNext]_pilotVars PROVE PilotTypeOK'
<1> USE DEF PilotTypeOK
<1>1. CASE UNCHANGED pilotVars
  BY <1>1 DEF pilotVars
<1>2. CASE Change
  BY <1>2, PilotAssumption DEF Change
<1>6. CASE ApplyPoints
  <2>1. PICK b \in SUBSET (collection.accepted \ collection.points) :
          collection' = [collection EXCEPT !.points = @ \union b]
    BY <1>6 DEF ApplyPoints
  <2> QED
    BY <1>6, <2>1 DEF ApplyPoints
<1>3. ASSUME NEW p \in Plans, WritePlan(p) PROVE PilotTypeOK'
  BY <1>3 DEF WritePlan
<1>4. ASSUME NEW o \in Operators, NEW p \in Plans, RunAny(o, p) PROVE PilotTypeOK'
  <2>1. PICK name \in {"create", "probe", "upload", "finalize", "verify"} : Run(o, name, p)
    BY <1>4 DEF RunAny, RunCreate, RunProbe, RunUpload, RunFinalize, RunVerify
  <2>2. commands' \in 0..MaxCommands
    BY <2>1, PilotAssumption DEF Run
  <2> QED
    BY <2>1, <2>2 DEF Run, Unread, world
<1>5. ASSUME NEW o \in Operators, PilotStep(o) PROVE PilotTypeOK'
  <2> USE DEF world
  <2>1. CASE Create(o) \/ CreateIndexes(o) \/ Adopt(o)
    BY <2>1 DEF Create, CreateIndexes, Adopt, Then
  <2>2. CASE ReadCreated(o) \/ ReadProbe(o) \/ BlockProbe(o) \/ ReportUpload(o) \/ WriteOutcome(o)
    <3>1. command' = [command EXCEPT ![o] = Idle]
      BY <2>2 DEF ReadCreated, ReadProbe, BlockProbe, ReportUpload, WriteOutcome, Write, Over
    <3>2. command[o].plan \in Plans
      BY <2>2 DEF ReadCreated, ReadProbe, BlockProbe, ReportUpload, WriteOutcome, At,
                  CommandsBound, CommandBound
    <3>3. \/ receipts' = receipts
          \/ \E kind \in {"create", "probe", "upload", "finalize", "verify"},
               status \in {"ok", "pass", "fail", "scope", "blocked", "complete", "partial"} :
               receipts' = receipts \union {Receipt(command[o], kind, status)}
      BY <2>2 DEF ReadCreated, ReadProbe, BlockProbe, ReportUpload, WriteOutcome, Write, Acceptance
    <3>4. receipts' \subseteq [plan : Plans, held : SUBSET Records, behind : BOOLEAN,
                         kind : {"create", "probe", "upload", "finalize", "verify"},
                         status : {"ok", "pass", "fail", "scope", "blocked", "complete",
                                   "partial"}]
      BY <3>2, <3>3 DEF Receipt
    <3>5. UNCHANGED <<source, corpus, plans, collection, committed, commands>>
      BY <2>2 DEF ReadCreated, ReadProbe, BlockProbe, ReportUpload, WriteOutcome
    <3> QED
      BY <3>1, <3>4, <3>5 DEF Idle, Unread
  <2>3. CASE UpsertProbe(o)
    BY <2>3, PilotAssumption DEF UpsertProbe, Upsert, Then, At, CommandsBound, CommandBound
  <2>4. CASE Preflight(o) \/ UploadBatch(o)
    <3> DEFINE p == command[o].plan
    <3>1. p \in Plans /\ ProbeOf[p] \subseteq Records /\ CorpusOf[p] \subseteq Records
      BY <2>4, PilotAssumption DEF Preflight, UploadBatch, At, CommandsBound, CommandBound
    <3>2. PICK b \in SUBSET Records : Upsert(b)
      <4>1. CASE Preflight(o)
        <5>1. PICK r \in ProbeOf[p] : Upsert({r})
          BY <4>1 DEF Preflight
        <5> QED
          BY <3>1, <5>1
      <4>2. CASE UploadBatch(o)
        BY <3>1, <4>2 DEF UploadBatch
      <4> QED
        BY <2>4, <4>1, <4>2
    <3>3. PICK c \in SUBSET Records : committed' = [committed EXCEPT ![p] = @ \union c]
      <4>1. CASE Preflight(o)
        BY <3>1, <4>1 DEF Preflight
      <4>2. CASE UploadBatch(o)
        <5>1. PICK batch \in SUBSET (CorpusOf[p] \ committed[p]) :
                \E c \in {{}, batch} : committed' = [committed EXCEPT ![p] = @ \union c]
          BY <4>2 DEF UploadBatch
        <5> QED
          BY <3>1, <5>1
      <4> QED
        BY <2>4, <4>1, <4>2
    <3>4. command' = [command EXCEPT ![o].stage = "upload"] \/ command' = command
      BY <2>4 DEF Preflight, UploadBatch, Then
    <3>5. collection' \in [built : {"absent", "bare", "indexed"}, accepted : SUBSET Records,
                           points : SUBSET Records, hnsw : {0, 16}]
      BY <3>2 DEF Upsert
    <3>6. committed' \in [Plans -> SUBSET Records]
      BY <3>1, <3>3
    <3>7. UNCHANGED <<world, receipts, commands>>
      BY <2>4 DEF Preflight, UploadBatch
    <3> HIDE DEF p
    <3> QED
      BY <3>4, <3>5, <3>6, <3>7
  <2>5. CASE Activate(o)
    BY <2>5 DEF Activate, Then
  <2>6. CASE Poll(o) \/ ReadVerified(o) \/ Sample(o)
    BY <2>6 DEF Poll, ReadVerified, Sample, See, Then
  <2> QED
    BY <1>5, <2>1, <2>2, <2>3, <2>4, <2>5, <2>6 DEF PilotStep
<1> QED
  BY <1>1, <1>2, <1>3, <1>4, <1>5, <1>6 DEF PilotNext

\* A step that writes no receipt of the chain and starts no command: what the
\* receipts and the other commands stand for stays, since nothing is taken back.
LEMMA QuietStep ==
  ASSUME ChainInv, collection.accepted \subseteq collection'.accepted, UNCHANGED receipts
  PROVE  ProbedHeld' /\ CompleteHeld' /\ PassedHeld'
BY DEF ChainInv, ProbedHeld, CompleteHeld, PassedHeld, Has, Vouches, Foreign

\* As one operator's command goes on, those of the others stay bound.
LEMMA OthersBound ==
  ASSUME ChainInv, receipts \subseteq receipts', PilotTypeOK', NEW o \in Operators,
         NEW d, command' = [command EXCEPT ![o] = d], CommandBound(d)'
  PROVE  CommandsBound'
<1>1. \A a \in Operators : CommandBound(command[a])'
  BY StillLetIn DEF ChainInv, CommandsBound, CommandBound
<1> QED
  BY <1>1 DEF CommandsBound, CommandBound, PilotTypeOK, ChainInv

\* A command that ends writes at most one receipt.
LEMMA WriteStep ==
  ASSUME ChainInv, PilotTypeOK', AppliedAccepted', AcceptedAdopted',
         collection' = collection, committed' = committed,
         NEW o \in Operators, NEW kind, NEW status, Write(o, kind, status), command[o].plan \in Plans,
         kind = "probe" /\ status = "pass" => ProbeOf[command[o].plan] \subseteq collection.accepted,
         kind = "upload" /\ status = "complete" =>
           CorpusOf[command[o].plan] \subseteq collection.accepted,
         kind \in {"finalize", "verify"} /\ status = "pass" => Vouches(command[o])
  PROVE  ChainInv'
<1>1. receipts' = receipts \union {Receipt(command[o], kind, status)}
  BY DEF Write
<1>2. ProbedHeld' /\ CompleteHeld'
  BY <1>1 DEF ChainInv, ProbedHeld, CompleteHeld, Has, Receipt
<1>3. PassedHeld'
  <2>1. \A r : Vouches(r) => Vouches(r)'
    BY <1>1 DEF Vouches, Foreign, Has
  <2> DEFINE new == Receipt(command[o], kind, status)
  <2>2. new.kind \in {"finalize", "verify"} /\ new.status = "pass" => Vouches(new)
    BY DEF Receipt, Vouches
  <2> HIDE DEF new
  <2>3. \A r \in receipts' : r.kind \in {"finalize", "verify"} /\ r.status = "pass" => Vouches(r)
    BY <1>1, <2>2 DEF new, ChainInv, PassedHeld
  <2>4. \A r \in receipts' : r.kind \in {"finalize", "verify"} /\ r.status = "pass" => Vouches(r)'
    BY <2>1, <2>3
  <2> QED
    BY <2>4 DEF PassedHeld, Vouches, Foreign, Has
<1>4. CommandBound(Idle)'
  BY DEF CommandBound, Idle, Unread
<1>5. CommandsBound'
  BY <1>1, <1>4, OthersBound DEF Write, Over
<1> QED
  BY <1>2, <1>3, <1>5 DEF ChainInv, CommittedHeld

\* A command goes on to another stage; to these two only with what it has seen.
LEMMA StageBound ==
  ASSUME ChainInv, NEW o \in Operators, NEW s,
         s \in {"sample", "passed"} =>
           command[o].name \in {"finalize", "verify"} /\ Vouches(command[o])
  PROVE  CommandBound([command[o] EXCEPT !.stage = s])
<1> DEFINE d == [command[o] EXCEPT !.stage = s]
<1>1. /\ d.name = command[o].name /\ d.plan = command[o].plan
      /\ d.held = command[o].held /\ d.behind = command[o].behind /\ d.stage = s
  BY DEF ChainInv, PilotTypeOK
<1>2. CommandBound(command[o])
  BY DEF ChainInv, CommandsBound
<1> HIDE DEF d
<1> QED
  BY <1>1, <1>2 DEF CommandBound, Vouches

\* A command that reads the collection back can vouch for what it saw.
LEMMA SeeBound ==
  ASSUME ChainInv, NEW o \in Operators, NEW s, s \in {"sample", "passed"},
         command[o].name \in {"finalize", "verify"}, Counted(command[o].plan), See(o, s)
  PROVE  \E d : command' = [command EXCEPT ![o] = d] /\ CommandBound(d)
<1> DEFINE p == command[o].plan
           d == [command[o] EXCEPT !.stage = s, !.held = collection.points,
                                   !.behind = collection.points # collection.accepted]
<1>1. /\ d.name = command[o].name /\ d.plan = p /\ d.stage = s
      /\ d.held = collection.points /\ d.behind = (collection.points # collection.accepted)
  BY DEF ChainInv, PilotTypeOK
<1>2. command' = [command EXCEPT ![o] = d]
  BY DEF See, ChainInv, PilotTypeOK
<1>3. CommandBound(command[o])
  BY DEF ChainInv, CommandsBound
<1>4. p \in Plans /\ Chained(p)
  BY <1>3 DEF CommandBound
<1>5. CorpusOf[p] \subseteq collection.accepted
  BY <1>4 DEF Chained, ChainInv, CompleteHeld
<1>6. \/ collection.points = CorpusOf[p]
      \/ collection.points # collection.accepted /\ collection.points \intersect Foreign(p) # {}
  BY <1>4, <1>5, CountedVouches
<1> HIDE DEF d
<1>7. Vouches(d)
  BY <1>1, <1>6 DEF Vouches
<1>8. CommandBound(d)
  BY <1>1, <1>4, <1>7 DEF CommandBound
<1> QED
  BY <1>2, <1>8

\* No step of an operator makes a receipt say more than is so.
LEMMA CommandStep == ASSUME ChainInv, NEW o \in Operators, PilotStep(o) PROVE ChainInv'
<1> DEFINE p == command[o].plan
<1>1. /\ PilotTypeOK' /\ AppliedAccepted' /\ AcceptedAdopted'
      /\ collection.accepted \subseteq collection'.accepted /\ receipts \subseteq receipts'
  BY TypeStep, NothingTakenBack, AcceptedStep DEF PilotNext, ChainInv
<1>2. CommandBound(command[o])
  BY DEF ChainInv, CommandsBound
<1>3. CASE Create(o) \/ CreateIndexes(o) \/ Adopt(o)
  <2>1. PICK s \in {"index", "read"} : Then(o, s)
    BY <1>3 DEF Create, CreateIndexes, Adopt
  <2>2. CommandBound([command[o] EXCEPT !.stage = s])
    BY StageBound
  <2>3. UNCHANGED <<committed, receipts>>
    BY <1>3 DEF Create, CreateIndexes, Adopt
  <2>4. CommandsBound'
    BY <1>1, <2>1, <2>2, OthersBound, StillLetIn DEF Then
  <2> QED
    BY <1>1, <2>3, <2>4, QuietStep DEF ChainInv, CommittedHeld
<1>4. CASE ReadCreated(o)
  <2>1. CASE Write(o, "create", "ok")
    BY <1>1, <1>2, <1>4, <2>1, WriteStep DEF ReadCreated, At, CommandBound
  <2>2. CASE UNCHANGED receipts /\ Over(o)
    <3>1. CommandBound(Idle)'
      BY DEF CommandBound, Idle, Unread
    <3>2. CommandsBound'
      BY <1>1, <2>2, <3>1, OthersBound DEF Over
    <3> QED
      BY <1>1, <1>4, <2>2, <3>2, QuietStep DEF ReadCreated, ChainInv, CommittedHeld
  <2> QED
    BY <1>4, <2>1, <2>2 DEF ReadCreated
<1>5. CASE UpsertProbe(o)
  <2>1. PICK s \in {"read", "blocked"} : Then(o, s)
    BY <1>5 DEF UpsertProbe
  <2>2. CommandBound([command[o] EXCEPT !.stage = s])
    BY StageBound
  <2>3. CommandsBound'
    BY <1>1, <2>1, <2>2, OthersBound, StillLetIn DEF Then
  <2> QED
    BY <1>1, <1>5, <2>3, QuietStep DEF UpsertProbe, ChainInv, CommittedHeld
<1>6. CASE ReadProbe(o) \/ BlockProbe(o)
  <2>1. PICK status : /\ Write(o, "probe", status)
                      /\ status = "pass" => ProbeOf[p] \subseteq collection.accepted
    BY <1>6 DEF ReadProbe, BlockProbe, VectorsThere, ChainInv, AppliedAccepted
  <2> QED
    BY <1>1, <1>2, <1>6, <2>1, WriteStep DEF ReadProbe, BlockProbe, At, CommandBound
<1>7. CASE Preflight(o)
  <2>1. CommandBound([command[o] EXCEPT !.stage = "upload"])
    BY StageBound
  <2>2. CommandsBound'
    BY <1>1, <1>7, <2>1, OthersBound, StillLetIn DEF Preflight, Then
  <2>3. ProbeOf[p] \subseteq collection.accepted
    BY <1>2, <1>7 DEF Preflight, At, CommandBound, Probed, ChainInv, ProbedHeld
  <2>4. CommittedHeld'
    BY <1>1, <1>7, <2>3 DEF Preflight, ChainInv, CommittedHeld, PilotTypeOK
  <2> QED
    BY <1>1, <1>7, <2>2, <2>4, QuietStep DEF Preflight, ChainInv
<1>8. CASE UploadBatch(o)
  <2>1. PICK b \in SUBSET (CorpusOf[p] \ committed[p]) :
          /\ Upsert(b)
          /\ \E c \in {{}, b} : committed' = [committed EXCEPT ![p] = @ \union c]
    BY <1>8 DEF UploadBatch
  <2>2. CommittedHeld'
    BY <2>1 DEF Upsert, ChainInv, CommittedHeld, PilotTypeOK
  <2>3. UNCHANGED <<receipts, command>>
    BY <1>8 DEF UploadBatch
  <2>4. CommandsBound'
    BY <2>3, StillLetIn DEF ChainInv, CommandsBound, CommandBound, Probed, Chained, Has, Vouches,
                           Foreign
  <2> QED
    BY <1>1, <2>2, <2>3, <2>4, QuietStep DEF ChainInv
<1>9. CASE ReportUpload(o)
  <2>1. PICK status : /\ Write(o, "upload", status)
                      /\ status = "complete" => committed[p] = CorpusOf[p]
    BY <1>9 DEF ReportUpload
  <2>2. p \in Plans /\ committed[p] \subseteq collection.accepted
    BY <1>2, <1>9 DEF ReportUpload, At, CommandBound, ChainInv, CommittedHeld
  <2> QED
    BY <1>1, <1>9, <2>1, <2>2, WriteStep DEF ReportUpload
<1>10. CASE Activate(o)
  <2>1. PICK s \in {"poll", "blocked"} : Then(o, s)
    BY <1>10 DEF Activate
  <2>2. CommandBound([command[o] EXCEPT !.stage = s])
    BY StageBound
  <2>3. CommandsBound'
    BY <1>1, <2>1, <2>2, OthersBound, StillLetIn DEF Then
  <2> QED
    BY <1>1, <1>10, <2>3, QuietStep DEF Activate, ChainInv, CommittedHeld
\* What is read back is counted, and so is the corpus of the plan.
<1>11. CASE Poll(o) \/ ReadVerified(o)
  <2>1. PICK d : command' = [command EXCEPT ![o] = d] /\ CommandBound(d)
    <3>1. CASE \E s \in {"passed", "sample"} : Counted(p) /\ See(o, s)
      BY <1>11, <3>1, SeeBound DEF Poll, ReadVerified, At
    <3>2. CASE Then(o, "blocked")
      BY <3>2, StageBound DEF Then
    <3> QED
      BY <1>11, <3>1, <3>2 DEF Poll, ReadVerified
  <2>2. CommandsBound'
    BY <1>1, <2>1, OthersBound, StillLetIn
  <2> QED
    BY <1>1, <1>11, <2>2, QuietStep DEF Poll, ReadVerified, ChainInv, CommittedHeld
<1>12. CASE Sample(o)
  <2>1. PICK s \in {"passed", "blocked"} : Then(o, s)
    BY <1>12 DEF Sample
  <2>2. CommandBound([command[o] EXCEPT !.stage = s])
    BY <1>2, <1>12, <2>1, StageBound DEF Sample, At, CommandBound
  <2>3. CommandsBound'
    BY <1>1, <2>1, <2>2, OthersBound, StillLetIn DEF Then
  <2> QED
    BY <1>1, <1>12, <2>3, QuietStep DEF Sample, ChainInv, CommittedHeld
<1>13. CASE WriteOutcome(o)
  <2>1. PICK status : /\ Write(o, command[o].name, status)
                      /\ status = "pass" => command[o].stage = "passed"
    BY <1>13 DEF WriteOutcome
  <2>2. command[o].name \in {"finalize", "verify"} /\ p \in Plans
    BY <1>2, <1>13 DEF WriteOutcome, CommandBound
  <2> QED
    BY <1>1, <1>2, <1>13, <2>1, <2>2, WriteStep DEF WriteOutcome, CommandBound
<1> QED
  BY <1>3, <1>4, <1>5, <1>6, <1>7, <1>8, <1>9, <1>10, <1>11, <1>12, <1>13 DEF PilotStep

\* Nor does any other step of the chain.
LEMMA ChainStep == ASSUME ChainInv, [PilotNext]_pilotVars PROVE ChainInv'
<1>1. /\ PilotTypeOK' /\ AppliedAccepted' /\ AcceptedAdopted'
      /\ collection.accepted \subseteq collection'.accepted /\ receipts \subseteq receipts'
  BY TypeStep, NothingTakenBack, AcceptedStep DEF ChainInv
<1>2. ASSUME UNCHANGED <<committed, receipts, command>> PROVE ChainInv'
  <2>1. CommandsBound'
    BY <1>2, StillLetIn DEF ChainInv, CommandsBound, CommandBound, Probed, Chained, Has, Vouches,
                            Foreign
  <2> QED
    BY <1>1, <1>2, <2>1, QuietStep DEF ChainInv, CommittedHeld
<1>3. ASSUME NEW o \in Operators, NEW p \in Plans, RunAny(o, p) PROVE ChainInv'
  <2>1. PICK name \in {"create", "probe", "upload", "finalize", "verify"} :
          /\ Run(o, name, p)
          /\ name = "probe" => Has(p, "create", "ok")
          /\ name = "upload" => Probed(p)
          /\ name \in {"finalize", "verify"} => Chained(p)
    BY <1>3 DEF RunAny, RunCreate, RunProbe, RunUpload, RunFinalize, RunVerify
  <2>2. CommandBound(Unread(name, p, "start"))
    BY <2>1 DEF CommandBound, Unread
  <2>3. CommandsBound'
    BY <1>1, <2>1, <2>2, OthersBound, StillLetIn DEF Run
  <2> QED
    BY <1>1, <2>1, <2>3, QuietStep DEF Run, ChainInv, CommittedHeld
<1> QED
  BY <1>2, <1>3, CommandStep DEF PilotNext, pilotVars, Change, WritePlan, ApplyPoints

-----------------------------------------------------------------------------
\* Commands, receipts, checkpoints and the collection keep their types.
THEOREM ChainTypeCorrect == PilotSpec => []PilotTypeOK
<1>1. ChainInv => PilotTypeOK
  BY DEF ChainInv
<1> QED
  BY <1>1, InitChain, ChainStep, PTL DEF PilotSpec

\* A passed receipt vouches for exactly the records of its plan, unless it was read
\* before all was applied and a plan that was adopted too made up the number; and
\* a complete upload is wholly accepted: whatever the operators run at the same
\* time, in whatever order, however late the points come, and wherever a command dies.
THEOREM ChainVouches == PilotSpec => []PassedVouches
<1>1. ChainInv => PassedVouches
  BY DEF ChainInv, PassedHeld, CompleteHeld, PassedVouches
<1> QED
  BY <1>1, InitChain, ChainStep, PTL DEF PilotSpec

-----------------------------------------------------------------------------
(* The golden suite                                                        *)

\* Rows that a file or a process has, whoever evaluated them.
OwnQuestions(rows) == \A q \in DOMAIN rows : q \in QuestionsOf(rows[q].fingerprint)

\* What a running process has: its own rows and those it restored.
Accounted(run) ==
  /\ DOMAIN run.rows \subseteq QuestionsOf(run.fingerprint)
  /\ run.todo = QuestionsOf(run.fingerprint) \ DOMAIN run.rows
  /\ \A q \in DOMAIN run.rows : /\ run.rows[q].fingerprint = run.fingerprint
                                /\ \/ run.rows[q].run = run.run
                                   \/ ValidRow(run.rows[q], run.fingerprint)

SuiteInv ==
  /\ OwnQuestions(checkpoint.rows)
  /\ writers \subseteq Suites
  /\ DOMAIN suite = Suites
  /\ \A s \in Suites : /\ OwnQuestions(suite[s].rows)
                       /\ suite[s].stage # "off" => Accounted(suite[s])
                       /\ suite[s].stage = "finish" => suite[s].todo = {}
  /\ report # NoReport =>
       /\ DOMAIN report.rows = QuestionsOf(report.fingerprint)
       /\ \A q \in DOMAIN report.rows :
            /\ report.rows[q].fingerprint = report.fingerprint
            /\ \/ report.rows[q].run = report.run
               \/ ValidRow(report.rows[q], report.fingerprint)

-----------------------------------------------------------------------------
\* There is no report at first.
LEMMA InitSuite == SuiteInit => SuiteInv
BY DEF SuiteInit, SuiteInv, OwnQuestions, Off, NoReport, NoRows, File

\* What a file can be restored to is valid, and of the dataset's own questions.
LEMMA RestoredRows ==
  ASSUME NEW fingerprint, OwnQuestions(checkpoint.rows)
  PROVE  /\ DOMAIN Restored(fingerprint) \subseteq QuestionsOf(fingerprint)
         /\ \A q \in DOMAIN Restored(fingerprint) :
              /\ Restored(fingerprint)[q].fingerprint = fingerprint
              /\ ValidRow(Restored(fingerprint)[q], fingerprint)
BY DEF Restored, OwnQuestions, ValidRow

\* Whoever writes the checkpoint, a report answers for its own questions.
LEMMA SuiteStep == SuiteInv /\ [SuiteNext]_suiteVars => SuiteInv'
<1> SUFFICES ASSUME SuiteInv, [SuiteNext]_suiteVars PROVE SuiteInv'
  OBVIOUS
<1>1. CASE UNCHANGED suiteVars
  BY <1>1 DEF suiteVars, SuiteInv, Accounted, OwnQuestions
<1>2. ASSUME NEW s \in Suites, StartSuite(s) PROVE SuiteInv'
  <2>1. PICK fingerprint, rows :
          /\ rows \in {NoRows, Restored(fingerprint)}
          /\ suite' = [suite EXCEPT ![s] =
               [stage |-> "evaluate", run |-> started', fingerprint |-> fingerprint,
                rows |-> rows, todo |-> QuestionsOf(fingerprint) \ DOMAIN rows]]
    BY <1>2 DEF StartSuite
  <2>2. /\ DOMAIN rows \subseteq QuestionsOf(fingerprint)
        /\ \A q \in DOMAIN rows : /\ rows[q].fingerprint = fingerprint
                                  /\ ValidRow(rows[q], fingerprint)
    BY <2>1, RestoredRows DEF NoRows, SuiteInv
  <2>3. UNCHANGED <<checkpoint, writers, report>>
    BY <1>2 DEF StartSuite
  <2> QED
    BY <2>1, <2>2, <2>3 DEF SuiteInv, Accounted, OwnQuestions
<1>3. ASSUME NEW s \in Suites, Evaluate(s) PROVE SuiteInv'
  <2> DEFINE run == suite[s]
             row(outcome) == [outcome |-> outcome, fingerprint |-> run.fingerprint,
                              run |-> run.run]
  <2>1. PICK q \in run.todo, outcome \in Observed :
          suite' = [suite EXCEPT ![s].stage = "write", ![s].todo = @ \ {q},
            ![s].rows = [p \in DOMAIN @ \union {q} |-> IF p = q THEN row(outcome) ELSE @[p]]]
    BY <1>3 DEF Evaluate
  <2>2. Accounted(run) /\ run.stage = "evaluate"
    BY <1>3 DEF Evaluate, SuiteInv
  <2>3. /\ suite'[s].stage = "write" /\ suite'[s].todo = run.todo \ {q}
        /\ suite'[s].fingerprint = run.fingerprint /\ suite'[s].run = run.run
        /\ suite'[s].rows = [p \in DOMAIN run.rows \union {q} |->
                               IF p = q THEN row(outcome) ELSE run.rows[p]]
    BY <2>1 DEF SuiteInv
  <2>4. \A p \in Suites \ {s} : suite'[p] = suite[p]
    BY <2>1 DEF SuiteInv
  <2>5. DOMAIN suite' = Suites
    BY <2>1 DEF SuiteInv
  <2>6. q \in QuestionsOf(run.fingerprint)
    BY <2>1, <2>2 DEF Accounted
  <2>7. Accounted(suite'[s]) /\ OwnQuestions(suite'[s].rows)
    BY <2>2, <2>3, <2>6 DEF Accounted, OwnQuestions, SuiteInv
  <2>8. UNCHANGED <<checkpoint, report>> /\ writers' \subseteq Suites
    BY <1>3 DEF Evaluate, Open, SuiteInv
  <2>9. ASSUME NEW p \in Suites
        PROVE  /\ OwnQuestions(suite'[p].rows)
               /\ suite'[p].stage # "off" => Accounted(suite'[p])
               /\ suite'[p].stage = "finish" => suite'[p].todo = {}
    BY <2>3, <2>4, <2>7 DEF SuiteInv
  <2> HIDE DEF run, row
  <2> QED
    BY <2>5, <2>8, <2>9 DEF SuiteInv, Accounted, OwnQuestions
<1>4. ASSUME NEW s \in Suites, Finish(s) PROVE SuiteInv'
  BY <1>4 DEF Finish, Open, SuiteInv, Accounted, OwnQuestions
<1>5. ASSUME NEW s \in Suites, NoFile(s) \/ Kill(s) PROVE SuiteInv'
  <2>1. suite' = [suite EXCEPT ![s] = Off] /\ UNCHANGED <<checkpoint, writers, report>>
    BY <1>5 DEF NoFile, Kill
  <2>2. Off.stage = "off" /\ OwnQuestions(Off.rows)
    BY DEF Off, NoRows, OwnQuestions
  <2>3. DOMAIN suite' = Suites /\ \A p \in Suites : suite'[p] = IF p = s THEN Off ELSE suite[p]
    BY <2>1 DEF SuiteInv
  <2>4. ASSUME NEW p \in Suites
        PROVE  /\ OwnQuestions(suite'[p].rows)
               /\ suite'[p].stage # "off" => Accounted(suite'[p])
               /\ suite'[p].stage = "finish" => suite'[p].todo = {}
    BY <2>2, <2>3 DEF SuiteInv
  <2> QED
    BY <2>1, <2>3, <2>4 DEF SuiteInv, Accounted, OwnQuestions
\* The file is now a process's rows or none.
<1>6. ASSUME NEW s \in Suites, Replaced(s) PROVE OwnQuestions(checkpoint.rows)' /\ writers' = {}
  BY <1>6 DEF Replaced, File, NoRows, SuiteInv, OwnQuestions
<1>7. ASSUME NEW s \in Suites, Replace(s) PROVE SuiteInv'
  BY <1>6, <1>7 DEF Replace, SuiteInv, Accounted, OwnQuestions
<1>8. ASSUME NEW s \in Suites, Report(s) PROVE SuiteInv'
  <2>1. Accounted(suite[s]) /\ suite[s].todo = {}
    BY <1>8 DEF Report, SuiteInv
  <2>2. DOMAIN suite[s].rows = QuestionsOf(suite[s].fingerprint)
    BY <2>1 DEF Accounted
  <2>3. OwnQuestions(checkpoint.rows)' /\ writers' = {}
    BY <1>6, <1>8 DEF Report
  <2> QED
    BY <1>8, <2>1, <2>2, <2>3 DEF Report, Off, NoRows, SuiteInv, Accounted, OwnQuestions
<1> QED
  BY <1>1, <1>2, <1>3, <1>4, <1>5, <1>7, <1>8 DEF SuiteNext

-----------------------------------------------------------------------------
\* Whatever was killed, resumed under another configuration or written to the
\* checkpoint by another run, a report has one row for each of its questions,
\* each evaluated under its own fingerprint, and a failure of an earlier run is
\* not among them.
THEOREM OwnReports == SuiteSpec => []ReportsOwnRows
<1>1. SuiteInv => ReportsOwnRows
  BY DEF SuiteInv, ReportsOwnRows, ValidRow, Correct, Generated, Refused
<1> QED
  BY <1>1, InitSuite, SuiteStep, PTL DEF SuiteSpec

-----------------------------------------------------------------------------
(* The labels of gold evidence                                             *)

\* A set of numbers that is not empty has a least one: its initial segments are
\* finite sets, and strict inclusion of finite sets is well founded.
LEMMA LeastNumber ==
  ASSUME NEW ids \in SUBSET Nat, ids # {}
  PROVE  \E least \in ids : \A d \in ids : least <= d
<1> DEFINE segments == {0..d : d \in ids}
<1>1. segments \subseteq FiniteSubsetsOf(Nat) /\ segments # {}
  <2>1. ASSUME NEW d \in ids PROVE 0..d \in FiniteSubsetsOf(Nat)
    BY FS_Interval DEF FiniteSubsetsOf
  <2> QED
    BY <2>1
<1>2. \E x \in segments : \A y \in segments : ~ <<y, x>> \in StrictSubsetOrdering(Nat)
  <2> HIDE DEF segments
  <2> QED
    BY <1>1, FS_StrictSubsetOrderingWellFounded, WFMin
<1>3. PICK least \in ids : \A d \in ids : ~ <<0..d, 0..least>> \in StrictSubsetOrdering(Nat)
  BY <1>2
<1>4. ASSUME NEW d \in ids PROVE least <= d
  <2>1. SUFFICES ASSUME d < least PROVE FALSE
    OBVIOUS
  <2>2. 0..d \subseteq 0..least /\ least \in 0..least /\ least \notin 0..d
    BY <2>1
  <2>3. <<0..d, 0..least>> \in StrictSubsetOrdering(Nat)
    BY <2>2 DEF StrictSubsetOrdering
  <2> QED
    BY <1>3, <2>3
<1> QED
  BY <1>4

\* Who is left out of a finite set makes it smaller.
LEMMA Fewer ==
  ASSUME NEW S, IsFiniteSet(S), NEW T \in SUBSET S, NEW x \in S, x \notin T
  PROVE  Cardinality(T) \in Nat /\ Cardinality(S) \in Nat /\ Cardinality(T) < Cardinality(S)
<1>1. IsFiniteSet(T) /\ Cardinality(T) <= Cardinality(S) /\ Cardinality(S) # Cardinality(T)
  BY FS_Subset
<1>2. Cardinality(T) \in Nat /\ Cardinality(S) \in Nat
  BY <1>1, FS_CardinalityType
<1> QED
  BY <1>1, <1>2

\* The cases that a queue can hold are finitely many.
LEMMA FiniteCases == \A labels : IsFiniteSet(EligibleCases(labels)) /\ EligibleCases(labels) \subseteq GoldCases
BY AdjudicationAssumption, FS_Subset DEF EligibleCases

\* The keys that cases are sorted by are numbers.
LEMMA KeysAreNumbers ==
  ASSUME NEW labels, NEW c \in EligibleCases(labels)
  PROVE  /\ Digest[c] \in Nat /\ Stratum(labels, c) \in Nat /\ Representation(labels, c) \in Nat
         /\ Place(labels, c) \in Nat
<1>1. c \in GoldCases /\ Unresolved(labels, c) # {} /\ Unresolved(labels, c) \subseteq Evidence
  BY DEF EligibleCases, Unresolved, OfCase
<1>2. Representation(labels, c) \in Nat
  <2> DEFINE counts == {Represented(labels, e) : e \in Unresolved(labels, c)}
  <2>1. ASSUME NEW e \in Evidence PROVE Represented(labels, e) \in Nat
    <3>1. PICK d : d = labels[e].document
      OBVIOUS
    <3>2. IsFiniteSet(Evidence) /\ Verified(labels) \subseteq Evidence
      BY AdjudicationAssumption DEF Verified
    <3>3. PICK n : n = Cardinality(Evidence)
      OBVIOUS
    <3>4. n \in Nat
      BY <3>2, <3>3, FS_CardinalityType
    <3>5. OfDocument(labels, d) \in Nat
      <4>1. {x \in Verified(labels) : labels[x].document = d} \in SUBSET Evidence
        BY <3>2
      <4> QED
        BY <3>2, <4>1, FS_Subset, FS_CardinalityType DEF OfDocument
    <3>6. OfType(labels, LegalTypeOf[d]) \in Nat
      <4>1. {x \in Verified(labels) : LegalTypeOf[labels[x].document] = LegalTypeOf[d]}
              \in SUBSET Evidence
        BY <3>2
      <4> QED
        BY <3>2, <4>1, FS_Subset, FS_CardinalityType DEF OfType
    <3>7. Represented(labels, e) = n * OfDocument(labels, d) + OfType(labels, LegalTypeOf[d])
      BY <3>1, <3>3 DEF Represented
    <3> QED
      BY <3>4, <3>5, <3>6, <3>7
  <2>2. counts \in SUBSET Nat /\ counts # {}
    BY <1>1, <2>1
  <2>3. Representation(labels, c) = CHOOSE n \in counts : \A m \in counts : n <= m
    BY DEF Representation
  <2> HIDE DEF counts
  <2>4. \E n \in counts : \A m \in counts : n <= m
    BY <2>2, LeastNumber
  <2> QED
    BY <2>2, <2>3, <2>4
<1>3. Stratum(labels, c) \in Nat
  <2> DEFINE levels == {LevelOf[e] : e \in Unresolved(labels, c)}
  <2>1. levels # {} /\ levels \subseteq {"document", "article", "clause"}
    BY <1>1, AdjudicationAssumption
  <2>2. Depth["document"] = 0 /\ Depth["article"] = 1 /\ Depth["clause"] = 2
    BY DEF Depth
  <2>3. \E l \in levels : \A k \in levels : Depth[k] <= Depth[l]
    <3> HIDE DEF levels
    <3>1. CASE "clause" \in levels
      BY <2>1, <2>2, <3>1
    <3>2. CASE "clause" \notin levels /\ "article" \in levels
      BY <2>1, <2>2, <3>2
    <3>3. CASE levels = {"document"}
      BY <2>2, <3>3
    <3> QED
      BY <2>1, <3>1, <3>2, <3>3
  <2>4. PICK deepest : deepest = CHOOSE l \in levels :
          \A e \in Unresolved(labels, c) : Depth[LevelOf[e]] <= Depth[l]
    OBVIOUS
  <2>5. \E l \in levels : \A e \in Unresolved(labels, c) : Depth[LevelOf[e]] <= Depth[l]
    BY <2>3
  <2>6. deepest \in levels
    BY <2>4, <2>5
  <2>7. Named[deepest] \in Nat
    BY <2>1, <2>6 DEF Named
  <2>8. Stratum(labels, c) = 3 * KindOfCase[c] + Named[deepest]
    BY <2>4 DEF Stratum
  <2>9. KindOfCase[c] \in Nat
    BY <1>1, AdjudicationAssumption
  <2> QED
    BY <2>7, <2>8, <2>9
<1>4. Place(labels, c) \in Nat
  <2>1. {d \in EligibleCases(labels) : Rarer(labels, d, c)} \in SUBSET EligibleCases(labels)
    OBVIOUS
  <2> QED
    BY <2>1, FiniteCases, FS_Subset, FS_CardinalityType DEF Place
<1> QED
  BY <1>1, <1>2, <1>3, <1>4, AdjudicationAssumption

\* The order of turns, strict and total on the cases to choose from.
LEMMA TurnsOrdered ==
  ASSUME NEW labels
  PROVE  /\ \A c \in EligibleCases(labels) : ~Earlier(labels, c, c)
         /\ \A b, c, d \in EligibleCases(labels) :
              Earlier(labels, b, c) /\ Earlier(labels, c, d) => Earlier(labels, b, d)
         /\ \A c, d \in EligibleCases(labels) :
              c # d => Earlier(labels, c, d) \/ Earlier(labels, d, c)
<1> DEFINE E == EligibleCases(labels)
           S(c) == Stratum(labels, c)
           P(c) == Place(labels, c)
<1>1. \A c \in E : S(c) \in Nat /\ P(c) \in Nat
  BY KeysAreNumbers
<1>2. \A c, d \in E : Earlier(labels, c, d) <=> P(c) < P(d) \/ (P(c) = P(d) /\ S(c) < S(d))
  BY DEF Earlier
<1>3. ASSUME NEW c \in E, NEW d \in E, Rarer(labels, c, d) PROVE P(c) < P(d)
  <2> DEFINE Before(x) == {b \in E : Rarer(labels, b, x)}
  <2>1. ~Rarer(labels, c, c)
    BY KeysAreNumbers DEF Rarer
  <2>2. ASSUME NEW b \in E, Rarer(labels, b, c) PROVE Rarer(labels, b, d)
    <3>1. PICK kb, kc, kd : /\ kb = Representation(labels, b) /\ kc = Representation(labels, c)
                            /\ kd = Representation(labels, d)
      OBVIOUS
    <3>2. /\ {kb, kc, kd} \subseteq Nat
          /\ Digest[b] \in Nat /\ Digest[c] \in Nat /\ Digest[d] \in Nat
      BY <3>1, KeysAreNumbers
    <3> QED
      BY <1>3, <2>2, <3>1, <3>2 DEF Rarer
  <2>3. Before(c) \subseteq Before(d) /\ c \in Before(d) /\ c \notin Before(c)
    BY <1>3, <2>1, <2>2
  <2>4. IsFiniteSet(Before(d))
    BY FiniteCases, FS_Subset
  <2>5. P(c) = Cardinality(Before(c)) /\ P(d) = Cardinality(Before(d))
    BY DEF Place
  <2> HIDE DEF Before
  <2>6. Cardinality(Before(c)) < Cardinality(Before(d))
    BY <2>3, <2>4, Fewer
  <2> QED
    BY <2>5, <2>6
<1>4. ASSUME NEW c \in E, NEW d \in E, c # d, S(c) = S(d)
      PROVE  Rarer(labels, c, d) \/ Rarer(labels, d, c)
  <2>1. PICK kc, kd : kc = Representation(labels, c) /\ kd = Representation(labels, d)
    OBVIOUS
  <2>2. kc \in Nat /\ kd \in Nat /\ Digest[c] \in Nat /\ Digest[d] \in Nat
    BY <2>1, KeysAreNumbers
  <2>3. Digest[c] # Digest[d]
    BY <1>4, FiniteCases, AdjudicationAssumption
  <2> QED
    BY <1>4, <2>1, <2>2, <2>3 DEF Rarer
<1> HIDE DEF E, S, P
<1>5. \A c \in E : ~Earlier(labels, c, c)
  BY <1>1, <1>2
<1>6. \A b, c, d \in E : Earlier(labels, b, c) /\ Earlier(labels, c, d) => Earlier(labels, b, d)
  BY <1>1, <1>2
<1>7. \A c, d \in E : c # d => Earlier(labels, c, d) \/ Earlier(labels, d, c)
  <2> SUFFICES ASSUME NEW c \in E, NEW d \in E, c # d
               PROVE  Earlier(labels, c, d) \/ Earlier(labels, d, c)
    OBVIOUS
  <2>1. CASE S(c) = S(d)
    BY <1>1, <1>2, <1>3, <1>4, <2>1
  <2>2. CASE S(c) # S(d)
    BY <1>1, <1>2, <2>2
  <2> QED
    BY <2>1, <2>2
<1> QED
  BY <1>5, <1>6, <1>7 DEF E

\* A batch has no more cases than it should: no two of them have the same number
\* of cases before them.
LEMMA BatchBounded ==
  ASSUME NEW labels
  PROVE  /\ IsFiniteSet(Stratified(labels)) /\ Cardinality(Stratified(labels)) <= BatchCases
         /\ Cardinality(Stratified(labels)) \in Nat
<1> DEFINE E == EligibleCases(labels)
           Before(c) == {d \in E : Earlier(labels, d, c)}
           rank == [c \in Stratified(labels) |-> Cardinality(Before(c))]
<1>1. BatchCases \in Nat \ {0} /\ IsFiniteSet(E)
  BY AdjudicationAssumption, FiniteCases
<1>2. Stratified(labels) = {c \in E : Cardinality(Before(c)) < BatchCases}
  BY DEF Stratified
<1>3. \A c \in E : IsFiniteSet(Before(c)) /\ Cardinality(Before(c)) \in Nat
  BY <1>1, FS_Subset, FS_CardinalityType
<1>4. ASSUME NEW c \in E, NEW d \in E, Earlier(labels, c, d)
      PROVE  Cardinality(Before(c)) < Cardinality(Before(d))
  <2>1. Before(c) \subseteq Before(d) /\ c \in Before(d) /\ c \notin Before(c)
    BY <1>4, TurnsOrdered
  <2>2. IsFiniteSet(Before(d))
    BY <1>3
  <2> HIDE DEF Before
  <2> QED
    BY <2>1, <2>2, Fewer
<1>5. \A c \in Stratified(labels) : rank[c] = Cardinality(Before(c)) /\ c \in E
  BY <1>2
<1>6. \A c, d \in Stratified(labels) : c # d => rank[c] # rank[d]
  <2> SUFFICES ASSUME NEW c \in Stratified(labels), NEW d \in Stratified(labels), c # d
               PROVE  rank[c] # rank[d]
    OBVIOUS
  <2>1. Earlier(labels, c, d) \/ Earlier(labels, d, c)
    BY <1>5, TurnsOrdered
  <2>2. rank[c] = Cardinality(Before(c)) /\ rank[d] = Cardinality(Before(d)) /\ c \in E /\ d \in E
    BY <1>5
  <2>3. Cardinality(Before(c)) \in Nat /\ Cardinality(Before(d)) \in Nat
    BY <1>3, <2>2
  <2>4. Cardinality(Before(c)) < Cardinality(Before(d)) \/ Cardinality(Before(d)) < Cardinality(Before(c))
    BY <1>4, <2>1, <2>2
  <2> HIDE DEF rank, Before
  <2> QED
    BY <2>2, <2>3, <2>4
<1>7. rank \in Injection(Stratified(labels), 0..BatchCases - 1)
  <2>1. \A c \in Stratified(labels) : Cardinality(Before(c)) \in 0..BatchCases - 1
    <3>1. \A c \in Stratified(labels) :
            Cardinality(Before(c)) \in Nat /\ Cardinality(Before(c)) < BatchCases
      BY <1>2, <1>3
    <3> HIDE DEF Before
    <3> QED
      BY <1>1, <3>1
  <2>2. rank \in [Stratified(labels) -> 0..BatchCases - 1]
    BY <2>1
  <2> HIDE DEF rank
  <2> QED
    BY <1>6, <2>2 DEF Injection, IsInjective
<1>8. IsFiniteSet(0..BatchCases - 1) /\ Cardinality(0..BatchCases - 1) = BatchCases
  BY <1>1, FS_Interval
<1> HIDE DEF rank
<1>9. IsFiniteSet(Stratified(labels)) /\ Cardinality(Stratified(labels)) <= BatchCases
  BY <1>7, <1>8, FS_Injection
<1> QED
  BY <1>9, FS_CardinalityType

-----------------------------------------------------------------------------
IsSeq(s) == s \in Seq({s[i] : i \in DOMAIN s})

\* A label that is verified was so at first, or a reviewer put it at a place
\* that has its reference.
SoundLabel(e, label) ==
  /\ DOMAIN label = {"status", "document", "level"}
  /\ label.status = "verified" =>
       \/ label = RootLabels[e]
       \/ /\ HasAnchor(e, label.document) /\ SupportsLevel(e, label.document)
          /\ label.level = AnchorLevel[e][label.document]
SoundLabels(labels) == DOMAIN labels = Evidence /\ \A e \in Evidence : SoundLabel(e, labels[e])

\* A normal queue has what is not verified in its sidecar, of as many cases as
\* fit in a batch.
SoundQueue(q) ==
  /\ q.rows \subseteq Evidence
  /\ ~q.targeted => /\ \A e \in q.rows : q.source[e].status # "verified"
                    /\ \E batch : /\ {CaseOf[e] : e \in q.rows} \subseteq batch
                                  /\ IsFiniteSet(batch) /\ Cardinality(batch) <= BatchCases

Signed(q, decided) ==
  /\ DOMAIN decided = q.rows
  /\ \A e \in q.rows : decided[e].status = "verified" => \E d : decided[e].candidate = {d}

Built(p) ==
  LET q == queues[p.queue]
  IN  /\ p.queue \in DOMAIN queues
      /\ Signed(q, p.decided) /\ \A e \in q.rows : Valid(e, p.decided[e])
      /\ SoundLabels(p.source) /\ p.source = q.source
      /\ p.proposed = Proposed(p.source, q.rows, p.decided)
      /\ p.ready = Ready(p.queue, p.proposed)

GoldInv ==
  /\ IsSeq(queues) /\ IsSeq(decisions) /\ Len(queues) = Len(decisions) /\ IsSeq(sidecars)
  /\ \A q \in DOMAIN queues : SoundQueue(queues[q]) /\ Signed(queues[q], decisions[q])
  /\ \A s \in DOMAIN sidecars : SoundLabels(sidecars[s])
  /\ \A p \in promotions : Built(p)
  /\ DOMAIN adjudicator = Adjudicators
  /\ \A o \in Adjudicators : /\ DOMAIN adjudicator[o] = {"loaded", "edition", "sidecar"}
                              /\ adjudicator[o].sidecar \in DOMAIN sidecars

-----------------------------------------------------------------------------
\* What appending does to a sequence.
LEMMA Appended ==
  ASSUME NEW s, NEW x, IsSeq(s)
  PROVE  LET t == Append(s, x)
         IN  /\ IsSeq(t) /\ Len(t) = Len(s) + 1 /\ DOMAIN t = DOMAIN s \union {Len(t)}
             /\ t[Len(t)] = x /\ \A i \in DOMAIN s : t[i] = s[i]
<1>0. PICK t : t = Append(s, x)
  OBVIOUS
<1>1. PICK S : S = {s[i] : i \in DOMAIN s} \union {x}
  OBVIOUS
<1>2. s \in Seq(S)
  BY <1>1 DEF IsSeq
<1>3. /\ t \in Seq(S) /\ Len(t) = Len(s) + 1 /\ DOMAIN t = 1..Len(s) + 1 /\ DOMAIN s = 1..Len(s)
      /\ Len(s) \in Nat /\ t[Len(s) + 1] = x /\ \A i \in DOMAIN s : t[i] = s[i]
  BY <1>0, <1>1, <1>2
<1>4. IsSeq(t)
  BY <1>3 DEF IsSeq
<1>5. Len(t) \in 1..Len(t) /\ 1..Len(s) + 1 = 1..Len(s) \union {Len(s) + 1}
  BY <1>3
<1> QED
  BY <1>0, <1>3, <1>4, <1>5

\* Review of one row changes nothing else.
LEMMA Rewritten ==
  ASSUME NEW s, NEW q \in DOMAIN s, NEW x, IsSeq(s)
  PROVE  /\ IsSeq([s EXCEPT ![q] = x]) /\ Len([s EXCEPT ![q] = x]) = Len(s)
         /\ DOMAIN [s EXCEPT ![q] = x] = DOMAIN s
<1>1. PICK t : t = [s EXCEPT ![q] = x]
  OBVIOUS
<1>2. PICK n : n \in Nat /\ DOMAIN s = 1..n /\ Len(s) = n
  BY DEF IsSeq
<1>3. DOMAIN t = 1..n /\ t = [i \in 1..n |-> IF i = q THEN x ELSE s[i]]
  BY <1>1, <1>2 DEF IsSeq
<1>4. t \in Seq({t[i] : i \in 1..n})
  BY <1>2, <1>3
<1>5. Len(t) = n
  BY <1>2, <1>3, <1>4
<1> QED
  BY <1>1, <1>2, <1>3, <1>4, <1>5 DEF IsSeq

\* The labels that a queue's decisions lead to.
LEMMA ProposalSound ==
  ASSUME NEW labels, SoundLabels(labels), NEW q, SoundQueue(q), NEW decided, Signed(q, decided),
         \A e \in q.rows : Valid(e, decided[e])
  PROVE  /\ SoundLabels(Proposed(labels, q.rows, decided))
         /\ \A e \in q.rows : Proposed(labels, q.rows, decided)[e].status = decided[e].status
<1>1. ASSUME NEW e \in q.rows
      PROVE  /\ SoundLabel(e, Decided(e, labels[e], decided[e]))
             /\ Decided(e, labels[e], decided[e]).status = decided[e].status
  <2>1. PICK label, decision : label = labels[e] /\ decision = decided[e]
    OBVIOUS
  <2>2. SoundLabel(e, label) /\ Valid(e, decision)
    BY <2>1 DEF SoundLabels, SoundQueue
  <2>3. CASE decision.status = "verified"
    <3>1. PICK d : decision.candidate = {d}
      BY <2>1, <2>3 DEF Signed
    <3>2. HasAnchor(e, d) /\ SupportsLevel(e, d)
      BY <2>2, <2>3, <3>1 DEF Valid
    <3>3. Decided(e, label, decision) =
            [status |-> "verified", document |-> d, level |-> AnchorLevel[e][d]]
      BY <2>3, <3>1 DEF Decided
    <3> QED
      BY <2>1, <2>3, <3>2, <3>3 DEF SoundLabel
  <2>4. CASE decision.status # "verified"
    <3>1. Decided(e, label, decision) = [label EXCEPT !.status = decision.status]
      BY <2>4 DEF Decided
    <3>2. DOMAIN label = {"status", "document", "level"}
      BY <2>2 DEF SoundLabel
    <3> QED
      BY <2>1, <2>4, <3>1, <3>2 DEF SoundLabel
  <2> QED
    BY <2>3, <2>4
<1>2. PICK proposed : proposed = Proposed(labels, q.rows, decided)
  OBVIOUS
<1>3. /\ DOMAIN proposed = Evidence
      /\ \A e \in Evidence : proposed[e] = IF e \in q.rows THEN Decided(e, labels[e], decided[e])
                                            ELSE labels[e]
  BY <1>2 DEF Proposed
<1> QED
  BY <1>1, <1>2, <1>3 DEF SoundLabels, SoundQueue

\* Nothing is queued or promoted at first.
LEMMA InitGold == GoldInit => GoldInv
<1> SUFFICES ASSUME GoldInit PROVE GoldInv
  OBVIOUS
<1>1. \A s \in DOMAIN sidecars : SoundLabels(sidecars[s])
  BY AdjudicationAssumption DEF GoldInit, SoundLabels, SoundLabel
<1>2. IsSeq(queues) /\ IsSeq(decisions) /\ Len(queues) = Len(decisions) /\ IsSeq(sidecars)
  BY DEF GoldInit, IsSeq
<1>3. DOMAIN queues = {} /\ promotions = {} /\ 1 \in DOMAIN sidecars
  BY DEF GoldInit
<1>4. /\ DOMAIN adjudicator = Adjudicators
      /\ \A o \in Adjudicators : /\ DOMAIN adjudicator[o] = {"loaded", "edition", "sidecar"}
                                  /\ adjudicator[o].sidecar = 1
  BY DEF GoldInit, Away
<1> QED
  BY <1>1, <1>2, <1>3, <1>4 DEF GoldInv

\* What was promoted stays what its queue stands for.
LEMMA BuiltStays ==
  ASSUME GoldInv, \A q \in DOMAIN queues : q \in DOMAIN queues' /\ queues'[q] = queues[q]
  PROVE  \A p \in promotions : Built(p)'
<1> SUFFICES ASSUME NEW p \in promotions PROVE Built(p)'
  OBVIOUS
<1>1. Built(p)
  BY DEF GoldInv
<1>2. p.queue \in DOMAIN queues' /\ queues'[p.queue] = queues[p.queue]
  BY <1>1 DEF Built
<1>3. Ready(p.queue, p.proposed)' = Ready(p.queue, p.proposed)
  BY <1>2 DEF Ready
<1> QED
  BY <1>1, <1>2, <1>3 DEF Built

\* Every step keeps queues, sidecars and previews together.
LEMMA GoldStep == GoldInv /\ [GoldNext]_goldVars => GoldInv'
<1> SUFFICES ASSUME GoldInv, [GoldNext]_goldVars PROVE GoldInv'
  OBVIOUS
<1>0. /\ IsSeq(queues) /\ IsSeq(decisions) /\ Len(queues) = Len(decisions) /\ IsSeq(sidecars)
      /\ \A q \in DOMAIN queues : SoundQueue(queues[q]) /\ Signed(queues[q], decisions[q])
      /\ \A s \in DOMAIN sidecars : SoundLabels(sidecars[s])
      /\ \A p \in promotions : Built(p)
      /\ DOMAIN adjudicator = Adjudicators
      /\ \A o \in Adjudicators : /\ DOMAIN adjudicator[o] = {"loaded", "edition", "sidecar"}
                                  /\ adjudicator[o].sidecar \in DOMAIN sidecars
      /\ DOMAIN queues = DOMAIN decisions
  BY DEF GoldInv, IsSeq
\* A queue of a sidecar.
<1>1. ASSUME NEW s \in DOMAIN sidecars, NEW cases, NEW targeted, WriteQueue(s, cases, targeted),
             ~targeted => IsFiniteSet(cases) /\ Cardinality(cases) <= BatchCases
      PROVE  GoldInv'
  <2>1. PICK rows : rows = QueueRows(sidecars[s], cases, targeted)
    OBVIOUS
  <2>2. PICK queue : /\ queue.source = sidecars[s] /\ queue.targeted = targeted
                     /\ queue.rows = rows /\ queues' = Append(queues, queue)
    BY <1>1, <2>1 DEF WriteQueue
  <2>3. PICK decision : decision = [e \in rows |-> Undecided] /\ decisions' = Append(decisions, decision)
    BY <1>1, <2>1 DEF WriteQueue
  <2>4. SoundQueue(queue)
    <3>1. rows \subseteq Evidence
      BY <2>1 DEF QueueRows, OfCase, Unresolved
    <3>2. ~targeted => /\ \A e \in rows : sidecars[s][e].status # "verified"
                       /\ {CaseOf[e] : e \in rows} \subseteq cases
      BY <2>1 DEF QueueRows, OfCase, Unresolved
    <3> QED
      BY <1>1, <2>2, <3>1, <3>2 DEF SoundQueue
  <2>5. Signed(queue, decision)
    BY <2>2, <2>3 DEF Signed, Undecided
  <2>6. /\ IsSeq(queues') /\ Len(queues') = Len(queues) + 1
        /\ DOMAIN queues' = DOMAIN queues \union {Len(queues')}
        /\ queues'[Len(queues')] = queue /\ \A i \in DOMAIN queues : queues'[i] = queues[i]
    BY <1>0, <2>2, Appended
  <2>7. /\ IsSeq(decisions') /\ Len(decisions') = Len(decisions) + 1
        /\ DOMAIN decisions' = DOMAIN decisions \union {Len(decisions')}
        /\ decisions'[Len(decisions')] = decision
        /\ \A i \in DOMAIN decisions : decisions'[i] = decisions[i]
    BY <1>0, <2>3, Appended
  <2>8. \A p \in promotions : Built(p)'
    BY <2>6, BuiltStays
  <2>9. UNCHANGED <<sidecars, promotions, adjudicator>>
    BY <1>1 DEF WriteQueue
  <2>10. ASSUME NEW q \in DOMAIN queues'
         PROVE  SoundQueue(queues'[q]) /\ Signed(queues'[q], decisions'[q])
    <3>1. CASE q \in DOMAIN queues
      BY <1>0, <2>6, <2>7, <3>1
    <3>2. CASE q = Len(queues')
      BY <1>0, <2>4, <2>5, <2>6, <2>7, <3>2
    <3> QED
      BY <2>6, <2>10, <3>1, <3>2
  <2> QED
    BY <1>0, <2>6, <2>7, <2>8, <2>9, <2>10 DEF GoldInv
<1>2. CASE NormalQueue
  <2>1. PICK s \in DOMAIN sidecars : WriteQueue(s, Stratified(sidecars[s]), FALSE)
    BY <1>2 DEF NormalQueue
  <2> QED
    BY <1>1, <2>1, BatchBounded
<1>3. CASE TargetedQueue
  BY <1>1, <1>3 DEF TargetedQueue
<1>4. CASE Review
  <2>1. PICK q \in DOMAIN queues : \E e \in queues[q].rows :
          /\ \E d \in Reviews(q, e) : decisions' = [decisions EXCEPT ![q][e] = d]
          /\ UNCHANGED <<queues, sidecars, promotions, adjudicator>>
    BY <1>4 DEF Review
  <2>2. PICK e \in queues[q].rows : \E d \in Reviews(q, e) :
          decisions' = [decisions EXCEPT ![q] = [decisions[q] EXCEPT ![e] = d]]
    BY <2>1
  <2>3. PICK d \in Reviews(q, e) :
          decisions' = [decisions EXCEPT ![q] = [decisions[q] EXCEPT ![e] = d]]
    BY <2>2
  <2>4. PICK decided : decided = [decisions[q] EXCEPT ![e] = d]
    OBVIOUS
  <2>5. Signed(queues[q], decided)
    <3>1. Signed(queues[q], decisions[q])
      BY <1>0
    <3>2. d.status = "verified" => \E x : d.candidate = {x}
      BY DEF Reviews
    <3> QED
      BY <2>4, <3>1, <3>2 DEF Signed
  <2>6. /\ IsSeq(decisions') /\ Len(decisions') = Len(decisions)
        /\ DOMAIN decisions' = DOMAIN decisions
    BY <1>0, <2>3, Rewritten
  <2>7. \A i \in DOMAIN queues : decisions'[i] = IF i = q THEN decided ELSE decisions[i]
    BY <1>0, <2>4, <2>3
  <2>8. \A p \in promotions : Built(p)'
    BY <2>1, BuiltStays
  <2> QED
    BY <1>0, <2>1, <2>5, <2>6, <2>7, <2>8 DEF GoldInv
<1>5. CASE EditDataset \/ UNCHANGED goldVars
  <2>1. UNCHANGED <<queues, decisions, sidecars, promotions, adjudicator>>
    BY <1>5 DEF EditDataset, goldVars
  <2>2. \A p \in promotions : Built(p)'
    BY <2>1, BuiltStays
  <2> QED
    BY <1>0, <2>1, <2>2 DEF GoldInv
<1>6. ASSUME NEW o \in Adjudicators, LoadSources(o) \/ Preview(o) \/ Quit(o) PROVE GoldInv'
  <2>1. UNCHANGED <<queues, decisions, sidecars, promotions>>
    BY <1>6 DEF LoadSources, Preview, Quit
  <2>2. PICK k : k.sidecar \in DOMAIN sidecars /\ DOMAIN k = {"loaded", "edition", "sidecar"}
                 /\ adjudicator' = [adjudicator EXCEPT ![o] = k]
    <3>1. 1 \in DOMAIN sidecars
      BY <1>0 DEF IsSeq
    <3> QED
      BY <1>6, <3>1 DEF LoadSources, Preview, Quit, Leave, Away
  <2>3. \A p \in promotions : Built(p)'
    BY <2>1, BuiltStays
  <2> QED
    BY <1>0, <2>1, <2>2, <2>3 DEF GoldInv
<1>7. ASSUME NEW o \in Adjudicators, Promote(o) PROVE GoldInv'
  <2>1. PICK q \in Buildable(o) : /\ sidecars' = Append(sidecars, BuildPreview(o, q).proposed)
                                  /\ promotions' = promotions \union {BuildPreview(o, q)}
    BY <1>7 DEF Promote
  <2>2. PICK p : p = BuildPreview(o, q)
    OBVIOUS
  <2>3. PICK labels : labels = sidecars[adjudicator[o].sidecar]
    OBVIOUS
  <2>4. /\ p.queue = q /\ p.decided = decisions[q] /\ p.source = labels
        /\ p.proposed = Proposed(labels, queues[q].rows, decisions[q])
        /\ p.ready = Ready(q, p.proposed)
    BY <2>2, <2>3 DEF BuildPreview
  <2>5. /\ q \in DOMAIN queues /\ queues[q].source = labels
        /\ \A e \in queues[q].rows : Valid(e, decisions[q][e])
    BY <2>1, <2>3 DEF Buildable, QueueBound
  <2>6. SoundLabels(labels)
    BY <1>0, <2>3
  <2>7. Built(p)
    BY <1>0, <2>4, <2>5, <2>6 DEF Built
  <2>8. SoundLabels(p.proposed)
    BY <1>0, <2>4, <2>5, <2>6, ProposalSound
  <2>9. UNCHANGED <<queues, decisions>> /\ adjudicator' = [adjudicator EXCEPT ![o] = Away]
    BY <1>7 DEF Promote, Leave
  <2>10. /\ IsSeq(sidecars') /\ Len(sidecars') = Len(sidecars) + 1
         /\ DOMAIN sidecars' = DOMAIN sidecars \union {Len(sidecars')}
         /\ sidecars'[Len(sidecars')] = p.proposed
         /\ \A i \in DOMAIN sidecars : sidecars'[i] = sidecars[i]
    BY <1>0, <2>1, <2>2, Appended
  <2>11. \A b \in promotions' : Built(b)'
    <3>1. \A b \in promotions : Built(b)'
      BY <2>9, BuiltStays
    <3>2. Built(p)'
      BY <2>7, <2>9 DEF Built, Ready
    <3> QED
      BY <2>1, <2>2, <3>1, <3>2
  <2>12. \A s \in DOMAIN sidecars' : SoundLabels(sidecars'[s])
    BY <1>0, <2>8, <2>10
  <2>13. 1 \in DOMAIN sidecars'
    BY <1>0, <2>10 DEF IsSeq
  <2> QED
    BY <1>0, <2>9, <2>10, <2>11, <2>12, <2>13 DEF GoldInv, Away
<1> QED
  BY <1>2, <1>3, <1>4, <1>5, <1>6, <1>7 DEF GoldNext

\* A promotion of a normal queue is ready only if it resolves all of its cases:
\* they are no more than a batch.
LEMMA ReadyResolves ==
  ASSUME NEW p, Built(p), SoundQueue(queues[p.queue]), p.ready, ~queues[p.queue].targeted,
         NEW e \in queues[p.queue].rows
  PROVE  Unresolved(p.proposed, CaseOf[e]) = {}
<1> DEFINE cases == {CaseOf[x] : x \in queues[p.queue].rows}
           resolved == {c \in cases : Unresolved(p.proposed, c) = {}}
<1>1. Cardinality(resolved) = BatchCases
  BY DEF Built, Ready
<1>2. PICK batch : cases \subseteq batch /\ IsFiniteSet(batch) /\ Cardinality(batch) <= BatchCases
  BY DEF SoundQueue
<1>3. resolved \subseteq cases /\ CaseOf[e] \in cases
  OBVIOUS
<1>4. resolved = cases
  <2> HIDE DEF cases, resolved
  <2>1. BatchCases \in Nat
    BY AdjudicationAssumption
  <2>2. IsFiniteSet(cases) /\ Cardinality(cases) <= Cardinality(batch)
    BY <1>2, FS_Subset
  <2>3. Cardinality(cases) \in Nat /\ Cardinality(batch) \in Nat
    BY <1>2, <2>2, FS_CardinalityType
  <2>4. Cardinality(resolved) <= Cardinality(cases)
    BY <1>3, <2>2, FS_Subset
  <2>5. Cardinality(resolved) = Cardinality(cases)
    BY <1>1, <1>2, <2>1, <2>2, <2>3, <2>4
  <2> QED
    BY <1>3, <2>2, <2>5, FS_Subset
<1> QED
  BY <1>3, <1>4

\* A label is then what a reviewer decided.
LEMMA ReviewedWhenSound == GoldInv => GoldAsReviewed
<1> SUFFICES ASSUME GoldInv PROVE GoldAsReviewed
  OBVIOUS
<1>1. ASSUME NEW s \in DOMAIN sidecars, NEW e \in Evidence, sidecars[s][e].status = "verified"
      PROVE  \/ sidecars[s][e] = RootLabels[e]
             \/ /\ HasAnchor(e, sidecars[s][e].document)
                /\ SupportsLevel(e, sidecars[s][e].document)
                /\ sidecars[s][e].level = AnchorLevel[e][sidecars[s][e].document]
  BY <1>1 DEF GoldInv, SoundLabels, SoundLabel
<1>2. ASSUME NEW p \in promotions, NEW e \in Evidence
      PROVE  /\ e \in queues[p.queue].rows =>
                  /\ p.decided[e].status # "pending"
                  /\ p.proposed[e].status = p.decided[e].status
             /\ e \notin queues[p.queue].rows => p.proposed[e] = p.source[e]
             /\ ~queues[p.queue].targeted /\ p.source[e].status = "verified" =>
                  p.proposed[e] = p.source[e]
             /\ p.ready /\ ~queues[p.queue].targeted /\ e \in queues[p.queue].rows =>
                  Unresolved(p.proposed, CaseOf[e]) = {}
  <2>1. Built(p)
    BY DEF GoldInv
  <2>2. PICK q : q = queues[p.queue]
    OBVIOUS
  <2>3. /\ SoundQueue(q) /\ Signed(q, p.decided) /\ \A x \in q.rows : Valid(x, p.decided[x])
        /\ SoundLabels(p.source) /\ p.source = q.source
        /\ p.proposed = Proposed(p.source, q.rows, p.decided)
    BY <2>1, <2>2 DEF GoldInv, Built
  <2>4. e \in q.rows => /\ p.decided[e].status # "pending"
                        /\ p.proposed[e].status = p.decided[e].status
    <3>1. \A x \in q.rows : p.proposed[x].status = p.decided[x].status
      BY <2>3, ProposalSound
    <3> QED
      BY <2>3, <3>1 DEF Valid
  <2>5. e \notin q.rows => p.proposed[e] = p.source[e]
    BY <2>3 DEF Proposed
  <2>6. ~q.targeted /\ p.source[e].status = "verified" => e \notin q.rows
    BY <2>3 DEF SoundQueue
  <2>7. p.ready /\ ~q.targeted /\ e \in q.rows => Unresolved(p.proposed, CaseOf[e]) = {}
    BY <2>1, <2>2, <2>3, ReadyResolves
  <2> QED
    BY <2>2, <2>4, <2>5, <2>6, <2>7
<1> QED
  BY <1>1, <1>2 DEF GoldAsReviewed

(* Gold labels change only as a reviewer decided, for any evidence, any     *)
(* candidates and number of commands and promotions, whatever is edited     *)
(* between the review, the preview and the promotion; and a promotion of a  *)
(* normal queue that is ready has resolved all of its cases, because the    *)
(* selection of cases never exceeds a batch (select_stratified_case_ids,    *)
(* build_promotion_preview).                                                *)
THEOREM ReviewedGold == GoldSpec => []GoldAsReviewed
BY InitGold, GoldStep, ReviewedWhenSound, PTL DEF GoldSpec

-----------------------------------------------------------------------------
(* The checkpoints of the Vertex migration                                 *)

\* The points are of models that a file is bound to.  What a file lists, and the batch
\* whose answer a command bound to it has, is there unless the file is doubtful.
ModelsAreBound ==
  \A r \in DOMAIN vertex.model : \E g \in Ledgers :
    ledger[g].bound # Unbound /\ vertex.model[r] = ledger[g].bound.model
LedgerHeld(f) ==
  /\ ledger[f].bound = Unbound \/ \E v \in Invocations : ledger[f].bound = BindingOf(v)
  /\ ledger[f].listed # {} => ledger[f].bound # Unbound
  /\ ~ledger[f].doubtful => ledger[f].listed \subseteq DOMAIN vertex.model
CommandHeld(o) ==
  LET c == migration[o]
  IN  /\ DOMAIN c = {"at", "by", "planned", "pending"}
      /\ Running(o) => c.by \in Invocations
      /\ c.at \in {"upload", "sent"} => ledger[c.by.file].bound = BindingOf(c.by)
      /\ c.at = "sent" /\ ~ledger[c.by.file].doubtful
           => SeqExt!ToSet(PendingBatch(o)) \subseteq DOMAIN vertex.model

MigrationInv ==
  /\ DOMAIN ledger = Ledgers
  /\ \A f \in Ledgers : DOMAIN ledger[f] = {"bound", "listed", "doubtful"}
  /\ DOMAIN migration = Migrators
  /\ DOMAIN vertex = {"size", "model"}
  /\ vertex.size = 0 => DOMAIN vertex.model = {}
  /\ ModelsAreBound
  /\ \A f \in Ledgers : LedgerHeld(f)
  /\ \A o \in Migrators : CommandHeld(o)

\* A command names a checkpoint, and its binding is of its model.
LEMMA BindingIs ==
  ASSUME NEW v \in Invocations
  PROVE  /\ v.file \in Ledgers /\ v.size # 0
         /\ BindingOf(v) # Unbound /\ BindingOf(v).model = v.model
BY MigrationAssumption DEF BindingOf, Unbound

\* A collection that is not there has no size and no point.
LEMMA AbsentIs == Absent.size = 0 /\ DOMAIN Absent.model = {} /\ DOMAIN Absent = {"size", "model"}
BY DEF Absent

\* No checkpoint lists anything at first.
LEMMA MigrationStarts == MigrationInit => MigrationInv
BY AbsentIs DEF MigrationInit, MigrationInv, ModelsAreBound, LedgerHeld, CommandHeld, NoMigration, Running

\* A command that goes on and touches neither the collection nor a file.
LEMMA CommandGoes ==
  ASSUME MigrationInv, NEW o \in Migrators, NEW c, migration' = [migration EXCEPT ![o] = c],
         UNCHANGED <<vertex, ledger>>, DOMAIN c = {"at", "by", "planned", "pending"},
         c.at \notin {"none", "failed", "reported"} => c.by \in Invocations,
         c.at \notin {"upload", "sent"}
  PROVE  MigrationInv'
<1>1. migration'[o] = c /\ \A p \in Migrators \ {o} : migration'[p] = migration[p]
  BY DEF MigrationInv
<1>2. CommandHeld(o)'
  BY <1>1 DEF CommandHeld, Running
<1>3. ASSUME NEW p \in Migrators \ {o} PROVE CommandHeld(p)'
  <2>1. CommandHeld(p)
    BY DEF MigrationInv
  <2> QED
    BY <1>1, <2>1 DEF CommandHeld, Running, PendingBatch
<1>4. \A f \in Ledgers : LedgerHeld(f)'
  BY DEF MigrationInv, LedgerHeld
<1> QED
  BY <1>2, <1>3, <1>4 DEF MigrationInv, ModelsAreBound

\* A step of one command leaves the others and what they rely on.
LEMMA CommandMoves ==
  ASSUME MigrationInv, NEW o \in Migrators, NEW at, Moves(o, at), UNCHANGED <<vertex, ledger>>,
         at \in {"create", "ensured"} => Running(o), at \in {"create", "ensured", "failed", "reported"}
  PROVE  MigrationInv'
<1> DEFINE c == [migration[o] EXCEPT !.at = at]
<1>1. CommandHeld(o) /\ DOMAIN migration = Migrators
  BY DEF MigrationInv
<1>2. /\ DOMAIN c = {"at", "by", "planned", "pending"} /\ c.at = at /\ c.by = migration[o].by
  BY <1>1 DEF CommandHeld
<1>3. migration' = [migration EXCEPT ![o] = c]
  BY <1>1 DEF Moves
<1>4. c.at \notin {"none", "failed", "reported"} => c.by \in Invocations
  BY <1>1, <1>2 DEF CommandHeld
<1> HIDE DEF c
<1> QED
  BY <1>2, <1>3, <1>4, CommandGoes

\* A collection that gains points, all of bound models, and a command that moves with it.
LEMMA PointsGrow ==
  ASSUME MigrationInv, NEW o \in Migrators, NEW at \in {"sent", "failed"}, Moves(o, at),
         UNCHANGED ledger, Stands(o, "upload"), vertex.size = migration[o].by.size,
         vertex' = Written(o)
  PROVE  MigrationInv'
<1> DEFINE batch == SeqExt!ToSet(PendingBatch(o))
           by == migration[o].by
<1>1. /\ DOMAIN vertex' = {"size", "model"}
      /\ DOMAIN vertex.model \subseteq DOMAIN vertex'.model
      /\ batch \subseteq DOMAIN vertex'.model
      /\ \A r \in DOMAIN vertex'.model :
           vertex'.model[r] = by.model
           \/ (r \in DOMAIN vertex.model /\ vertex'.model[r] = vertex.model[r])
      /\ vertex'.size = vertex.size
  <2> DEFINE grown == [r \in DOMAIN vertex.model \union batch |->
                         IF r \in batch THEN by.model ELSE vertex.model[r]]
  <2>1. DOMAIN vertex = {"size", "model"} /\ vertex' = [vertex EXCEPT !.model = grown]
    BY DEF Written, MigrationInv
  <2>2. /\ DOMAIN grown = DOMAIN vertex.model \union batch
        /\ \A r \in DOMAIN grown :
             grown[r] = by.model \/ (r \in DOMAIN vertex.model /\ grown[r] = vertex.model[r])
    <3> HIDE DEF batch
    <3> QED
      OBVIOUS
  <2> HIDE DEF grown, batch, by
  <2> QED
    BY <2>1, <2>2
<1>2. /\ by \in Invocations /\ ledger[by.file].bound = BindingOf(by)
      /\ DOMAIN migration[o] = {"at", "by", "planned", "pending"} /\ DOMAIN migration = Migrators
  BY DEF MigrationInv, CommandHeld, Stands, Running
<1>3. /\ migration'[o] = [migration[o] EXCEPT !.at = at]
      /\ \A p \in Migrators \ {o} : migration'[p] = migration[p]
  BY <1>2 DEF Moves
<1> HIDE DEF batch, by
<1>4. ModelsAreBound'
  <2>1. SUFFICES ASSUME NEW r \in DOMAIN vertex'.model
                 PROVE  \E g \in Ledgers : ledger[g].bound # Unbound
                                           /\ vertex'.model[r] = ledger[g].bound.model
    BY DEF ModelsAreBound
  <2>2. CASE vertex'.model[r] = by.model
    BY <1>2, <2>2, BindingIs
  <2>3. CASE r \in DOMAIN vertex.model /\ vertex'.model[r] = vertex.model[r]
    BY <2>3 DEF MigrationInv, ModelsAreBound
  <2> QED
    BY <1>1, <2>1, <2>2, <2>3
<1>5. ASSUME NEW f \in Ledgers PROVE LedgerHeld(f)'
  <2>1. LedgerHeld(f)
    BY DEF MigrationInv
  <2> QED
    BY <1>1, <2>1 DEF LedgerHeld
<1>6. CommandHeld(o)'
  <2>1. /\ DOMAIN migration'[o] = {"at", "by", "planned", "pending"} /\ migration'[o].by = by
        /\ migration'[o].at = at /\ migration'[o].pending = migration[o].pending
    BY <1>2, <1>3 DEF by
  <2>2. SeqExt!ToSet(PendingBatch(o))' = batch
    BY <2>1 DEF PendingBatch, batch
  <2> QED
    BY <1>1, <1>2, <2>1, <2>2 DEF CommandHeld
<1>7. ASSUME NEW p \in Migrators \ {o} PROVE CommandHeld(p)'
  <2>1. CommandHeld(p) /\ migration'[p] = migration[p]
    BY <1>3 DEF MigrationInv
  <2>2. SeqExt!ToSet(PendingBatch(p))' = SeqExt!ToSet(PendingBatch(p))
    BY <2>1 DEF PendingBatch
  <2> QED
    BY <1>1, <2>1, <2>2 DEF CommandHeld, Running
<1>8. DOMAIN migration' = Migrators /\ vertex'.size # 0
  BY <1>1, <1>2, BindingIs DEF Moves, by
<1> QED
  BY <1>1, <1>4, <1>5, <1>6, <1>7, <1>8 DEF MigrationInv

\* A checkpoint is opened for what it was bound to.
LEMMA LedgerOpens == ASSUME MigrationInv, NEW o \in Migrators, OpenLedger(o) PROVE MigrationInv'
<1> DEFINE by == migration[o].by
<1>1. /\ by \in Invocations /\ DOMAIN migration[o] = {"at", "by", "planned", "pending"}
      /\ DOMAIN migration = Migrators /\ DOMAIN ledger = Ledgers
      /\ \A f \in Ledgers : DOMAIN ledger[f] = {"bound", "listed", "doubtful"}
  BY DEF MigrationInv, CommandHeld, OpenLedger, Stands, Running
<1>2. CASE Fails(o) /\ UNCHANGED ledger
  BY <1>2, CommandMoves DEF OpenLedger, Fails
<1>3. CASE ~(Fails(o) /\ UNCHANGED ledger)
  <2>1. /\ ledger[by.file].bound \in {Unbound, BindingOf(by)}
        /\ ledger' = [ledger EXCEPT ![by.file].bound = BindingOf(by)]
        /\ UNCHANGED vertex
    BY <1>3 DEF OpenLedger
  <2>2. PICK missing : migration' = [migration EXCEPT ![o].at = "upload", ![o].pending = missing]
    BY <1>3 DEF OpenLedger
  <2>3. /\ DOMAIN ledger' = Ledgers /\ ledger'[by.file].bound = BindingOf(by)
        /\ \A f \in Ledgers : /\ DOMAIN ledger'[f] = {"bound", "listed", "doubtful"}
                              /\ ledger'[f].listed = ledger[f].listed
                              /\ ledger'[f].doubtful = ledger[f].doubtful
                              /\ ledger'[f].bound = ledger[f].bound
                                 \/ (f = by.file /\ ledger[f].bound = Unbound)
    <3> DEFINE file == [ledger[by.file] EXCEPT !.bound = BindingOf(by)]
    <3>1. by.file \in Ledgers /\ ledger' = [ledger EXCEPT ![by.file] = file]
      BY <1>1, <2>1, BindingIs
    <3>2. /\ DOMAIN file = {"bound", "listed", "doubtful"} /\ file.bound = BindingOf(by)
          /\ file.listed = ledger[by.file].listed /\ file.doubtful = ledger[by.file].doubtful
      BY <1>1, <3>1
    <3> HIDE DEF file, by
    <3> QED
      BY <1>1, <2>1, <3>1, <3>2
  <2>4. /\ DOMAIN migration'[o] = {"at", "by", "planned", "pending"} /\ migration'[o].by = by
        /\ migration'[o].at = "upload" /\ DOMAIN migration' = Migrators
        /\ \A p \in Migrators \ {o} : migration'[p] = migration[p]
    BY <1>1, <2>2
  <2> HIDE DEF by
  <2>5. ModelsAreBound'
    <3>1. \A g \in Ledgers : ledger[g].bound # Unbound => ledger'[g].bound = ledger[g].bound
      BY <2>3
    <3> QED
      BY <2>1, <3>1 DEF MigrationInv, ModelsAreBound
  <2>6. ASSUME NEW f \in Ledgers PROVE LedgerHeld(f)'
    <3>1. LedgerHeld(f)
      BY DEF MigrationInv
    <3>2. ledger'[f].bound = ledger[f].bound \/ ledger'[f].bound = BindingOf(by)
      BY <2>3
    <3> QED
      BY <1>1, <2>1, <2>3, <3>1, <3>2, BindingIs DEF LedgerHeld
  <2>7. CommandHeld(o)'
    BY <1>1, <2>3, <2>4 DEF CommandHeld
  <2>8. ASSUME NEW p \in Migrators \ {o} PROVE CommandHeld(p)'
    <3>1. CommandHeld(p) /\ migration'[p] = migration[p]
      BY <2>4 DEF MigrationInv
    <3>2. SeqExt!ToSet(PendingBatch(p))' = SeqExt!ToSet(PendingBatch(p))
      BY <3>1 DEF PendingBatch
    <3>3. migration[p].at \in {"upload", "sent"} =>
            /\ migration[p].by.file \in Ledgers
            /\ ledger'[migration[p].by.file].bound = ledger[migration[p].by.file].bound
      <4>1. SUFFICES ASSUME migration[p].at \in {"upload", "sent"}
                     PROVE  /\ migration[p].by.file \in Ledgers
                            /\ ledger'[migration[p].by.file].bound = ledger[migration[p].by.file].bound
        OBVIOUS
      <4>2. migration[p].by \in Invocations
            /\ ledger[migration[p].by.file].bound = BindingOf(migration[p].by)
        BY <3>1, <4>1 DEF CommandHeld, Running
      <4> QED
        BY <2>3, <4>2, BindingIs
    <3> QED
      BY <2>1, <2>3, <3>1, <3>2, <3>3 DEF CommandHeld, Running
  <2> QED
    BY <2>1, <2>3, <2>4, <2>5, <2>6, <2>7, <2>8 DEF MigrationInv
<1> QED
  BY <1>2, <1>3

\* A batch is listed after its points are there.
LEMMA BatchListed == ASSUME MigrationInv, NEW o \in Migrators, AcknowledgeBatch(o) PROVE MigrationInv'
<1> DEFINE by == migration[o].by
<1>1. /\ by \in Invocations /\ DOMAIN migration[o] = {"at", "by", "planned", "pending"}
      /\ DOMAIN migration = Migrators /\ DOMAIN ledger = Ledgers
      /\ \A f \in Ledgers : DOMAIN ledger[f] = {"bound", "listed", "doubtful"}
      /\ ledger[by.file].bound = BindingOf(by)
      /\ ~ledger[by.file].doubtful => Acknowledged(o) \subseteq DOMAIN vertex.model
  BY DEF MigrationInv, CommandHeld, AcknowledgeBatch, Stands, Running, Acknowledged
<1>2. /\ ledger' = [ledger EXCEPT ![by.file].listed = @ \union Acknowledged(o)]
      /\ UNCHANGED vertex
  BY DEF AcknowledgeBatch
<1>3. PICK rest : migration' = [migration EXCEPT ![o].at = "upload", ![o].pending = rest]
  BY DEF AcknowledgeBatch
<1>4. /\ DOMAIN ledger' = Ledgers
      /\ \A f \in Ledgers : /\ DOMAIN ledger'[f] = {"bound", "listed", "doubtful"}
                            /\ ledger'[f].bound = ledger[f].bound
                            /\ ledger'[f].doubtful = ledger[f].doubtful
                            /\ ledger'[f].listed = ledger[f].listed
                               \/ (/\ f = by.file
                                   /\ ledger'[f].listed = ledger[f].listed \union Acknowledged(o))
  <2> DEFINE file == [ledger[by.file] EXCEPT !.listed = @ \union Acknowledged(o)]
  <2>1. by.file \in Ledgers /\ ledger' = [ledger EXCEPT ![by.file] = file]
    BY <1>1, <1>2, BindingIs
  <2>2. /\ DOMAIN file = {"bound", "listed", "doubtful"} /\ file.bound = ledger[by.file].bound
        /\ file.listed = ledger[by.file].listed \union Acknowledged(o)
        /\ file.doubtful = ledger[by.file].doubtful
    BY <1>1, <2>1
  <2> HIDE DEF file, by
  <2> QED
    BY <1>1, <2>1, <2>2
<1>5. /\ DOMAIN migration'[o] = {"at", "by", "planned", "pending"} /\ migration'[o].by = by
      /\ migration'[o].at = "upload" /\ DOMAIN migration' = Migrators
      /\ \A p \in Migrators \ {o} : migration'[p] = migration[p]
  BY <1>1, <1>3
<1> HIDE DEF by
<1>6. ModelsAreBound'
  BY <1>2, <1>4 DEF MigrationInv, ModelsAreBound
<1>7. ASSUME NEW f \in Ledgers PROVE LedgerHeld(f)'
  <2>1. LedgerHeld(f)
    BY DEF MigrationInv
  <2> QED
    BY <1>1, <1>2, <1>4, <2>1, BindingIs DEF LedgerHeld
<1>8. CommandHeld(o)'
  BY <1>1, <1>4, <1>5, BindingIs DEF CommandHeld
<1>9. ASSUME NEW p \in Migrators \ {o} PROVE CommandHeld(p)'
  <2>1. CommandHeld(p) /\ migration'[p] = migration[p]
    BY <1>5 DEF MigrationInv
  <2>2. SeqExt!ToSet(PendingBatch(p))' = SeqExt!ToSet(PendingBatch(p))
    BY <2>1 DEF PendingBatch
  <2>3. Running(p) => migration[p].by.file \in Ledgers
    BY <2>1, BindingIs DEF CommandHeld
  <2> QED
    BY <1>2, <1>4, <2>1, <2>2, <2>3 DEF CommandHeld, Running
<1> QED
  BY <1>2, <1>4, <1>5, <1>6, <1>7, <1>8, <1>9 DEF MigrationInv

\* Making the collection takes no listed record away.
LEMMA CollectionMade == ASSUME MigrationInv, NEW o \in Migrators, CreateCollection(o) PROVE MigrationInv'
<1>1. /\ CommandHeld(o) /\ Running(o) /\ DOMAIN migration = Migrators
  BY DEF MigrationInv, CreateCollection, Stands, Running
<1>2. CASE vertex.size = 0
  <2>1. /\ DOMAIN vertex.model = {} /\ Moves(o, "ensured") /\ UNCHANGED ledger
        /\ vertex' = [Absent EXCEPT !.size = migration[o].by.size]
    BY <1>2 DEF CreateCollection, MigrationInv
  <2>0. DOMAIN vertex' = {"size", "model"} /\ DOMAIN vertex'.model = {}
    BY <2>1, AbsentIs
  <2>2. /\ migration'[o] = [migration[o] EXCEPT !.at = "ensured"] /\ DOMAIN migration' = Migrators
        /\ \A p \in Migrators \ {o} : migration'[p] = migration[p]
    BY <1>1, <2>1 DEF Moves
  <2>3. CommandHeld(o)'
    BY <1>1, <2>2 DEF CommandHeld, Running
  <2>4. ASSUME NEW p \in Migrators \ {o} PROVE CommandHeld(p)'
    <3>1. CommandHeld(p) /\ migration'[p] = migration[p]
      BY <2>2 DEF MigrationInv
    <3>2. SeqExt!ToSet(PendingBatch(p))' = SeqExt!ToSet(PendingBatch(p))
      BY <3>1 DEF PendingBatch
    <3> QED
      BY <2>0, <2>1, <3>1, <3>2 DEF CommandHeld, Running
  <2>5. \A f \in Ledgers : LedgerHeld(f)'
    BY <2>0, <2>1 DEF MigrationInv, LedgerHeld
  <2> QED
    BY <2>0, <2>1, <2>2, <2>3, <2>4, <2>5 DEF MigrationInv, ModelsAreBound
<1>3. CASE vertex.size # 0
  BY <1>3, CommandMoves DEF CreateCollection, Fails
<1> QED
  BY <1>2, <1>3

\* After a deletion whatever is still listed is doubtful.
LEMMA CollectionDropped == ASSUME MigrationInv, DropCollection PROVE MigrationInv'
<1>1. /\ DOMAIN vertex' = {"size", "model"} /\ DOMAIN vertex'.model = {}
      /\ UNCHANGED migration /\ DOMAIN ledger' = Ledgers
      /\ \A f \in Ledgers : /\ DOMAIN ledger'[f] = {"bound", "listed", "doubtful"}
                            /\ ledger'[f].bound = ledger[f].bound /\ ledger'[f].listed = ledger[f].listed
                            /\ ~ledger'[f].doubtful =>
                                 /\ ledger[f].listed = {}
                                 /\ ~\E o \in Migrators : Running(o) /\ migration[o].by.file = f
  BY AbsentIs DEF DropCollection, MigrationInv
<1>2. \A f \in Ledgers : LedgerHeld(f)'
  BY <1>1 DEF MigrationInv, LedgerHeld
<1>3. ASSUME NEW o \in Migrators PROVE CommandHeld(o)'
  <2>1. CommandHeld(o) /\ migration'[o] = migration[o]
    BY <1>1 DEF MigrationInv
  <2>2. Running(o) => migration[o].by.file \in Ledgers /\ ledger'[migration[o].by.file].doubtful
    BY <1>1, <2>1, BindingIs DEF CommandHeld
  <2> QED
    BY <1>1, <2>1, <2>2 DEF CommandHeld, Running
<1> QED
  BY <1>1, <1>2, <1>3 DEF MigrationInv, ModelsAreBound

\* Every step keeps what is listed among what is held.
LEMMA MigrationGoes == MigrationInv /\ [MigrationNext]_vertexVars => MigrationInv'
<1> SUFFICES ASSUME MigrationInv, [MigrationNext]_vertexVars PROVE MigrationInv'
  OBVIOUS
<1>1. CASE DropCollection
  BY <1>1, CollectionDropped
<1>2. ASSUME NEW o \in Migrators, PlanUpload(o) PROVE MigrationInv'
  <2>1. PICK v \in Invocations : migration' = [migration EXCEPT ![o] =
          [NoMigration EXCEPT !.at = "planned", !.by = v, !.planned = PlannedRecords(v)]]
    BY <1>2 DEF PlanUpload
  <2> DEFINE c == [NoMigration EXCEPT !.at = "planned", !.by = v, !.planned = PlannedRecords(v)]
  <2>2. DOMAIN c = {"at", "by", "planned", "pending"} /\ c.at = "planned" /\ c.by = v
    BY DEF NoMigration
  <2>3. migration' = [migration EXCEPT ![o] = c] /\ UNCHANGED <<vertex, ledger>>
    BY <1>2, <2>1 DEF PlanUpload
  <2> HIDE DEF c
  <2> QED
    BY <2>2, <2>3, CommandGoes
<1>3. ASSUME NEW o \in Migrators, FindCollection(o) \/ ReportUploaded(o) \/ Dies(o) PROVE MigrationInv'
  BY <1>3, CommandMoves DEF FindCollection, ReportUploaded, Dies, Fails, Stands, Running
<1>4. ASSUME NEW o \in Migrators, CreateCollection(o) PROVE MigrationInv'
  BY <1>4, CollectionMade
<1>5. ASSUME NEW o \in Migrators, OpenLedger(o) PROVE MigrationInv'
  BY <1>5, LedgerOpens
<1>6. ASSUME NEW o \in Migrators, UpsertPending(o) PROVE MigrationInv'
  BY <1>6, PointsGrow, CommandMoves DEF UpsertPending, Fails
<1>7. ASSUME NEW o \in Migrators, AcknowledgeBatch(o) PROVE MigrationInv'
  BY <1>7, BatchListed
<1>8. CASE UNCHANGED vertexVars
  BY <1>8 DEF vertexVars, MigrationInv, ModelsAreBound, LedgerHeld, CommandHeld, Running, PendingBatch
<1> QED
  BY <1>1, <1>2, <1>3, <1>4, <1>5, <1>6, <1>7, <1>8 DEF MigrationNext

(* Unless the collection was deleted meanwhile, a record that a checkpoint *)
(* lists has a point there, of the model the file is bound to or of one    *)
(* another file is bound to: for any settings, documents and number of     *)
(* commands that share collection and files, whatever fails or dies        *)
(* (ensure_migration_collection, MigrationCheckpoint,                      *)
(* upload_vertex_records).                                                 *)
THEOREM ListedHeld == MigrationSpec => []ListedIsHeld
<1>1. MigrationInv => ListedIsHeld
  <2>1. SUFFICES ASSUME MigrationInv, NEW f \in Ledgers, ~ledger[f].doubtful, NEW r \in ledger[f].listed
                 PROVE  /\ r \in DOMAIN vertex.model
                        /\ vertex.model[r] \in {ledger[g].bound.model : g \in Ledgers}
                        /\ (\A g \in Ledgers : \/ ledger[g].bound = Unbound
                                               \/ ledger[g].bound.model = ledger[f].bound.model)
                             => vertex.model[r] = ledger[f].bound.model
    BY DEF ListedIsHeld
  <2>2. r \in DOMAIN vertex.model
    BY <2>1 DEF MigrationInv, LedgerHeld
  <2>3. PICK g \in Ledgers : ledger[g].bound # Unbound /\ vertex.model[r] = ledger[g].bound.model
    BY <2>1, <2>2 DEF MigrationInv, ModelsAreBound
  <2> QED
    BY <2>2, <2>3
<1> QED
  BY <1>1, MigrationStarts, MigrationGoes, PTL DEF MigrationSpec

-----------------------------------------------------------------------------
(* Lists made position by position                                         *)

\* What 0 has and every successor inherits, every number has.
LEMMA Induction ==
  ASSUME NEW S, 0 \in S, \A n \in Nat : n \in S => n + 1 \in S
  PROVE  Nat \subseteq S
<1> SUFFICES ASSUME Nat \ S # {} PROVE FALSE
  OBVIOUS
<1>1. PICK x \in Nat \ S : \A y \in Nat \ S : x <= y
  BY LeastNumber
<1>2. x # 0 /\ x - 1 \in Nat /\ ~(x <= x - 1)
  BY <1>1
<1>3. x - 1 \in S
  BY <1>1, <1>2
<1> QED
  BY <1>2, <1>3

\* What a recursive function over the positions of a list makes of the value before.
Steps(total, V) == [(1..total) \X V -> V]
Unrolls(f, total, b, step) ==
  \A i \in 0..total : f[i] = IF i = 0 THEN b ELSE step[<<i, f[i - 1]>>]

\* What is made from the row before, position by position, exists and is of one set.
LEMMA Unrolled ==
  ASSUME NEW total \in Nat, NEW V, NEW b \in V, NEW step \in Steps(total, V)
  PROVE  \E f \in [0..total -> V] : Unrolls(f, total, b, step)
<1> DEFINE Made(n) == \E f \in [0..n -> V] : Unrolls(f, n, b, step)
           S == {n \in Nat : n <= total => Made(n)}
<1>1. 0 \in S
  <2> DEFINE f == [i \in 0..0 |-> b]
  <2>1. f \in [0..0 -> V] /\ f[0] = b /\ \A i \in 0..0 : i = 0
    OBVIOUS
  <2> HIDE DEF f
  <2>2. Unrolls(f, 0, b, step)
    BY <2>1 DEF Unrolls
  <2>3. Made(0)
    BY <2>1, <2>2
  <2> QED
    BY <2>3
<1>2. ASSUME NEW n \in Nat, n \in S PROVE n + 1 \in S
  <2> SUFFICES ASSUME n + 1 <= total PROVE Made(n + 1)
    OBVIOUS
  <2>1. PICK f \in [0..n -> V] : Unrolls(f, n, b, step)
    BY <1>2
  <2> DEFINE g == [i \in 0..n + 1 |-> IF i = n + 1 THEN step[<<n + 1, f[n]>>] ELSE f[i]]
  <2>2. step[<<n + 1, f[n]>>] \in V
    BY DEF Steps
  <2>3. g \in [0..n + 1 -> V]
    BY <2>1, <2>2
  <2>4. ASSUME NEW i \in 0..n + 1
        PROVE  g[i] = IF i = 0 THEN b ELSE step[<<i, g[i - 1]>>]
    <3>1. CASE i = n + 1
      BY <3>1
    <3>2. CASE i = 0
      <4>1. 0 \in 0..n /\ 0 # n + 1 /\ 0 \in 0..n + 1
        OBVIOUS
      <4>2. f[0] = b
        BY <2>1, <4>1 DEF Unrolls
      <4> QED
        BY <3>2, <4>1, <4>2
    <3>3. CASE i # n + 1 /\ i # 0
      <4>1. i \in 0..n /\ i - 1 \in 0..n
        BY <3>3
      <4>2. g[i] = f[i] /\ g[i - 1] = f[i - 1]
        BY <4>1
      <4>3. f[i] = step[<<i, f[i - 1]>>]
        BY <2>1, <3>3, <4>1 DEF Unrolls
      <4> QED
        BY <3>3, <4>2, <4>3
    <3> QED
      BY <3>1, <3>2, <3>3
  <2> QED
    BY <2>3, <2>4 DEF Unrolls
<1>3. total \in S
  BY <1>1, <1>2, Induction
<1> QED
  BY <1>3


-----------------------------------------------------------------------------
(* What a migration plans                                                  *)

\* What a command is called with: positive bounds, listed types, finitely many exclusions.
LEMMA Cast ==
  ASSUME NEW v \in Invocations
  PROVE  /\ {v.limit, v.per_document, v.max_points} \subseteq Nat \ {0}
         /\ v.types \in Seq(DOMAIN ByType) /\ IsFiniteSet(v.excluded)
         /\ \A j, k \in DOMAIN v.types : v.types[j] = v.types[k] => j = k
BY MigrationAssumption

\* A half goes to the even neighbour, so a whole quotient is itself.
LEMMA RoundedWhole ==
  ASSUME NEW m \in Nat, NEW b \in Nat \ {0}
  PROVE  Rounded(b * m, b) = m
<1>1. (b * m) \div b = m /\ (b * m) % b = 0
  OBVIOUS
<1>2. m % 2 \in {0, 1}
  OBVIOUS
<1> DEFINE a == b * m
<1>3. a \div b = m /\ a % b = 0
  BY <1>1
<1> HIDE DEF a
<1>4. 2 * 0 + (m % 2) <= b
  BY <1>2
<1>5. Rounded(a, b) = m
  BY <1>3, <1>4 DEF Rounded
<1> QED
  BY <1>5 DEF a

\* A rounded quotient is a number.
LEMMA RoundedInt == ASSUME NEW a \in Nat, NEW b \in Nat \ {0} PROVE Rounded(a, b) \in Int
BY DEF Rounded

\* Evenly spaced places start at the first one and, if there are two, end at the last.
LEMMA SpreadEnds ==
  ASSUME NEW n \in Nat \ {0}, NEW limit \in Nat \ {0}
  PROVE  LET s == Spread(n, limit)
         IN  /\ s \in Seq(Int) /\ s # << >> /\ s[1] = 0
             /\ limit > 1 => s[Len(s)] = n - 1
<1>1. CASE n <= limit
  <2>1. Spread(n, limit) = [i \in 1..n |-> i - 1]
    BY <1>1 DEF Spread
  <2> QED
    BY <2>1
<1>2. CASE n > limit /\ limit = 1
  BY <1>2 DEF Spread
<1>3. CASE n > limit /\ limit # 1
  <2> DEFINE at(i) == Rounded((i - 1) * (n - 1), limit - 1)
             s == [i \in 1..limit |-> at(i)]
  <2>1. Spread(n, limit) = s
    BY <1>3 DEF Spread
  <2>2. limit - 1 \in Nat \ {0} /\ n - 1 \in Nat
    BY <1>3
  <2>3. \A i \in 1..limit : at(i) \in Int
    BY <2>2, RoundedInt
  <2>4. at(1) = 0
    <3>1. (1 - 1) * (n - 1) = 0 /\ (limit - 1) * 0 = 0
      BY <2>2
    <3> HIDE DEF s
    <3>2. Rounded(0, limit - 1) = 0
      BY <2>2, <3>1, RoundedWhole
    <3> QED
      BY <3>1, <3>2
  <2>5. at(limit) = n - 1
    BY <2>2, RoundedWhole
  <2> HIDE DEF at
  <2>6. s \in [1..limit -> Int] /\ s[1] = 0 /\ s[limit] = n - 1
    BY <2>3, <2>4, <2>5
  <2> HIDE DEF s
  <2> QED
    BY <2>1, <2>6
<1> QED
  BY <1>1, <1>2, <1>3

\* A record is of its document, its place and its chunk.
VertexRecords == Nat \X Nat \X Int

\* The records of a document reach from its first chunk to its last one.
LEMMA RecordsSpan ==
  ASSUME NEW v \in Invocations, NEW d \in DOMAIN ChunksOf
  PROVE  LET s == RecordsOf(d, v)
         IN  /\ s \in Seq(VertexRecords)
             /\ d \notin Flawed =>
                  /\ \E i \in DOMAIN s : s[i][1] = d /\ s[i][3] = 0
                  /\ v.per_document > 1 =>
                       \E i \in DOMAIN s : s[i][1] = d /\ s[i][3] = ChunksOf[d] - 1
<1>1. CASE d \in Flawed
  <2>1. RecordsOf(d, v) = << >>
    BY <1>1 DEF RecordsOf
  <2> QED
    BY <1>1, <2>1
<1>2. CASE d \notin Flawed
  <2> DEFINE n == ChunksOf[d]
             chosen == Spread(n, v.per_document)
             s == [i \in DOMAIN chosen |-> <<d, i, chosen[i]>>]
  <2>1. n \in Nat \ {0} /\ d \in Nat /\ v.per_document \in Nat \ {0}
    BY <1>2, Cast, MigrationAssumption
  <2>2. RecordsOf(d, v) = s
    BY <1>2 DEF RecordsOf
  <2> HIDE DEF n
  <2>3. /\ chosen \in Seq(Int) /\ chosen # << >> /\ chosen[1] = 0
        /\ v.per_document > 1 => chosen[Len(chosen)] = n - 1
    BY <2>1, SpreadEnds
  <2> HIDE DEF chosen
  <2>4. Len(chosen) \in Nat \ {0} /\ DOMAIN chosen = 1..Len(chosen)
    BY <2>3
  <2>5. /\ 1 \in DOMAIN chosen /\ Len(chosen) \in DOMAIN chosen
        /\ \A i \in DOMAIN chosen : i \in Nat /\ chosen[i] \in Int
    BY <2>3, <2>4
  <2>6. s \in [1..Len(chosen) -> VertexRecords] /\ DOMAIN s = DOMAIN chosen
    BY <2>1, <2>4, <2>5 DEF VertexRecords
  <2>7. s \in Seq(VertexRecords)
    <3> HIDE DEF s
    <3> QED
      BY <2>4, <2>6, SeqDef
  <2>8. s[1] = <<d, 1, 0>> /\ (v.per_document > 1 => s[Len(chosen)] = <<d, Len(chosen), n - 1>>)
    BY <2>3, <2>5
  <2> HIDE DEF s
  <2> QED
    BY <2>2, <2>5, <2>6, <2>7, <2>8 DEF n
<1> QED
  BY <1>1, <1>2

\* The first n of a list: a prefix, and the whole list if it is shorter.
LEMMA FirstOfIs ==
  ASSUME NEW S, NEW s \in Seq(S), NEW n \in Nat
  PROVE  /\ FirstOf(s, n) \in Seq(S)
         /\ Len(FirstOf(s, n)) = IF n < Len(s) THEN n ELSE Len(s)
         /\ \A i \in 1..Len(FirstOf(s, n)) : i \in 1..Len(s) /\ FirstOf(s, n)[i] = s[i]
         /\ Len(FirstOf(s, n)) < n => FirstOf(s, n) = s
<1> DEFINE m == IF n < Len(s) THEN n ELSE Len(s)
<1>1. Len(s) \in Nat /\ m \in Nat /\ m <= Len(s)
  BY LenProperties
<1>2. FirstOf(s, n) = SubSeq(s, 1, m)
  BY DEF FirstOf
<1>3. m < n => m = Len(s)
  BY <1>1
<1>4. m = IF n < Len(s) THEN n ELSE Len(s)
  OBVIOUS
<1> HIDE DEF m
<1>5. \A i \in 1..m : s[i] \in S /\ i \in 1..Len(s)
  BY <1>1, ElementOfSeq
<1>6. /\ SubSeq(s, 1, m) \in Seq(S) /\ Len(SubSeq(s, 1, m)) = m
      /\ \A i \in 1..m : SubSeq(s, 1, m)[i] = s[i]
  BY <1>1, <1>5, SubSeqProperties
<1>7. SubSeq(s, 1, Len(s)) = s
  BY SubSeqFull
<1> QED
  BY <1>2, <1>3, <1>4, <1>5, <1>6, <1>7

\* A plan that is not cut has the records of all its documents.
LEMMA PlannedSpan ==
  ASSUME NEW v \in Invocations
  PROVE  LET p == PlannedRecords(v)
         IN  /\ p \in Seq(VertexRecords)
             /\ Len(p) < v.max_points =>
                  \A d \in Diverse(v) \intersect DOMAIN ChunksOf : \A j \in DOMAIN RecordsOf(d, v) :
                    \E i \in DOMAIN p : p[i] = RecordsOf(d, v)[j]
<1> DEFINE total == Len(ChunksOf)
           V == Seq(VertexRecords)
           sample == Diverse(v)
           of(d) == RecordsOf(d, v)
           more(l, d) == IF d \in sample THEN l \o of(d) ELSE l
           step == [p \in (1..total) \X V |-> more(p[2], p[1])]
<1>1. total \in Nat /\ DOMAIN ChunksOf = 1..total
  BY MigrationAssumption
<1>2. \A d \in 1..total : of(d) \in V
  BY <1>1, RecordsSpan
<1>3. << >> \in V /\ step \in Steps(total, V)
  <2>1. ASSUME NEW l \in V, NEW d \in 1..total PROVE more(l, d) \in V
    <3> HIDE DEF total, sample, of
    <3>1. l \o of(d) \in V
      BY <1>2, ConcatProperties
    <3> QED
      BY <3>1
  <2> HIDE DEF total, more
  <2>2. step \in [(1..total) \X V -> V]
    BY <2>1
  <2> QED
    BY <2>2, EmptySeq DEF Steps
<1>4. PICK f \in [0..total -> V] : Unrolls(f, total, << >>, step)
  <2> HIDE DEF total, V, step
  <2> QED
    BY <1>1, <1>3, Unrolled
<1>5. f = [d \in 0..total |-> IF d = 0 THEN << >> ELSE more(f[d - 1], d)]
  <2> HIDE DEF total, V, more
  <2>1. \A d \in 1..total : step[<<d, f[d - 1]>>] = more(f[d - 1], d)
    BY <1>1
  <2> HIDE DEF step
  <2>2. ASSUME NEW d \in 0..total PROVE f[d] = IF d = 0 THEN << >> ELSE more(f[d - 1], d)
    <3>1. CASE d = 0
      BY <1>4, <3>1 DEF Unrolls
    <3>2. CASE d # 0
      <4>1. d \in 1..total
        BY <1>1, <3>2
      <4> QED
        BY <1>4, <2>1, <3>2, <4>1 DEF Unrolls
    <3> QED
      BY <3>1, <3>2
  <2> QED
    BY <1>4, <2>2
<1> DEFINE upTo[d \in 0..total] ==
      IF d = 0 THEN << >> ELSE IF d \in sample THEN upTo[d - 1] \o RecordsOf(d, v) ELSE upTo[d - 1]
<1>6. upTo = [d \in 0..total |-> IF d = 0 THEN << >> ELSE more(upTo[d - 1], d)]
  <2> HIDE DEF total, sample
  <2> QED
    BY <1>5
<1>7. PlannedRecords(v) = FirstOf(upTo[total], v.max_points)
  BY DEF PlannedRecords
<1> HIDE DEF upTo, total
<1> DEFINE Whole(n) == /\ upTo[n] \in V
                       /\ \A d \in 1..n : d \in sample => \A j \in DOMAIN of(d) :
                            \E i \in DOMAIN upTo[n] : upTo[n][i] = of(d)[j]
           G == {n \in Nat : n <= total => Whole(n)}
<1>8. 0 \in G
  <2>1. upTo[0] = << >>
    BY <1>1, <1>6
  <2>2. upTo[0] \in V
    BY <1>3, <2>1
  <2>3. \A d \in 1..0 : FALSE
    OBVIOUS
  <2> HIDE DEF V, of, sample
  <2>4. Whole(0)
    BY <2>2, <2>3
  <2> HIDE DEF Whole
  <2> QED
    BY <2>4
<1>9. ASSUME NEW n \in Nat, n \in G PROVE n + 1 \in G
  <2> SUFFICES ASSUME n + 1 <= total PROVE Whole(n + 1)
    OBVIOUS
  <2>1. n + 1 \in 0..total /\ n + 1 \in 1..total /\ n <= total
    BY <1>1
  <2>2. upTo[n + 1] = more(upTo[n], n + 1)
    <3> HIDE DEF more
    <3> QED
      BY <1>6, <2>1
  <2>3. Whole(n)
    BY <1>9, <2>1
  <2>4. CASE n + 1 \notin sample
    <3>1. upTo[n + 1] = upTo[n]
      BY <2>2, <2>4
    <3>2. \A d \in 1..n + 1 : d \in sample => d \in 1..n
      BY <2>4
    <3> QED
      BY <2>3, <3>1, <3>2
  <2>5. CASE n + 1 \in sample
    <3> DEFINE l == upTo[n]
               m == of(n + 1)
    <3>1. upTo[n + 1] = l \o m
      BY <2>2, <2>5
    <3>2. l \in V /\ m \in V
      BY <1>2, <2>1, <2>3
    <3> HIDE DEF l, m
    <3>3. /\ l \o m \in V /\ Len(l \o m) = Len(l) + Len(m) /\ Len(l) \in Nat /\ Len(m) \in Nat
          /\ DOMAIN l = 1..Len(l) /\ DOMAIN m = 1..Len(m) /\ DOMAIN (l \o m) = 1..Len(l \o m)
          /\ \A i \in 1..Len(l) + Len(m) : (l \o m)[i] = IF i <= Len(l) THEN l[i] ELSE m[i - Len(l)]
      <4> HIDE DEF V
      <4>1. l \o m \in Seq(VertexRecords)
        BY <3>2, ConcatProperties DEF V
      <4> QED
        BY <3>2, <4>1, ConcatProperties, LenProperties DEF V
    <3>4. /\ \A i \in DOMAIN l : i \in DOMAIN (l \o m) /\ (l \o m)[i] = l[i]
          /\ \A i \in DOMAIN m : Len(l) + i \in DOMAIN (l \o m) /\ (l \o m)[Len(l) + i] = m[i]
      BY <3>3
    <3>5. ASSUME NEW d \in 1..n + 1, d \in sample, NEW j \in DOMAIN of(d)
          PROVE  \E i \in DOMAIN (l \o m) : (l \o m)[i] = of(d)[j]
      <4>1. CASE d = n + 1
        BY <3>4, <4>1 DEF m
      <4>2. CASE d # n + 1
        <5>1. d \in 1..n
          BY <4>2
        <5>2. PICK i \in DOMAIN l : l[i] = of(d)[j]
          BY <2>3, <3>5, <5>1 DEF l
        <5> QED
          BY <3>4, <5>2
      <4> QED
        BY <4>1, <4>2
    <3> QED
      BY <3>1, <3>3, <3>5
  <2> QED
    BY <2>4, <2>5
<1>10. Whole(total)
  <2>1. Nat \subseteq G
    <3> HIDE DEF G
    <3> QED
      BY <1>8, <1>9, Induction
  <2>2. total \in G /\ total <= total
    BY <1>1, <2>1
  <2> HIDE DEF Whole
  <2> QED
    BY <2>2
<1>11. v.max_points \in Nat
  BY Cast
<1> DEFINE p == PlannedRecords(v)
<1>12. p \in Seq(VertexRecords) /\ (Len(p) < v.max_points => p = upTo[total])
  <2> HIDE DEF sample, of
  <2>1. upTo[total] \in Seq(VertexRecords)
    BY <1>10
  <2> QED
    BY <1>7, <1>11, <2>1, FirstOfIs
<1> HIDE DEF p
<1>13. ASSUME Len(p) < v.max_points, NEW d \in sample \intersect DOMAIN ChunksOf, NEW j \in DOMAIN of(d)
       PROVE  \E i \in DOMAIN p : p[i] = of(d)[j]
  BY <1>1, <1>10, <1>12, <1>13
<1> QED
  BY <1>12, <1>13 DEF p

\* A record of the list is in the checkpoint or among those still missing.
LEMMA MissingIs ==
  ASSUME NEW s \in Seq(VertexRecords), NEW listed
  PROVE  LET m == Missing(s, listed)
         IN  /\ m \in Seq(VertexRecords)
             /\ \A i \in DOMAIN s : s[i] \in listed \/ \E j \in DOMAIN m : m[j] = s[i]
<1> DEFINE total == Len(s)
           V == Seq(VertexRecords)
           more(l, r) == IF r \in listed THEN l ELSE Append(l, r)
           step == [p \in (1..total) \X V |-> more(p[2], s[p[1]])]
<1>1. total \in Nat /\ DOMAIN s = 1..total /\ \A i \in 1..total : s[i] \in VertexRecords
  BY LenProperties, ElementOfSeq
<1>2. << >> \in V /\ step \in Steps(total, V)
  <2>1. ASSUME NEW l \in V, NEW i \in 1..total PROVE more(l, s[i]) \in V
    <3> HIDE DEF total
    <3>1. Append(l, s[i]) \in V
      BY <1>1, AppendProperties
    <3> QED
      BY <3>1
  <2> HIDE DEF total, more
  <2>2. step \in [(1..total) \X V -> V]
    BY <2>1
  <2> QED
    BY <2>2, EmptySeq DEF Steps
<1>3. PICK f \in [0..total -> V] : Unrolls(f, total, << >>, step)
  <2> HIDE DEF total, V, step
  <2> QED
    BY <1>1, <1>2, Unrolled
<1>4. f = [i \in 0..total |-> IF i = 0 THEN << >> ELSE more(f[i - 1], s[i])]
  <2> HIDE DEF total, V, more
  <2>1. \A i \in 1..total : step[<<i, f[i - 1]>>] = more(f[i - 1], s[i])
    BY <1>1
  <2> HIDE DEF step
  <2>2. ASSUME NEW i \in 0..total PROVE f[i] = IF i = 0 THEN << >> ELSE more(f[i - 1], s[i])
    <3>1. CASE i = 0
      BY <1>3, <3>1 DEF Unrolls
    <3>2. CASE i # 0
      <4>1. i \in 1..total
        BY <1>1, <3>2
      <4> QED
        BY <1>3, <2>1, <3>2, <4>1 DEF Unrolls
    <3> QED
      BY <3>1, <3>2
  <2> QED
    BY <1>3, <2>2
<1> DEFINE upTo[i \in 0..total] ==
      IF i = 0 THEN << >> ELSE IF s[i] \in listed THEN upTo[i - 1] ELSE Append(upTo[i - 1], s[i])
<1>5. upTo = [i \in 0..total |-> IF i = 0 THEN << >> ELSE more(upTo[i - 1], s[i])]
  <2> HIDE DEF total
  <2> QED
    BY <1>4
<1>6. Missing(s, listed) = upTo[total]
  BY DEF Missing
<1> HIDE DEF upTo, total
<1> DEFINE Whole(n) == /\ upTo[n] \in V
                       /\ \A i \in 1..n : s[i] \in listed \/ \E j \in DOMAIN upTo[n] : upTo[n][j] = s[i]
           G == {n \in Nat : n <= total => Whole(n)}
<1>7. 0 \in G
  <2>1. upTo[0] = << >>
    BY <1>1, <1>5
  <2>2. upTo[0] \in V
    BY <1>2, <2>1
  <2>3. \A i \in 1..0 : FALSE
    OBVIOUS
  <2> HIDE DEF V
  <2>4. Whole(0)
    BY <2>2, <2>3
  <2> HIDE DEF Whole
  <2> QED
    BY <2>4
<1>8. ASSUME NEW n \in Nat, n \in G PROVE n + 1 \in G
  <2> SUFFICES ASSUME n + 1 <= total PROVE Whole(n + 1)
    OBVIOUS
  <2>1. n + 1 \in 0..total /\ n + 1 \in 1..total /\ n <= total
    BY <1>1
  <2>2. upTo[n + 1] = more(upTo[n], s[n + 1])
    <3> HIDE DEF more
    <3> QED
      BY <1>5, <2>1
  <2>3. Whole(n)
    BY <1>8, <2>1
  <2> DEFINE l == upTo[n]
             r == s[n + 1]
  <2>4. /\ Append(l, r) \in V /\ DOMAIN l = 1..Len(l) /\ Len(l) \in Nat
        /\ DOMAIN Append(l, r) = 1..Len(l) + 1
        /\ \A j \in 1..Len(l) : Append(l, r)[j] = l[j]
        /\ Append(l, r)[Len(l) + 1] = r
    <3>1. l \in Seq(VertexRecords) /\ r \in VertexRecords
      BY <1>1, <2>1, <2>3
    <3> HIDE DEF l, r
    <3>2. Append(l, r) \in Seq(VertexRecords) /\ Len(Append(l, r)) = Len(l) + 1
      BY <3>1, AppendProperties
    <3>3. DOMAIN Append(l, r) = 1..Len(Append(l, r))
      BY <3>2, LenProperties
    <3> QED
      BY <3>1, <3>2, <3>3, AppendProperties, LenProperties
  <2>5. CASE r \in listed
    <3>1. upTo[n + 1] = l
      BY <2>2, <2>5
    <3>2. \A i \in 1..n + 1 : i = n + 1 \/ i \in 1..n
      OBVIOUS
    <3> QED
      BY <2>3, <2>5, <3>1, <3>2
  <2>6. CASE r \notin listed
    <3>1. upTo[n + 1] = Append(l, r)
      BY <2>2, <2>6
    <3>2. ASSUME NEW i \in 1..n + 1, s[i] \notin listed
          PROVE  \E j \in DOMAIN Append(l, r) : Append(l, r)[j] = s[i]
      <4>1. CASE i = n + 1
        <5>1. Len(l) + 1 \in DOMAIN Append(l, r) /\ s[i] = r
          BY <2>4, <4>1
        <5> HIDE DEF l, r
        <5> QED
          BY <2>4, <5>1
      <4>2. CASE i # n + 1
        <5>1. PICK j \in DOMAIN l : l[j] = s[i]
          BY <2>3, <3>2, <4>2
        <5> HIDE DEF l, r
        <5> QED
          BY <2>4, <5>1
      <4> QED
        BY <4>1, <4>2
    <3> QED
      BY <2>4, <3>1, <3>2
  <2> QED
    BY <2>5, <2>6
<1>9. Whole(total)
  <2>1. Nat \subseteq G
    <3> HIDE DEF G
    <3> QED
      BY <1>7, <1>8, Induction
  <2>2. total \in G /\ total <= total
    BY <1>1, <2>1
  <2> HIDE DEF Whole
  <2> QED
    BY <2>2
<1> QED
  BY <1>1, <1>6, <1>9

-----------------------------------------------------------------------------
(* What a migration chooses                                                *)

\* The places a sample is taken from: a row of the pages, and a legal type.
Offer(v, p) == ByType[v.types[p[2]]][p[1]]
Offers(v) == {p \in (1..PageLimit(v)) \X DOMAIN v.types :
                p[1] \in DOMAIN ByType[v.types[p[2]]] /\ Offer(v, p) \notin v.excluded}
NotAfter(p, i, k) == p[1] < i \/ (p[1] = i /\ p[2] <= k)
Before(v, i, k) == {p \in Offers(v) : NotAfter(p, i, k)}

\* A sample of what was offered before a place leaves out nothing earlier than it takes,
\* and nothing at all while it has room.
Sampled(v, sample, i, k) ==
  /\ IsFiniteSet(sample) /\ Cardinality(sample) <= v.limit
  /\ \A d \in sample : \E p \in Before(v, i, k) : d = Offer(v, p)
  /\ Cardinality(sample) = v.limit \/ \A p \in Before(v, i, k) : Offer(v, p) \in sample
  /\ \A p \in Before(v, i, k), q \in Offers(v) :
       Offer(v, p) \in sample /\ NotAfter(q, p[1], p[2]) => Offer(v, q) \in sample

\* A page has room for the limit beside every excluded document.
LEMMA PageLimitIs == ASSUME NEW v \in Invocations
  PROVE  /\ v.limit \in Nat \ {0} /\ PageLimit(v) \in Nat /\ v.limit <= PageLimit(v)
         /\ Cardinality(v.excluded) \in Nat /\ PageLimit(v) = v.limit + Cardinality(v.excluded)
<1>1. Cardinality(v.excluded) \in Nat /\ v.limit \in Nat \ {0}
  BY Cast, FS_CardinalityType
<1> QED
  BY <1>1 DEF PageLimit

\* The pages that the documents are offered from are lists of documents.
LEMMA TypesAre == ASSUME NEW v \in Invocations
  PROVE  /\ Len(v.types) \in Nat /\ DOMAIN v.types = 1..Len(v.types)
         /\ \A k \in DOMAIN v.types :
              /\ v.types[k] \in DOMAIN ByType
              /\ ByType[v.types[k]] \in Seq(DOMAIN ChunksOf)
              /\ Len(ByType[v.types[k]]) \in Nat
              /\ DOMAIN ByType[v.types[k]] = 1..Len(ByType[v.types[k]])
              /\ \A i \in DOMAIN ByType[v.types[k]] : ByType[v.types[k]][i] \in DOMAIN ChunksOf
<1>1. v.types \in Seq(DOMAIN ByType)
  BY Cast
<1>2. \A k \in DOMAIN v.types : v.types[k] \in DOMAIN ByType
  BY <1>1, ElementOfSeq, LenProperties
<1>3. ASSUME NEW s \in Seq(DOMAIN ChunksOf)
      PROVE  Len(s) \in Nat /\ DOMAIN s = 1..Len(s) /\ \A i \in DOMAIN s : s[i] \in DOMAIN ChunksOf
  BY ElementOfSeq, LenProperties
<1>4. \A t \in DOMAIN ByType : ByType[t] \in Seq(DOMAIN ChunksOf)
  BY MigrationAssumption
<1>5. Len(v.types) \in Nat /\ DOMAIN v.types = 1..Len(v.types)
  BY <1>1, LenProperties
<1> QED
  BY <1>2, <1>3, <1>4, <1>5

\* No document is offered at two places.
LEMMA OfferedOnce ==
  ASSUME NEW v \in Invocations, NEW p \in Offers(v), NEW q \in Offers(v), Offer(v, p) = Offer(v, q)
  PROVE  p = q
<1>1. /\ p \in (1..PageLimit(v)) \X DOMAIN v.types /\ q \in (1..PageLimit(v)) \X DOMAIN v.types
      /\ p[1] \in DOMAIN ByType[v.types[p[2]]] /\ q[1] \in DOMAIN ByType[v.types[q[2]]]
  BY DEF Offers
<1>2. p = <<p[1], p[2]>> /\ q = <<q[1], q[2]>> /\ p[2] \in DOMAIN v.types /\ q[2] \in DOMAIN v.types
  BY <1>1
<1>3. v.types[p[2]] \in DOMAIN ByType /\ v.types[q[2]] \in DOMAIN ByType
  BY <1>2, TypesAre
<1>4. v.types[p[2]] = v.types[q[2]] /\ p[1] = q[1]
  BY <1>1, <1>3, MigrationAssumption DEF Offer
<1>5. p[2] = q[2]
  BY <1>2, <1>4, Cast
<1> QED
  BY <1>2, <1>4, <1>5

OfferedAt(v, sample, i, k) ==
  IF i <= Len(ByType[v.types[k]]) THEN Offered(sample, ByType[v.types[k]][i], v) ELSE sample

\* An offer keeps the sample to what has been offered so far.
LEMMA OfferStep ==
  ASSUME NEW v \in Invocations, NEW i \in 1..PageLimit(v), NEW k \in DOMAIN v.types,
         NEW sample \in SUBSET DOMAIN ChunksOf
  PROVE  /\ OfferedAt(v, sample, i, k) \in SUBSET DOMAIN ChunksOf
         /\ Sampled(v, sample, i, k - 1) => Sampled(v, OfferedAt(v, sample, i, k), i, k)
<1> DEFINE at == <<i, k>>
           d == ByType[v.types[k]][i]
           page == ByType[v.types[k]]
           next == OfferedAt(v, sample, i, k)
<1>1. /\ DOMAIN page = 1..Len(page) /\ Len(page) \in Nat /\ k \in Nat \ {0} /\ i \in Nat \ {0}
      /\ i <= Len(page) => i \in DOMAIN page /\ d \in DOMAIN ChunksOf
  <2>1. i \in Nat \ {0} /\ k \in Nat \ {0}
    BY PageLimitIs, TypesAre
  <2>2. DOMAIN page = 1..Len(page) /\ Len(page) \in Nat /\ \A j \in DOMAIN page : page[j] \in DOMAIN ChunksOf
    BY TypesAre
  <2> HIDE DEF page
  <2>3. i <= Len(page) => i \in DOMAIN page
    BY <2>1, <2>2
  <2> QED
    BY <2>1, <2>2, <2>3 DEF page
<1>2. next \in SUBSET DOMAIN ChunksOf
  BY <1>1 DEF OfferedAt, Offered
<1>3. at \in Offers(v) <=> i <= Len(page) /\ d \notin v.excluded
  <2>1. at[1] = i /\ at[2] = k /\ at \in (1..PageLimit(v)) \X DOMAIN v.types
    OBVIOUS
  <2>2. i \in DOMAIN page <=> i <= Len(page)
    BY <1>1
  <2> QED
    BY <2>1, <2>2 DEF Offers, Offer
<1>4. \A p \in Offers(v) : p = <<p[1], p[2]>> /\ p[1] \in Nat /\ p[2] \in Nat
  BY PageLimitIs, TypesAre DEF Offers
<1>5. Before(v, i, k - 1) \subseteq Before(v, i, k)
  BY <1>1, <1>4 DEF Before, NotAfter
<1>6. Before(v, i, k) \subseteq Before(v, i, k - 1) \union {at}
  <2>1. ASSUME NEW p \in Offers(v), NotAfter(p, i, k) PROVE NotAfter(p, i, k - 1) \/ p = at
    <3>1. p = <<p[1], p[2]>> /\ p[1] \in Nat /\ p[2] \in Nat
      BY <1>4
    <3>2. p[2] <= k => p[2] <= k - 1 \/ p[2] = k
      BY <1>1, <3>1
    <3> QED
      BY <2>1, <3>1, <3>2 DEF NotAfter
  <2> QED
    BY <2>1 DEF Before
<1>7. at \in Offers(v) => at \in Before(v, i, k) /\ at \notin Before(v, i, k - 1) /\ Offer(v, at) = d
  BY <1>1 DEF Before, NotAfter, Offer
<1>8. Before(v, i, k) \subseteq Offers(v)
  BY DEF Before
<1> SUFFICES ASSUME Sampled(v, sample, i, k - 1) PROVE Sampled(v, next, i, k)
  BY <1>2
<1> DEFINE limit == v.limit
<1>9. /\ IsFiniteSet(sample) /\ Cardinality(sample) <= limit
      /\ \A e \in sample : \E p \in Before(v, i, k - 1) : e = Offer(v, p)
      /\ Cardinality(sample) = limit \/ \A p \in Before(v, i, k - 1) : Offer(v, p) \in sample
      /\ \A p \in Before(v, i, k - 1), q \in Offers(v) :
           Offer(v, p) \in sample /\ NotAfter(q, p[1], p[2]) => Offer(v, q) \in sample
  BY DEF Sampled
<1>10. Cardinality(sample) \in Nat /\ limit \in Nat \ {0}
  BY <1>9, FS_CardinalityType, PageLimitIs
<1>11. CASE at \notin Offers(v)
  <2>1. next = sample
    BY <1>3, <1>11 DEF OfferedAt, Offered
  <2>2. Before(v, i, k) = Before(v, i, k - 1)
    BY <1>5, <1>6, <1>8, <1>11
  <2> QED
    BY <1>9, <2>1, <2>2 DEF Sampled
<1>12. CASE at \in Offers(v) /\ Cardinality(sample) = limit
  <2>1. next = sample
    BY <1>3, <1>12 DEF OfferedAt, Offered
  <2>2. Offer(v, at) \notin sample
    <3> SUFFICES ASSUME Offer(v, at) \in sample PROVE FALSE
      OBVIOUS
    <3>1. PICK p \in Before(v, i, k - 1) : Offer(v, at) = Offer(v, p)
      BY <1>9
    <3>2. p = at
      BY <1>5, <1>8, <1>12, <3>1, OfferedOnce
    <3> QED
      BY <1>7, <1>12, <3>1, <3>2
  <2>3. ASSUME NEW p \in Before(v, i, k), NEW q \in Offers(v),
               Offer(v, p) \in sample, NotAfter(q, p[1], p[2])
        PROVE  Offer(v, q) \in sample
    <3>1. p \in Before(v, i, k - 1)
      BY <1>6, <2>2, <2>3
    <3> QED
      BY <1>9, <2>3, <3>1
  <2>4. \A e \in sample : \E p \in Before(v, i, k) : e = Offer(v, p)
    BY <1>5, <1>9
  <2> HIDE DEF next, at
  <2> QED
    BY <1>9, <1>12, <2>1, <2>3, <2>4 DEF Sampled
<1>13. CASE at \in Offers(v) /\ Cardinality(sample) # limit
  <2>1. next = sample \union {d}
    BY <1>3, <1>13 DEF OfferedAt, Offered
  <2>2. IsFiniteSet(next) /\ Cardinality(next) <= limit
    <3> HIDE DEF d, next, limit
    <3>1. /\ IsFiniteSet(sample \union {d})
          /\ Cardinality(sample \union {d}) =
               IF d \in sample THEN Cardinality(sample) ELSE Cardinality(sample) + 1
      BY <1>9, FS_AddElement
    <3>2. Cardinality(sample) # limit
      BY <1>13 DEF limit
    <3> QED
      BY <1>9, <1>10, <2>1, <3>1, <3>2
  <2>3. \A p \in Before(v, i, k) : Offer(v, p) \in next
    <3> HIDE DEF at, d, next, limit
    <3> QED
      BY <1>6, <1>7, <1>9, <1>13, <2>1
  <2>4. \A e \in next : \E p \in Before(v, i, k) : e = Offer(v, p)
    <3> HIDE DEF at, d, next, limit
    <3> QED
      BY <1>5, <1>7, <1>9, <1>13, <2>1
  <2>5. ASSUME NEW p \in Before(v, i, k), NEW q \in Offers(v), NotAfter(q, p[1], p[2])
        PROVE  q \in Before(v, i, k)
    <3>1. p \in Offers(v) /\ NotAfter(p, i, k)
      BY DEF Before
    <3>2. NotAfter(q, i, k)
      BY <1>1, <1>4, <2>5, <3>1 DEF NotAfter
    <3> QED
      BY <3>2 DEF Before
  <2> HIDE DEF at, d, next
  <2> QED
    BY <2>2, <2>3, <2>4, <2>5 DEF Sampled
<1> QED
  BY <1>11, <1>12, <1>13

\* So does a row of offers, one of each type.
LEMMA RowOfferedIs ==
  ASSUME NEW v \in Invocations, NEW i \in 1..PageLimit(v), NEW sample \in SUBSET DOMAIN ChunksOf
  PROVE  /\ RowOffered(sample, i, v) \in SUBSET DOMAIN ChunksOf
         /\ Sampled(v, sample, i, 0) => Sampled(v, RowOffered(sample, i, v), i, Len(v.types))
<1> DEFINE total == Len(v.types)
           V == SUBSET DOMAIN ChunksOf
           more(s, k) == OfferedAt(v, s, i, k)
           step == [p \in (1..total) \X V |-> more(p[2], p[1])]
<1>1. total \in Nat /\ DOMAIN v.types = 1..total
  BY TypesAre
<1>2. sample \in V /\ step \in Steps(total, V)
  <2>1. ASSUME NEW s \in V, NEW k \in 1..total PROVE more(s, k) \in V
    BY <1>1, OfferStep
  <2> HIDE DEF total, V, more
  <2>2. step \in [(1..total) \X V -> V]
    BY <2>1
  <2> QED
    BY <2>2 DEF Steps, V
<1>3. PICK f \in [0..total -> V] : Unrolls(f, total, sample, step)
  <2> HIDE DEF total, V, step
  <2> QED
    BY <1>1, <1>2, Unrolled
<1>4. f = [k \in 0..total |-> IF k = 0 THEN sample ELSE more(f[k - 1], k)]
  <2> HIDE DEF total, V, more
  <2>1. \A k \in 1..total : step[<<k, f[k - 1]>>] = more(f[k - 1], k)
    BY <1>1
  <2> HIDE DEF step
  <2>2. ASSUME NEW k \in 0..total PROVE f[k] = IF k = 0 THEN sample ELSE more(f[k - 1], k)
    <3>1. CASE k = 0
      BY <1>3, <3>1 DEF Unrolls
    <3>2. CASE k # 0
      <4>1. k \in 1..total
        BY <1>1, <3>2
      <4> QED
        BY <1>3, <2>1, <3>2, <4>1 DEF Unrolls
    <3> QED
      BY <3>1, <3>2
  <2> QED
    BY <1>3, <2>2
<1> DEFINE after[k \in 0..total] ==
      IF k = 0 THEN sample
      ELSE IF i <= Len(ByType[v.types[k]])
           THEN Offered(after[k - 1], ByType[v.types[k]][i], v) ELSE after[k - 1]
<1>5. after = [k \in 0..total |-> IF k = 0 THEN sample ELSE more(after[k - 1], k)]
  <2> HIDE DEF total
  <2> QED
    BY <1>4 DEF OfferedAt
<1>6. RowOffered(sample, i, v) = after[total]
  BY DEF RowOffered
<1> HIDE DEF after, total
<1> DEFINE Good(n) == /\ after[n] \in V
                      /\ Sampled(v, sample, i, 0) => Sampled(v, after[n], i, n)
           G == {n \in Nat : n <= total => Good(n)}
<1>7. 0 \in G
  <2>1. after[0] = sample
    BY <1>1, <1>5
  <2> HIDE DEF V
  <2>2. Good(0)
    BY <1>2, <2>1
  <2> HIDE DEF Good
  <2> QED
    BY <2>2
<1>8. ASSUME NEW n \in Nat, n \in G PROVE n + 1 \in G
  <2> SUFFICES ASSUME n + 1 <= total PROVE Good(n + 1)
    OBVIOUS
  <2>1. n + 1 \in 0..total /\ n + 1 \in 1..total /\ n <= total /\ (n + 1) - 1 = n
    BY <1>1
  <2>2. after[n + 1] = more(after[n], n + 1)
    <3> HIDE DEF more
    <3> QED
      BY <1>5, <2>1
  <2>3. Good(n)
    BY <1>8, <2>1
  <2>4. /\ more(after[n], n + 1) \in V
        /\ Sampled(v, after[n], i, n) => Sampled(v, more(after[n], n + 1), i, n + 1)
    <3> DEFINE k == n + 1
               s == after[n]
    <3>1. k \in DOMAIN v.types /\ k - 1 = n /\ s \in SUBSET DOMAIN ChunksOf
      BY <1>1, <2>1, <2>3
    <3> HIDE DEF k, s
    <3>2. /\ OfferedAt(v, s, i, k) \in SUBSET DOMAIN ChunksOf
          /\ Sampled(v, s, i, k - 1) => Sampled(v, OfferedAt(v, s, i, k), i, k)
      BY <3>1, OfferStep
    <3> QED
      BY <3>1, <3>2 DEF k, s
  <2> HIDE DEF more, V
  <2> QED
    BY <2>2, <2>3, <2>4
<1>9. Good(total)
  <2>1. Nat \subseteq G
    <3> HIDE DEF G
    <3> QED
      BY <1>7, <1>8, Induction
  <2>2. total \in G /\ total <= total
    BY <1>1, <2>1
  <2> HIDE DEF Good
  <2> QED
    BY <2>2
<1> QED
  BY <1>6, <1>9 DEF total

\* All that is offered is offered up to the last type of the last row.
LEMMA DiverseIs ==
  ASSUME NEW v \in Invocations
  PROVE  /\ Diverse(v) \in SUBSET DOMAIN ChunksOf
         /\ Sampled(v, Diverse(v), PageLimit(v), Len(v.types))
<1> DEFINE total == PageLimit(v)
           K == Len(v.types)
           V == SUBSET DOMAIN ChunksOf
           more(s, i) == RowOffered(s, i, v)
           step == [p \in (1..total) \X V |-> more(p[2], p[1])]
<1>1. total \in Nat /\ K \in Nat
  BY PageLimitIs, TypesAre
<1>2. {} \in V /\ step \in Steps(total, V)
  <2>1. ASSUME NEW s \in V, NEW i \in 1..total PROVE more(s, i) \in V
    BY RowOfferedIs
  <2> HIDE DEF total, more
  <2>2. step \in [(1..total) \X V -> V]
    <3> HIDE DEF V
    <3> QED
      BY <2>1
  <2> QED
    BY <2>2 DEF Steps
<1>3. PICK f \in [0..total -> V] : Unrolls(f, total, {}, step)
  <2> HIDE DEF total, V, step
  <2> QED
    BY <1>1, <1>2, Unrolled
<1>4. f = [i \in 0..total |-> IF i = 0 THEN {} ELSE more(f[i - 1], i)]
  <2> HIDE DEF total, V, more
  <2>1. \A i \in 1..total : step[<<i, f[i - 1]>>] = more(f[i - 1], i)
    BY <1>1
  <2> HIDE DEF step
  <2>2. ASSUME NEW i \in 0..total PROVE f[i] = IF i = 0 THEN {} ELSE more(f[i - 1], i)
    <3>1. CASE i = 0
      BY <1>3, <3>1 DEF Unrolls
    <3>2. CASE i # 0
      <4>1. i \in 1..total
        BY <1>1, <3>2
      <4> QED
        BY <1>3, <2>1, <3>2, <4>1 DEF Unrolls
    <3> QED
      BY <3>1, <3>2
  <2> QED
    BY <1>3, <2>2
<1> DEFINE rows[i \in 0..total] == IF i = 0 THEN {} ELSE RowOffered(rows[i - 1], i, v)
<1>5. rows = [i \in 0..total |-> IF i = 0 THEN {} ELSE more(rows[i - 1], i)]
  <2> HIDE DEF total
  <2> QED
    BY <1>4
<1>6. Diverse(v) = rows[total]
  BY DEF Diverse
<1> HIDE DEF rows, total
<1> DEFINE Good(n) == rows[n] \in V /\ Sampled(v, rows[n], n, K)
           G == {n \in Nat : n <= total => Good(n)}
<1>7. ASSUME NEW p \in Offers(v)
      PROVE  p[1] \in 1..total /\ p[2] \in 1..K
  BY TypesAre DEF Offers, total
<1>8. 0 \in G
  <2>1. rows[0] = {}
    BY <1>1, <1>5
  <2>2. Before(v, 0, K) = {}
    <3>1. \A p \in Offers(v) : ~NotAfter(p, 0, K)
      BY <1>7 DEF NotAfter
    <3> QED
      BY <3>1 DEF Before
  <2>3. IsFiniteSet({}) /\ Cardinality({}) <= v.limit
    <3>1. 0 <= v.limit
      BY PageLimitIs
    <3> QED
      BY <3>1, FS_EmptySet
  <2>4. Sampled(v, {}, 0, K)
    BY <2>2, <2>3 DEF Sampled
  <2>5. Good(0)
    BY <2>1, <2>4
  <2> HIDE DEF Good
  <2> QED
    BY <2>5
<1>9. ASSUME NEW n \in Nat, n \in G PROVE n + 1 \in G
  <2> SUFFICES ASSUME n + 1 <= total PROVE Good(n + 1)
    OBVIOUS
  <2>1. n + 1 \in 0..total /\ n + 1 \in 1..total /\ n <= total /\ (n + 1) - 1 = n
    BY <1>1
  <2>2. rows[n + 1] = more(rows[n], n + 1)
    <3> DEFINE i == n + 1
    <3>1. i \in 0..total /\ i # 0 /\ i - 1 = n
      BY <2>1
    <3> HIDE DEF more, i
    <3>2. rows[i] = more(rows[i - 1], i)
      BY <1>5, <3>1
    <3>3. rows[i] = more(rows[n], i)
      BY <3>1, <3>2
    <3> QED
      BY <3>3 DEF i
  <2>3. Good(n)
    BY <1>9, <2>1
  <2>4. Before(v, n, K) = Before(v, n + 1, 0)
    <3>1. \A p \in Offers(v) : NotAfter(p, n, K) <=> NotAfter(p, n + 1, 0)
      <4> TAKE p \in Offers(v)
      <4>1. p[1] \in Nat /\ p[2] \in Nat \ {0} /\ p[2] <= K
        BY <1>1, <1>7
      <4> QED
        BY <4>1 DEF NotAfter
    <3> QED
      BY <3>1 DEF Before
  <2>5. Sampled(v, rows[n], n + 1, 0)
    <3>1. Sampled(v, rows[n], n, K)
      BY <2>3
    <3> QED
      BY <2>4, <3>1 DEF Sampled
  <2>6. more(rows[n], n + 1) \in V /\ Sampled(v, more(rows[n], n + 1), n + 1, K)
    <3> DEFINE s == rows[n]
               i == n + 1
    <3>1. s \in SUBSET DOMAIN ChunksOf /\ i \in 1..PageLimit(v) /\ Sampled(v, s, i, 0)
      BY <2>1, <2>3, <2>5 DEF total
    <3> HIDE DEF s, i
    <3>2. RowOffered(s, i, v) \in SUBSET DOMAIN ChunksOf /\ Sampled(v, RowOffered(s, i, v), i, Len(v.types))
      BY <3>1, RowOfferedIs
    <3> QED
      BY <3>2 DEF s, i
  <2> HIDE DEF more, V
  <2> QED
    BY <2>2, <2>6
<1>10. Good(total)
  <2>1. Nat \subseteq G
    <3> HIDE DEF G
    <3> QED
      BY <1>8, <1>9, Induction
  <2>2. total \in G /\ total <= total
    BY <1>1, <2>1
  <2> HIDE DEF Good
  <2> QED
    BY <2>2
<1> QED
  BY <1>6, <1>10 DEF total

\* The documents of a type are as many as their places.
LEMMA Placed ==
  ASSUME NEW t \in DOMAIN ByType, NEW m \in Nat, m <= Len(ByType[t]), NEW A,
         IsFiniteSet(A), \A i \in 1..m : ByType[t][i] \in A
  PROVE  m <= Cardinality(A)
<1> DEFINE s == ByType[t]
           f == [i \in 1..m |-> s[i]]
<1>1. s \in Seq(DOMAIN ChunksOf) /\ \A i, j \in DOMAIN s : s[i] = s[j] => i = j
  BY MigrationAssumption
<1>2. \A i \in 1..m : i \in DOMAIN s
  BY <1>1, LenProperties
<1>3. f \in Injection(1..m, A)
  <2> HIDE DEF s
  <2>1. f \in [1..m -> A]
    BY DEF s
  <2>2. \A i, j \in 1..m : f[i] = f[j] => i = j
    BY <1>1, <1>2
  <2> HIDE DEF f
  <2> QED
    BY <2>1, <2>2 DEF Injection, IsInjective
<1>4. Cardinality(1..m) <= Cardinality(A) /\ Cardinality(1..m) = m
  <2> HIDE DEF f
  <2>1. Cardinality(1..m) <= Cardinality(A)
    BY <1>3, FS_Injection
  <2>2. Cardinality(1..m) = m
    BY FS_Interval
  <2> QED
    BY <2>1, <2>2
<1> QED
  BY <1>4

\* A set which n places cover has at most n members.
LEMMA Spanned ==
  ASSUME NEW s, NEW m \in Nat, NEW A, \A d \in A : \E i \in 1..m : d = s[i]
  PROVE  IsFiniteSet(A) /\ Cardinality(A) <= m
<1> DEFINE B == {s[i] : i \in 1..m}
           f == [i \in 1..m |-> s[i]]
<1>1. f \in Surjection(1..m, B)
  BY DEF Surjection
<1>2. IsFiniteSet(1..m) /\ Cardinality(1..m) = m
  BY FS_Interval
<1>3. A \in SUBSET B
  OBVIOUS
<1> HIDE DEF f, B
<1>4. IsFiniteSet(B) /\ Cardinality(B) <= m
  BY <1>1, <1>2, FS_Surjection
<1>5. IsFiniteSet(A) /\ Cardinality(A) <= Cardinality(B)
  BY <1>3, <1>4, FS_Subset
<1> QED
  BY <1>4, <1>5, FS_CardinalityType

\* The choice of any command is balanced.
LEMMA IsBalanced == ASSUME NEW v \in Invocations PROVE Balanced(v)
<1> DEFINE selected == Diverse(v)
           Types == SeqExt!ToSet(v.types)
           Kept(t) == SeqExt!ToSet(ByType[t]) \ v.excluded
           Lost(t) == Cardinality(SeqExt!ToSet(ByType[t]) \intersect v.excluded)
           Given(t) == Cardinality(Kept(t) \intersect selected)
           all == UNION {Kept(t) : t \in Types}
           P == PageLimit(v)
           K == Len(v.types)
           X == Cardinality(v.excluded)
<1>1. /\ v.limit \in Nat \ {0} /\ P \in Nat /\ X \in Nat /\ P = v.limit + X
      /\ K \in Nat /\ DOMAIN v.types = 1..K /\ IsFiniteSet(v.excluded)
  BY PageLimitIs, TypesAre, Cast
<1>2. Before(v, P, K) = Offers(v)
  <2>1. ASSUME NEW p \in Offers(v) PROVE NotAfter(p, P, K)
    <3>1. p[1] \in 1..P /\ p[2] \in 1..K
      BY <1>1 DEF Offers
    <3> HIDE DEF P, K
    <3> QED
      BY <1>1, <3>1 DEF NotAfter
  <2> QED
    BY <2>1 DEF Before
<1>3. /\ IsFiniteSet(selected) /\ Cardinality(selected) <= v.limit
      /\ \A d \in selected : \E p \in Offers(v) : d = Offer(v, p)
      /\ Cardinality(selected) = v.limit \/ \A p \in Offers(v) : Offer(v, p) \in selected
      /\ \A p \in Offers(v), q \in Offers(v) :
           Offer(v, p) \in selected /\ NotAfter(q, p[1], p[2]) => Offer(v, q) \in selected
  <2> HIDE DEF selected
  <2>1. Sampled(v, selected, P, K)
    BY DiverseIs DEF selected
  <2> QED
    BY <1>2, <2>1 DEF Sampled
<1>4. \A t \in Types : \E k \in DOMAIN v.types : t = v.types[k]
  BY DEF SeqExt!ToSet
<1>5. ASSUME NEW t \in Types
      PROVE  /\ t \in DOMAIN ByType /\ Len(ByType[t]) \in Nat /\ DOMAIN ByType[t] = 1..Len(ByType[t])
             /\ \A d \in Kept(t) : \E i \in DOMAIN ByType[t] : d = ByType[t][i]
             /\ \A i \in DOMAIN ByType[t] :
                  ByType[t][i] \in Kept(t) \/ ByType[t][i] \in SeqExt!ToSet(ByType[t]) \intersect v.excluded
  <2>1. t \in DOMAIN ByType /\ Len(ByType[t]) \in Nat /\ DOMAIN ByType[t] = 1..Len(ByType[t])
    BY <1>4, TypesAre
  <2> QED
    BY <2>1 DEF SeqExt!ToSet
<1>6. ASSUME NEW t \in Types, NEW i \in DOMAIN ByType[t], ByType[t][i] \notin v.excluded, i <= P
      PROVE  \E k \in DOMAIN v.types : /\ t = v.types[k] /\ <<i, k>> \in Offers(v)
                                       /\ Offer(v, <<i, k>>) = ByType[t][i]
  <2>1. PICK k \in DOMAIN v.types : t = v.types[k]
    BY <1>4
  <2>2. i \in 1..P
    BY <1>1, <1>5, <1>6
  <2>3. <<i, k>> \in (1..PageLimit(v)) \X DOMAIN v.types /\ <<i, k>>[1] = i /\ <<i, k>>[2] = k
    BY <2>2
  <2>4. Offer(v, <<i, k>>) = ByType[t][i]
    BY <2>1 DEF Offer
  <2> QED
    BY <1>6, <2>1, <2>3, <2>4 DEF Offers
<1>7. ASSUME NEW p \in Offers(v)
      PROVE  /\ p = <<p[1], p[2]>> /\ p[1] \in 1..P /\ p[2] \in DOMAIN v.types
             /\ v.types[p[2]] \in Types /\ Offer(v, p) \in Kept(v.types[p[2]])
             /\ p[1] \in DOMAIN ByType[v.types[p[2]]] /\ Offer(v, p) = ByType[v.types[p[2]]][p[1]]
  BY DEF Offers, Offer, SeqExt!ToSet
<1>8. Cardinality(selected) \in Nat
  BY <1>3, FS_CardinalityType
<1>9. selected \subseteq all
  <2> HIDE DEF selected, Types, Kept
  <2> QED
    BY <1>3, <1>7
<1>10. IsFiniteSet(all)
  <2>1. all \subseteq DOMAIN ChunksOf
    <3>1. ASSUME NEW t \in Types PROVE Kept(t) \subseteq DOMAIN ChunksOf
      <4>1. PICK k \in DOMAIN v.types : t = v.types[k]
        BY <1>4
      <4> QED
        BY <1>5, <4>1, TypesAre
    <3> HIDE DEF Types, Kept
    <3> QED
      BY <3>1
  <2>2. IsFiniteSet(DOMAIN ChunksOf)
    <3>1. Len(ChunksOf) \in Nat /\ DOMAIN ChunksOf = 1..Len(ChunksOf)
      BY MigrationAssumption
    <3> QED
      BY <3>1, FS_Interval
  <2> HIDE DEF all
  <2> QED
    BY <2>1, <2>2, FS_Subset
<1>11. ASSUME Cardinality(selected) # v.limit PROVE selected = all
  <2>1. ASSUME NEW t \in Types PROVE Len(ByType[t]) <= P
    <3> SUFFICES ASSUME Len(ByType[t]) > P PROVE FALSE
      BY <1>1, <1>5
    <3>1. \A i \in 1..P : i \in DOMAIN ByType[t] /\ i <= P
      BY <1>1, <1>5
    <3>2. \A i \in 1..P : ByType[t][i] \in selected \union v.excluded
      <4> SUFFICES ASSUME NEW i \in 1..P, ByType[t][i] \notin v.excluded PROVE ByType[t][i] \in selected
        OBVIOUS
      <4>1. i \in DOMAIN ByType[t] /\ i <= P
        BY <3>1
      <4>2. PICK k \in DOMAIN v.types :
              <<i, k>> \in Offers(v) /\ Offer(v, <<i, k>>) = ByType[t][i]
        <5> HIDE DEF selected, Types, P
        <5> QED
          BY <1>6, <4>1
      <4> HIDE DEF selected
      <4> QED
        BY <1>3, <1>11, <4>2
    <3>3. IsFiniteSet(selected \union v.excluded) /\ Cardinality(selected \union v.excluded) <= Cardinality(selected) + X
      <4> HIDE DEF selected
      <4>1. /\ IsFiniteSet(selected \union v.excluded)
            /\ Cardinality(selected \union v.excluded)
                 = Cardinality(selected) + Cardinality(v.excluded) - Cardinality(selected \intersect v.excluded)
        BY <1>1, <1>3, FS_Union
      <4>2. Cardinality(selected \intersect v.excluded) \in Nat
        BY <1>3, FS_Intersection, FS_CardinalityType
      <4> QED
        BY <1>1, <1>8, <4>1, <4>2
    <3>4. P <= Cardinality(selected \union v.excluded) /\ Cardinality(selected \union v.excluded) \in Nat
      <4> HIDE DEF selected, P, Types
      <4>1. P <= Len(ByType[t]) /\ t \in DOMAIN ByType
        BY <1>1, <1>5
      <4> QED
        BY <1>1, <3>2, <3>3, <4>1, Placed, FS_CardinalityType
    <3> HIDE DEF selected, P, X
    <3> QED
      BY <1>1, <1>3, <1>8, <1>11, <3>3, <3>4
  <2>2. ASSUME NEW t \in Types, NEW d \in Kept(t) PROVE d \in selected
    <3>1. PICK i \in DOMAIN ByType[t] : d = ByType[t][i]
      BY <1>5
    <3>2. i <= P /\ d \notin v.excluded
      BY <1>1, <1>5, <2>1
    <3>3. PICK k \in DOMAIN v.types :
            <<i, k>> \in Offers(v) /\ Offer(v, <<i, k>>) = ByType[t][i]
      <4> HIDE DEF selected, Types, Kept, P
      <4> QED
        BY <1>6, <3>1, <3>2
    <3> HIDE DEF selected
    <3> QED
      BY <1>3, <1>11, <3>1, <3>3
  <2> HIDE DEF selected, Types, Kept
  <2> QED
    BY <1>9, <2>2
<1>12. Cardinality(selected) = IF Cardinality(all) < v.limit THEN Cardinality(all) ELSE v.limit
  <2> HIDE DEF selected, all
  <2>1. Cardinality(selected) <= Cardinality(all) /\ Cardinality(all) \in Nat
    BY <1>9, <1>10, FS_Subset, FS_CardinalityType
  <2> QED
    BY <1>1, <1>3, <1>8, <1>11, <2>1
<1>13. ASSUME NEW s \in Types, NEW t \in Types, NEW x \in Kept(t), x \notin selected
       PROVE  Given(s) <= Given(t) + Lost(t) + 1
  <2> DEFINE S == {i \in DOMAIN ByType[t] : ByType[t][i] \notin v.excluded /\ ByType[t][i] \notin selected}
             lost == SeqExt!ToSet(ByType[t]) \intersect v.excluded
             given == Kept(t) \intersect selected
  <2>1. \E i \in S : \A j \in S : i <= j
    <3>1. S # {}
      <4>1. PICK i \in DOMAIN ByType[t] : x = ByType[t][i]
        BY <1>5
      <4>2. i \in S
        BY <1>13, <4>1
      <4> QED
        BY <4>2
    <3>2. S \in SUBSET Nat
      BY <1>5
    <3> HIDE DEF S
    <3> QED
      BY <3>1, <3>2, LeastNumber
  <2>2. PICK least \in S : \A j \in S : least <= j
    BY <2>1
  <2>3. least \in 1..Len(ByType[t]) /\ least - 1 \in Nat /\ least - 1 <= Len(ByType[t])
    BY <1>5
  <2>4. \A i \in 1..least - 1 : ByType[t][i] \in given \union lost
    <3> SUFFICES ASSUME NEW i \in 1..least - 1 PROVE ByType[t][i] \in given \union lost
      OBVIOUS
    <3>1. i \in DOMAIN ByType[t] /\ ~(least <= i)
      BY <1>5, <2>3
    <3>2. i \notin S
      BY <2>2, <3>1
    <3> QED
      BY <1>5, <3>1, <3>2
  <2>5. /\ IsFiniteSet(given) /\ IsFiniteSet(lost) /\ Cardinality(given) \in Nat /\ Cardinality(lost) \in Nat
        /\ IsFiniteSet(given \union lost) /\ Cardinality(given \union lost) \in Nat
        /\ Cardinality(given \union lost) <= Cardinality(given) + Cardinality(lost)
    <3>1. IsFiniteSet(given) /\ IsFiniteSet(lost)
      <4> HIDE DEF selected, Kept
      <4> QED
        BY <1>1, <1>3, FS_Intersection
    <3> HIDE DEF given, lost
    <3>2. Cardinality(given \union lost) = Cardinality(given) + Cardinality(lost) - Cardinality(given \intersect lost)
      BY <3>1, FS_Union
    <3>3. IsFiniteSet(given \union lost) /\ IsFiniteSet(given \intersect lost)
      BY <3>1, FS_Union, FS_Intersection
    <3> QED
      BY <3>1, <3>2, <3>3, FS_CardinalityType
  <2>6. least - 1 <= Cardinality(given \union lost)
    <3> HIDE DEF given, lost, S
    <3> QED
      BY <1>5, <2>3, <2>4, <2>5, Placed
  <2>7. IsFiniteSet(Kept(s) \intersect selected) /\ Cardinality(Kept(s) \intersect selected) \in Nat
    <3>1. IsFiniteSet(Kept(s) \intersect selected)
      <4> HIDE DEF selected, Kept
      <4> QED
        BY <1>3, FS_Intersection
    <3> QED
      BY <3>1, FS_CardinalityType
  <2>8. Cardinality(Kept(s) \intersect selected) <= least
    <3>1. CASE least <= P
      <4>1. PICK k \in DOMAIN v.types : /\ t = v.types[k] /\ <<least, k>> \in Offers(v)
                                        /\ Offer(v, <<least, k>>) = ByType[t][least]
        <5> HIDE DEF Types, P, selected
        <5> QED
          BY <1>6, <3>1
      <4>2. ASSUME NEW d \in Kept(s) \intersect selected
            PROVE  \E i \in 1..least : d = ByType[s][i]
        <5>1. PICK p \in Offers(v) : d = Offer(v, p)
          <6> HIDE DEF selected
          <6> QED
            BY <1>3
        <5>2. ~NotAfter(<<least, k>>, p[1], p[2])
          <6>1. Offer(v, <<least, k>>) \notin selected
            <7> HIDE DEF selected
            <7> QED
              BY <4>1
          <6> HIDE DEF selected
          <6> QED
            BY <1>3, <4>1, <5>1, <6>1
        <5>3. p[1] \in 1..least
          <6>1. p[1] \in Nat \ {0} /\ least \in Nat
            BY <1>1, <1>7, <2>3
          <6>2. <<least, k>>[1] = least
            OBVIOUS
          <6> QED
            BY <5>2, <6>1, <6>2 DEF NotAfter
        <5>4. v.types[p[2]] = s
          <6>1. PICK j \in DOMAIN ByType[s] : d = ByType[s][j]
            BY <1>5
          <6>2. s \in DOMAIN ByType /\ v.types[p[2]] \in DOMAIN ByType
            BY <1>5, <1>7
          <6>3. /\ p[1] \in DOMAIN ByType[v.types[p[2]]]
                /\ ByType[v.types[p[2]]][p[1]] = ByType[s][j]
            BY <1>7, <5>1, <6>1
          <6> DEFINE u == v.types[p[2]]
                     i == p[1]
          <6>4. u \in DOMAIN ByType /\ i \in DOMAIN ByType[u] /\ ByType[u][i] = ByType[s][j]
            BY <6>2, <6>3
          <6> HIDE DEF u, i
          <6>5. u = s
            BY <6>1, <6>2, <6>4, MigrationAssumption
          <6> QED
            BY <6>5 DEF u
        <5> QED
          BY <1>7, <5>1, <5>3, <5>4
      <4> DEFINE A == Kept(s) \intersect selected
      <4>3. \A d \in A : \E i \in 1..least : d = ByType[s][i]
        BY <4>2
      <4>4. least \in Nat
        BY <2>3
      <4> HIDE DEF A, S
      <4>5. Cardinality(A) <= least
        BY <4>3, <4>4, Spanned
      <4> QED
        BY <4>5 DEF A
    <3>2. CASE ~(least <= P)
      <4>1. Cardinality(Kept(s) \intersect selected) <= Cardinality(selected)
        <5> HIDE DEF selected, Kept
        <5> QED
          BY <1>3, FS_Intersection
      <4>2. least \in Nat
        BY <2>3
      <4> HIDE DEF S, selected, Kept, P, X
      <4> QED
        BY <1>1, <1>3, <1>8, <2>7, <3>2, <4>1, <4>2
    <3> QED
      BY <3>1, <3>2
  <2> HIDE DEF S, given, lost, selected, Kept
  <2>9. least \in Nat
    BY <2>3
  <2>10. Cardinality(Kept(s) \intersect selected) <= Cardinality(given) + Cardinality(lost) + 1
    BY <2>3, <2>5, <2>6, <2>7, <2>8, <2>9
  <2> QED
    BY <2>10 DEF given, lost
<1>14. \A s, t \in Types : Given(s) <= Given(t) + Lost(t) + 1 \/ Kept(t) \subseteq selected
  BY <1>13
<1> QED
  BY <1>12, <1>14 DEF Balanced

-----------------------------------------------------------------------------
(* What a report of a migration says                                       *)

\* What a running command planned is listed in its file, or pending.
PlanHeld(o) ==
  LET c == migration[o]
      listed == ledger[c.by.file].listed
  IN  /\ Running(o) \/ c.at = "reported" => c.by \in Invocations /\ c.planned = PlannedRecords(c.by)
      /\ c.at \in {"upload", "sent"} =>
           /\ c.pending \in Seq(VertexRecords)
           /\ SeqExt!ToSet(c.planned) \subseteq listed \union SeqExt!ToSet(c.pending)
      /\ c.at = "reported" => SeqExt!ToSet(c.planned) \subseteq listed
PlansHeld == \A o \in Migrators : PlanHeld(o)

\* What is pending is the batch and the rest.
LEMMA PendingSplit ==
  ASSUME NEW s \in Seq(VertexRecords), NEW n \in Nat
  PROVE  LET batch == FirstOf(s, n)
             rest == SubSeq(s, Len(batch) + 1, Len(s))
         IN  rest \in Seq(VertexRecords) /\ SeqExt!ToSet(s) \subseteq SeqExt!ToSet(batch) \union SeqExt!ToSet(rest)
<1> DEFINE batch == FirstOf(s, n)
           m == Len(batch)
           rest == SubSeq(s, m + 1, Len(s))
<1>1. /\ Len(s) \in Nat /\ m \in Nat /\ m <= Len(s) /\ batch \in Seq(VertexRecords)
      /\ \A i \in 1..m : batch[i] = s[i]
  BY FirstOfIs, LenProperties
<1>2. \A i \in m + 1..Len(s) : s[i] \in VertexRecords
  <2>1. \A i \in m + 1..Len(s) : i \in 1..Len(s)
    BY <1>1
  <2> QED
    BY <2>1, ElementOfSeq
<1>3. DOMAIN batch = 1..m /\ DOMAIN s = 1..Len(s)
  BY <1>1, LenProperties
<1> HIDE DEF batch, m
<1>4. /\ rest \in Seq(VertexRecords) /\ Len(rest) = IF m + 1 <= Len(s) THEN Len(s) - (m + 1) + 1 ELSE 0
      /\ \A i \in 1..Len(s) - (m + 1) + 1 : rest[i] = s[m + 1 + i - 1]
  BY <1>1, <1>2, SubSeqProperties
<1>5. DOMAIN rest = 1..Len(rest)
  BY <1>4, LenProperties
<1> HIDE DEF rest
<1>6. ASSUME NEW i \in DOMAIN s
      PROVE  (\E j \in DOMAIN batch : s[i] = batch[j]) \/ (\E j \in DOMAIN rest : s[i] = rest[j])
  <2>1. CASE i <= m
    BY <1>1, <1>3, <2>1
  <2>2. CASE ~(i <= m)
    <3>1. i \in Nat /\ i <= Len(s) /\ m + 1 <= Len(s)
      BY <1>1, <1>3, <2>2
    <3>2. Len(rest) = Len(s) - m
      BY <1>1, <1>4, <3>1
    <3> DEFINE j == i - m
               n1 == Len(s)
    <3>3. i \in Nat /\ m \in Nat /\ n1 \in Nat /\ i <= n1 /\ ~(i <= m)
      BY <1>1, <2>2, <3>1
    <3> HIDE DEF n1
    <3>4. j \in 1..n1 - m
      BY <3>3
    <3>5. n1 - (m + 1) + 1 = n1 - m
      BY <3>3
    <3>6. m + 1 + j - 1 = i
      <4>1. \A a, b \in Nat : b + 1 + (a - b) - 1 = a
        OBVIOUS
      <4> QED
        BY <3>3, <4>1
    <3>7. \A k \in 1..n1 - m : rest[k] = s[m + 1 + k - 1]
      BY <1>4, <3>5 DEF n1
    <3>8. DOMAIN rest = 1..n1 - m
      BY <1>5, <3>2 DEF n1
    <3> HIDE DEF j
    <3> QED
      BY <3>4, <3>6, <3>7, <3>8
  <2> QED
    BY <2>1, <2>2
<1> QED
  BY <1>4, <1>6 DEF SeqExt!ToSet, rest, m, batch

\* No step takes a record off a list.
LEMMA ListedStays ==
  ASSUME MigrationInv, [MigrationNext]_vertexVars, NEW f \in Ledgers
  PROVE  ledger[f].listed \subseteq ledger'[f].listed
<1>1. DOMAIN ledger = Ledgers /\ \A g \in Ledgers : DOMAIN ledger[g] = {"bound", "listed", "doubtful"}
  BY DEF MigrationInv
<1>2. CASE UNCHANGED ledger
  BY <1>2
<1>3. CASE DropCollection
  BY <1>1, <1>3 DEF DropCollection
<1>4. ASSUME NEW o \in Migrators, OpenLedger(o) PROVE ledger[f].listed \subseteq ledger'[f].listed
  BY <1>1, <1>4 DEF OpenLedger
<1>5. ASSUME NEW o \in Migrators, AcknowledgeBatch(o) PROVE ledger[f].listed \subseteq ledger'[f].listed
  BY <1>1, <1>5 DEF AcknowledgeBatch
<1> QED
  BY <1>2, <1>3, <1>4, <1>5
  DEF MigrationNext, vertexVars, PlanUpload, FindCollection, CreateCollection, UpsertPending, ReportUploaded, Dies

\* A plan which is held stays held while checkpoints only grow.
LEMMA PlanStays ==
  ASSUME MigrationInv, NEW o \in Migrators, PlanHeld(o), migration'[o] = migration[o],
         \A f \in Ledgers : ledger[f].listed \subseteq ledger'[f].listed
  PROVE  PlanHeld(o)'
<1>1. Running(o) \/ migration[o].at = "reported" => migration[o].by.file \in Ledgers
  BY BindingIs DEF PlanHeld
<1> QED
  BY <1>1 DEF PlanHeld, Running

\* A command that goes on without listing anything.
LEMMA PlanMoves ==
  ASSUME MigrationInv, PlansHeld, NEW o \in Migrators, NEW at, Moves(o, at), Running(o),
         at \in {"create", "ensured", "failed", "reported"}
           \/ (migration[o].at = "upload" /\ at \in {"sent", "failed"}),
         at = "reported" => Stands(o, "upload") /\ migration[o].pending = << >>,
         \A f \in Ledgers : ledger[f].listed \subseteq ledger'[f].listed
  PROVE  PlansHeld'
<1>1. /\ PlanHeld(o) /\ CommandHeld(o) /\ DOMAIN migration = Migrators
  BY DEF MigrationInv, PlansHeld
<1>2. /\ migration'[o].by = migration[o].by /\ migration'[o].at = at
      /\ migration'[o].planned = migration[o].planned /\ migration'[o].pending = migration[o].pending
      /\ \A p \in Migrators \ {o} : migration'[p] = migration[p]
  BY <1>1 DEF Moves, CommandHeld
<1>3. migration[o].by \in Invocations /\ migration[o].by.file \in Ledgers
  BY <1>1, BindingIs DEF CommandHeld
<1>4. PlanHeld(o)'
  <2>1. CASE at # "reported"
    BY <1>1, <1>2, <1>3, <2>1 DEF PlanHeld, Running
  <2>2. CASE at = "reported"
    <3>1. SeqExt!ToSet(migration[o].pending) = {}
      BY <2>2 DEF SeqExt!ToSet
    <3>2. SeqExt!ToSet(migration[o].planned) \subseteq ledger[migration[o].by.file].listed
      BY <1>1, <2>2, <3>1 DEF PlanHeld, Stands
    <3> QED
      BY <1>1, <1>2, <1>3, <2>2, <3>2 DEF PlanHeld, Running
  <2> QED
    BY <2>1, <2>2
<1>5. \A p \in Migrators \ {o} : PlanHeld(p)'
  BY <1>2, PlanStays DEF PlansHeld
<1> QED
  BY <1>4, <1>5 DEF PlansHeld

\* Every step keeps the plans.
LEMMA PlansGo == MigrationInv /\ PlansHeld /\ [MigrationNext]_vertexVars => PlansHeld'
<1> SUFFICES ASSUME MigrationInv, PlansHeld, [MigrationNext]_vertexVars PROVE PlansHeld'
  OBVIOUS
<1>1. \A f \in Ledgers : ledger[f].listed \subseteq ledger'[f].listed
  BY ListedStays
<1>2. DOMAIN migration = Migrators /\ \A o \in Migrators : CommandHeld(o) /\ PlanHeld(o)
  BY DEF MigrationInv, PlansHeld
<1>3. ASSUME NEW o \in Migrators, NEW c, migration' = [migration EXCEPT ![o] = c], PlanHeld(o)'
      PROVE  PlansHeld'
  <2>1. \A p \in Migrators \ {o} : migration'[p] = migration[p]
    BY <1>2, <1>3
  <2> QED
    BY <1>1, <1>2, <1>3, <2>1, PlanStays DEF PlansHeld
<1>4. ASSUME UNCHANGED migration PROVE PlansHeld'
  BY <1>1, <1>2, <1>4, PlanStays DEF PlansHeld
<1>5. ASSUME NEW o \in Migrators, PlanUpload(o) PROVE PlansHeld'
  <2>1. PICK v \in Invocations : migration' = [migration EXCEPT ![o] =
          [NoMigration EXCEPT !.at = "planned", !.by = v, !.planned = PlannedRecords(v)]]
    BY <1>5 DEF PlanUpload
  <2> DEFINE c == [NoMigration EXCEPT !.at = "planned", !.by = v, !.planned = PlannedRecords(v)]
  <2>2. c.at = "planned" /\ c.by = v /\ c.planned = PlannedRecords(v)
    BY DEF NoMigration
  <2>3. migration' = [migration EXCEPT ![o] = c]
    BY <2>1
  <2> HIDE DEF c
  <2>4. migration'[o] = c
    BY <1>2, <2>3
  <2>5. PlanHeld(o)'
    BY <2>2, <2>4 DEF PlanHeld, Running
  <2> QED
    BY <1>3, <2>3, <2>5
<1>6. ASSUME NEW o \in Migrators,
             FindCollection(o) \/ CreateCollection(o) \/ UpsertPending(o) \/ ReportUploaded(o) \/ Dies(o)
      PROVE  PlansHeld'
  <2>1. Running(o)
    BY <1>6 DEF FindCollection, CreateCollection, UpsertPending, ReportUploaded, Dies, Running, Stands
  <2>2. PICK at : /\ Moves(o, at)
                  /\ at \in {"create", "ensured", "failed", "reported"}
                     \/ (migration[o].at = "upload" /\ at \in {"sent", "failed"})
                  /\ at = "reported" => Stands(o, "upload") /\ migration[o].pending = << >>
    <3>1. CASE Fails(o)
      BY <3>1 DEF Fails
    <3>2. CASE ~Fails(o)
      BY <1>6, <3>2
      DEF FindCollection, CreateCollection, UpsertPending, ReportUploaded, Dies, Stands
    <3> QED
      BY <3>1, <3>2
  <2> QED
    BY <1>1, <2>1, <2>2, PlanMoves
<1>7. ASSUME NEW o \in Migrators, OpenLedger(o) PROVE PlansHeld'
  <2> DEFINE by == migration[o].by
             listed == ledger[by.file].listed
             missing == Missing(migration[o].planned, listed)
             c == [migration[o] EXCEPT !.at = "upload", !.pending = missing]
  <2>1. CASE Fails(o)
    BY <1>1, <2>1, <1>7, PlanMoves DEF Fails, OpenLedger, Running, Stands
  <2>2. CASE ~Fails(o)
    <3>1. migration' = [migration EXCEPT ![o].at = "upload", ![o].pending = missing]
      BY <1>7, <2>2 DEF OpenLedger
    <3>2. migration' = [migration EXCEPT ![o] = c]
      BY <1>2, <3>1
    <3>3. /\ by \in Invocations /\ migration[o].planned = PlannedRecords(by)
          /\ DOMAIN migration[o] = {"at", "by", "planned", "pending"} /\ by.file \in Ledgers
      BY <1>2, <1>7, BindingIs DEF OpenLedger, Stands, PlanHeld, CommandHeld, Running
    <3>4. c.at = "upload" /\ c.by = by /\ c.planned = migration[o].planned /\ c.pending = missing
      BY <3>3
    <3>5. migration[o].planned \in Seq(VertexRecords)
      BY <3>3, PlannedSpan
    <3>6. /\ missing \in Seq(VertexRecords)
          /\ SeqExt!ToSet(migration[o].planned) \subseteq listed \union SeqExt!ToSet(missing)
      <4> DEFINE s == migration[o].planned
      <4> HIDE DEF listed, s
      <4>1. LET m == Missing(s, listed)
            IN  /\ m \in Seq(VertexRecords)
                /\ \A i \in DOMAIN s : s[i] \in listed \/ \E j \in DOMAIN m : m[j] = s[i]
        BY <3>5, MissingIs DEF s
      <4> DEFINE m == Missing(s, listed)
      <4>2. SeqExt!ToSet(s) \subseteq listed \union SeqExt!ToSet(m)
        <5>1. \A i \in DOMAIN s : s[i] \in listed \/ \E j \in DOMAIN m : m[j] = s[i]
          BY <4>1
        <5> HIDE DEF m
        <5> QED
          BY <5>1 DEF SeqExt!ToSet
      <4> QED
        BY <4>1, <4>2 DEF s
    <3> HIDE DEF c, missing
    <3>7. migration'[o] = c
      BY <1>2, <3>2
    <3>8. PlanHeld(o)'
      <4>1. listed \subseteq ledger'[by.file].listed
        BY <1>1, <3>3
      <4> HIDE DEF listed, by
      <4> QED
        BY <3>3, <3>4, <3>6, <3>7, <4>1 DEF PlanHeld, Running
    <3> QED
      BY <1>3, <3>2, <3>8
  <2> QED
    BY <2>1, <2>2
<1>8. ASSUME NEW o \in Migrators, AcknowledgeBatch(o) PROVE PlansHeld'
  <2> DEFINE by == migration[o].by
             s == migration[o].pending
             rest == SubSeq(s, Len(PendingBatch(o)) + 1, Len(s))
             c == [migration[o] EXCEPT !.at = "upload", !.pending = rest]
  <2>1. migration' = [migration EXCEPT ![o] = c]
    BY <1>2, <1>8 DEF AcknowledgeBatch
  <2>2. /\ by \in Invocations /\ by.file \in Ledgers /\ s \in Seq(VertexRecords)
        /\ DOMAIN migration[o] = {"at", "by", "planned", "pending"}
        /\ migration[o].planned = PlannedRecords(by)
        /\ SeqExt!ToSet(migration[o].planned) \subseteq ledger[by.file].listed \union SeqExt!ToSet(s)
    BY <1>2, <1>8, BindingIs DEF AcknowledgeBatch, Stands, PlanHeld, CommandHeld, Running
  <2>3. c.at = "upload" /\ c.by = by /\ c.planned = migration[o].planned /\ c.pending = rest
    BY <2>2
  <2>4. rest \in Seq(VertexRecords) /\ SeqExt!ToSet(s) \subseteq Acknowledged(o) \union SeqExt!ToSet(rest)
    <3>1. VertexBatch \in Nat
      BY MigrationAssumption
    <3> HIDE DEF s
    <3> QED
      BY <2>2, <3>1, PendingSplit DEF Acknowledged, PendingBatch, s
  <2>5. ledger'[by.file].listed = ledger[by.file].listed \union Acknowledged(o)
    <3>1. ledger' = [ledger EXCEPT ![by.file].listed = @ \union Acknowledged(o)]
      BY <1>8 DEF AcknowledgeBatch
    <3>2. DOMAIN ledger = Ledgers /\ DOMAIN ledger[by.file] = {"bound", "listed", "doubtful"}
      BY <2>2 DEF MigrationInv
    <3> HIDE DEF by
    <3> QED
      BY <2>2, <3>1, <3>2
  <2> HIDE DEF c, rest
  <2>6. migration'[o] = c
    BY <1>2, <2>1
  <2>7. PlanHeld(o)'
    <3>1. SeqExt!ToSet(migration[o].planned) \subseteq ledger'[by.file].listed \union SeqExt!ToSet(rest)
      BY <2>2, <2>4, <2>5
    <3> HIDE DEF by
    <3> QED
      BY <2>2, <2>3, <2>4, <2>6, <3>1 DEF PlanHeld, Running
  <2> QED
    BY <1>3, <2>1, <2>7
<1> QED
  BY <1>4, <1>5, <1>6, <1>7, <1>8 DEF MigrationNext, DropCollection, vertexVars

(* A command that reports has uploaded, or skipped as uploaded, all it     *)
(* planned, and its plan was a balanced choice of documents, each from its *)
(* first chunk to its last: for any legal types, documents, limits and     *)
(* number of commands that share collection and files, whatever fails,     *)
(* dies or is applied without an answer; a deletion of the collection that *)
(* the checkpoint does not see excuses it (select_diverse_document_ids,    *)
(* select_evenly_spaced_chunks, missing_record_ids,                        *)
(* upload_vertex_records).                                                 *)
THEOREM MigrationWhole == MigrationSpec => []MigratedWhole
<1>1. MigrationInit => PlansHeld
  BY DEF MigrationInit, NoMigration, PlansHeld, PlanHeld, Running
<1>2. MigrationInv /\ PlansHeld /\ ListedIsHeld => MigratedWhole
  <2> SUFFICES ASSUME MigrationInv, PlansHeld, ListedIsHeld PROVE MigratedWhole
    OBVIOUS
  <2>1. ASSUME NEW o \in Migrators, Stands(o, "reported")
        PROVE  LET v == migration[o].by
                   held == DOMAIN vertex.model
               IN  /\ SeqExt!ToSet(migration[o].planned) \subseteq ledger[v.file].listed
                   /\ Balanced(v)
                   /\ ~ledger[v.file].doubtful /\ Len(migration[o].planned) < v.max_points =>
                        \A d \in Diverse(v) \ Flawed :
                          /\ \E r \in held : r[1] = d /\ r[3] = 0
                          /\ v.per_document > 1 => \E r \in held : r[1] = d /\ r[3] = ChunksOf[d] - 1
    <3> DEFINE v == migration[o].by
               held == DOMAIN vertex.model
               p == PlannedRecords(v)
    <3>1. /\ v \in Invocations /\ v.file \in Ledgers /\ migration[o].planned = p
          /\ SeqExt!ToSet(p) \subseteq ledger[v.file].listed
      BY <2>1, BindingIs DEF PlansHeld, PlanHeld, Stands
    <3>2. Balanced(v)
      BY <3>1, IsBalanced
    <3>3. ASSUME ~ledger[v.file].doubtful, Len(p) < v.max_points, NEW d \in Diverse(v) \ Flawed
          PROVE  /\ \E r \in held : r[1] = d /\ r[3] = 0
                 /\ v.per_document > 1 => \E r \in held : r[1] = d /\ r[3] = ChunksOf[d] - 1
      <4> HIDE DEF v, p, held
      <4>1. d \in DOMAIN ChunksOf /\ d \notin Flawed
        BY <3>1, DiverseIs
      <4> DEFINE s == RecordsOf(d, v)
      <4>2. \A j \in DOMAIN s : \E i \in DOMAIN p : p[i] = s[j]
        BY <3>1, <3>3, <4>1, PlannedSpan DEF p
      <4>3. \A r \in SeqExt!ToSet(p) : r \in held
        BY <3>1, <3>3 DEF ListedIsHeld, held
      <4>4. \A j \in DOMAIN s : s[j] \in held
        <5> HIDE DEF s
        <5> QED
          BY <4>2, <4>3 DEF SeqExt!ToSet
      <4>5. /\ \E i \in DOMAIN s : s[i][1] = d /\ s[i][3] = 0
            /\ v.per_document > 1 =>
                 \E i \in DOMAIN s : s[i][1] = d /\ s[i][3] = ChunksOf[d] - 1
        BY <3>1, <4>1, RecordsSpan
      <4> HIDE DEF s
      <4> QED
        BY <4>4, <4>5
    <3> QED
      BY <3>1, <3>2, <3>3
  <2> QED
    BY <2>1 DEF MigratedWhole
<1> QED
  BY <1>1, <1>2, MigrationStarts, MigrationGoes, PlansGo, ListedHeld, PTL DEF MigrationSpec

-----------------------------------------------------------------------------
(* The measures                                                            *)

\* The least of a set of numbers is its member.
LEMMA MinOf ==
  ASSUME NEW S \in SUBSET Nat, S # {}
  PROVE  SetExt!Min(S) \in S /\ \A y \in S : SetExt!Min(S) <= y
<1>1. \E x \in S : \A y \in S : x <= y
  BY LeastNumber
<1> QED
  BY <1>1 DEF SetExt!Min

\* The greater of two numbers is one of them.
LEMMA MaxOf ==
  ASSUME NEW a \in Nat, NEW b \in Nat
  PROVE  LET m == SetExt!Max({a, b}) IN m \in {a, b} /\ a <= m /\ b <= m
<1>1. \E x \in {a, b} : \A y \in {a, b} : x >= y
  OBVIOUS
<1> DEFINE m == CHOOSE x \in {a, b} : \A y \in {a, b} : x >= y
<1>2. m \in {a, b} /\ \A y \in {a, b} : m >= y
  BY <1>1
<1>3. SetExt!Max({a, b}) = m
  BY DEF SetExt!Max
<1> HIDE DEF m
<1> QED
  BY <1>2, <1>3

\* The items of a list that are of some levels are items of the list.
LEMMA LevelsAre ==
  ASSUME NEW S, NEW gs \in Seq(S), NEW levels
  PROVE  LET l == OfLevels(gs, levels)
         IN  /\ l \in Seq(S)
             /\ \A i \in DOMAIN l : l[i].level \in levels /\ \E k \in DOMAIN gs : l[i] = gs[k]
<1> DEFINE total == Len(gs)
           V == Seq(S)
           more(l, g) == IF g.level \in levels THEN Append(l, g) ELSE l
           step == [p \in (1..total) \X V |-> more(p[2], gs[p[1]])]
<1>1. total \in Nat /\ DOMAIN gs = 1..total /\ \A i \in 1..total : gs[i] \in S
  BY LenProperties, ElementOfSeq
<1>2. << >> \in V /\ step \in Steps(total, V)
  <2>1. ASSUME NEW l \in V, NEW i \in 1..total PROVE more(l, gs[i]) \in V
    <3> HIDE DEF total
    <3>1. Append(l, gs[i]) \in V
      BY <1>1, AppendProperties
    <3> QED
      BY <3>1
  <2> HIDE DEF total, more
  <2>2. step \in [(1..total) \X V -> V]
    BY <2>1
  <2> QED
    BY <2>2, EmptySeq DEF Steps
<1>3. PICK f \in [0..total -> V] : Unrolls(f, total, << >>, step)
  <2> HIDE DEF total, V, step
  <2> QED
    BY <1>1, <1>2, Unrolled
<1>4. f = [i \in 0..total |-> IF i = 0 THEN << >> ELSE more(f[i - 1], gs[i])]
  <2> HIDE DEF total, V, more
  <2>1. \A i \in 1..total : step[<<i, f[i - 1]>>] = more(f[i - 1], gs[i])
    BY <1>1
  <2> HIDE DEF step
  <2>2. ASSUME NEW i \in 0..total PROVE f[i] = IF i = 0 THEN << >> ELSE more(f[i - 1], gs[i])
    <3>1. CASE i = 0
      BY <1>3, <3>1 DEF Unrolls
    <3>2. CASE i # 0
      <4>1. i \in 1..total
        BY <1>1, <3>2
      <4> QED
        BY <1>3, <2>1, <3>2, <4>1 DEF Unrolls
    <3> QED
      BY <3>1, <3>2
  <2> QED
    BY <1>3, <2>2
<1> DEFINE first[i \in 0..total] ==
      IF i = 0 THEN << >>
      ELSE IF gs[i].level \in levels THEN Append(first[i - 1], gs[i]) ELSE first[i - 1]
<1>5. first = [i \in 0..total |-> IF i = 0 THEN << >> ELSE more(first[i - 1], gs[i])]
  <2> HIDE DEF total
  <2> QED
    BY <1>4
<1>6. OfLevels(gs, levels) = first[total]
  BY DEF OfLevels
<1> HIDE DEF first, total
<1> DEFINE Of(l) == /\ l \in V
                    /\ \A i \in DOMAIN l : l[i].level \in levels /\ \E k \in DOMAIN gs : l[i] = gs[k]
           G == {n \in Nat : n <= total => Of(first[n])}
<1>7. 0 \in G
  <2>1. first[0] = << >>
    BY <1>1, <1>5
  <2>2. Of(<< >>)
    BY <1>2
  <2> HIDE DEF Of
  <2> QED
    BY <2>1, <2>2
<1>8. ASSUME NEW n \in Nat, n \in G PROVE n + 1 \in G
  <2> SUFFICES ASSUME n + 1 <= total PROVE Of(first[n + 1])
    OBVIOUS
  <2>1. n + 1 \in 0..total /\ n + 1 \in 1..total /\ n <= total
    BY <1>1
  <2>2. first[n + 1] = more(first[n], gs[n + 1])
    <3> HIDE DEF more
    <3> QED
      BY <1>5, <2>1
  <2>3. Of(first[n])
    BY <1>8, <2>1
  <2> DEFINE l == first[n]
             g == gs[n + 1]
  <2>4. ASSUME g.level \in levels PROVE Of(Append(l, g))
    <3>1. l \in Seq(S) /\ g \in S
      BY <1>1, <2>1, <2>3
    <3>2. \E k \in DOMAIN gs : g = gs[k]
      BY <1>1, <2>1
    <3> HIDE DEF g
    <3>3. Of(l)
      BY <2>3
    <3> HIDE DEF l
    <3>4. /\ Append(l, g) \in Seq(S) /\ Len(Append(l, g)) = Len(l) + 1
          /\ DOMAIN l = 1..Len(l) /\ Len(l) \in Nat
          /\ \A i \in 1..Len(l) : Append(l, g)[i] = l[i]
          /\ Append(l, g)[Len(l) + 1] = g
      BY <3>1, AppendProperties, LenProperties
    <3>5. DOMAIN Append(l, g) = 1..Len(l) + 1
      BY <3>4, LenProperties
    <3>6. ASSUME NEW i \in 1..Len(l) + 1
          PROVE  /\ Append(l, g)[i].level \in levels
                 /\ \E k \in DOMAIN gs : Append(l, g)[i] = gs[k]
      <4>1. CASE i = Len(l) + 1
        BY <2>4, <3>2, <3>4, <4>1 DEF g
      <4>2. CASE i # Len(l) + 1
        <5>1. i \in 1..Len(l)
          BY <3>4, <4>2
        <5> QED
          BY <3>3, <3>4, <5>1
      <4> QED
        BY <4>1, <4>2
    <3> QED
      BY <3>4, <3>5, <3>6
  <2> HIDE DEF Of
  <2> QED
    BY <2>2, <2>3, <2>4
<1>9. Of(first[total])
  <2>1. Nat \subseteq G
    <3> HIDE DEF G
    <3> QED
      BY <1>7, <1>8, Induction
  <2>2. total \in G /\ total <= total
    BY <1>1, <2>1
  <2> HIDE DEF Of
  <2> QED
    BY <2>2
<1> QED
  BY <1>6, <1>9

\* What the first candidates took: each a gold item of its own, at a rank of its own.
TakenBy(taken, gs, n) ==
  /\ taken = [items |-> taken.items, ranks |-> taken.ranks]
  /\ taken.items \in SUBSET DOMAIN gs /\ taken.ranks \in Seq(Nat)
  /\ Cardinality(taken.items) = Len(taken.ranks) /\ Len(taken.ranks) <= n
  /\ \A i \in DOMAIN taken.ranks : i <= taken.ranks[i]

\* One more candidate takes at most one item more, at a rank that is not before it.
LEMMA TakeOne ==
  ASSUME NEW S, NEW gs \in Seq(S), NEW taken, NEW c, NEW n \in Nat, TakenBy(taken, gs, n)
  PROVE  TakenBy(TakeGold(taken, gs, c, n + 1), gs, n + 1)
<1> DEFINE free == {i \in DOMAIN gs \ taken.items : RequiredMatch(gs[i], c)}
           one == SetExt!Min(free)
           more == [items |-> taken.items \union {one}, ranks |-> Append(taken.ranks, n + 1)]
<1>1. /\ taken.items \in SUBSET DOMAIN gs /\ taken.ranks \in Seq(Nat)
      /\ Cardinality(taken.items) = Len(taken.ranks) /\ Len(taken.ranks) <= n
      /\ \A i \in DOMAIN taken.ranks : i <= taken.ranks[i]
      /\ taken = [items |-> taken.items, ranks |-> taken.ranks]
  BY DEF TakenBy
<1>2. Len(taken.ranks) \in Nat /\ DOMAIN taken.ranks = 1..Len(taken.ranks)
  BY <1>1, LenProperties
<1>3. CASE free = {}
  <2>1. TakeGold(taken, gs, c, n + 1) = taken
    BY <1>3 DEF TakeGold
  <2> QED
    BY <1>1, <1>2, <2>1 DEF TakenBy
<1>4. CASE free # {}
  <2>1. TakeGold(taken, gs, c, n + 1) = more
    BY <1>4 DEF TakeGold
  <2>2. one \in DOMAIN gs \ taken.items
    <3>1. DOMAIN gs \subseteq Nat
      BY LenProperties
    <3>2. free \in SUBSET Nat /\ free \subseteq DOMAIN gs \ taken.items
      BY <3>1
    <3> HIDE DEF free
    <3> QED
      BY <1>4, <3>2, MinOf
  <2> HIDE DEF one
  <2>3. Cardinality(taken.items \union {one}) = Cardinality(taken.items) + 1
    <3>1. IsFiniteSet(taken.items)
      <4>1. Len(gs) \in Nat /\ DOMAIN gs = 1..Len(gs)
        BY LenProperties
      <4>2. IsFiniteSet(DOMAIN gs)
        BY <4>1, FS_Interval
      <4> QED
        BY <1>1, <4>2, FS_Subset
    <3> QED
      BY <2>2, <3>1, FS_AddElement
  <2> DEFINE r == taken.ranks
  <2>4. /\ Append(r, n + 1) \in Seq(Nat) /\ Len(Append(r, n + 1)) = Len(r) + 1
        /\ \A i \in 1..Len(r) : Append(r, n + 1)[i] = r[i]
        /\ Append(r, n + 1)[Len(r) + 1] = n + 1
    <3>1. n + 1 \in Nat /\ r \in Seq(Nat)
      BY <1>1
    <3> HIDE DEF r
    <3> QED
      BY <3>1, AppendProperties
  <2>5. DOMAIN Append(r, n + 1) = 1..Len(r) + 1
    BY <2>4, LenProperties
  <2>6. \A i \in 1..Len(r) + 1 : i <= Append(r, n + 1)[i]
    <3> TAKE i \in 1..Len(r) + 1
    <3>1. CASE i = Len(r) + 1
      BY <1>1, <1>2, <2>4, <3>1
    <3>2. CASE i # Len(r) + 1
      <4>1. i \in 1..Len(r)
        BY <1>2, <3>2
      <4> QED
        BY <1>1, <1>2, <2>4, <4>1
    <3> QED
      BY <3>1, <3>2
  <2>7. more.items = taken.items \union {one} /\ more.ranks = Append(r, n + 1)
    OBVIOUS
  <2>8. more = [items |-> more.items, ranks |-> more.ranks]
    OBVIOUS
  <2> HIDE DEF more
  <2>9. more.items \in SUBSET DOMAIN gs /\ more.ranks \in Seq(Nat)
    BY <1>1, <2>2, <2>4, <2>7
  <2>10. Cardinality(more.items) = Len(more.ranks) /\ Len(more.ranks) <= n + 1
    <3> HIDE DEF r
    <3>1. Len(r) <= n /\ Cardinality(taken.items) = Len(r) /\ Len(r) \in Nat
      BY <1>1, <1>2 DEF r
    <3> QED
      BY <2>3, <2>4, <2>7, <3>1
  <2>11. \A i \in DOMAIN more.ranks : i <= more.ranks[i]
    <3> HIDE DEF r
    <3> QED
      BY <2>5, <2>6, <2>7
  <2> QED
    BY <2>1, <2>8, <2>9, <2>10, <2>11 DEF TakenBy
<1> QED
  BY <1>3, <1>4

\* No list of candidates earns more than the ideal one.
LEMMA RanksAre ==
  ASSUME NEW S, NEW gs \in Seq(S), NEW T, NEW cs \in Seq(T)
  PROVE  LET ranks == RelevantRanks(gs, cs)
         IN  Len(ranks) <= Len(gs) /\ \A i \in DOMAIN ranks : i <= ranks[i]
<1> DEFINE total == Len(cs)
           V == [items : SUBSET DOMAIN gs, ranks : Seq(Nat)]
           none == [items |-> {}, ranks |-> << >>]
           more(t, j) == TakeGold(t, gs, cs[j], j)
           step == [p \in (1..total) \X V |-> more(p[2], p[1])]
<1>1. total \in Nat /\ DOMAIN gs \subseteq Nat
  BY LenProperties
<1>2. none \in V /\ step \in Steps(total, V)
  <2>1. ASSUME NEW t \in V, NEW j \in 1..total PROVE more(t, j) \in V
    <3> HIDE DEF total
    <3> DEFINE free == {i \in DOMAIN gs \ t.items : RequiredMatch(gs[i], cs[j])}
               one == SetExt!Min(free)
    <3>1. free # {} => one \in DOMAIN gs
      <4>1. free \in SUBSET Nat /\ free \subseteq DOMAIN gs
        BY <1>1
      <4> HIDE DEF free
      <4> QED
        BY <4>1, MinOf
    <3>2. t.items \in SUBSET DOMAIN gs /\ t.ranks \in Seq(Nat) /\ j \in Nat
      BY <1>1
    <3>3. Append(t.ranks, j) \in Seq(Nat)
      BY <3>2, AppendProperties
    <3>4. more(t, j) = IF free = {} THEN t
                       ELSE [items |-> t.items \union {one}, ranks |-> Append(t.ranks, j)]
      BY DEF TakeGold
    <3> HIDE DEF free, one, more
    <3> QED
      BY <3>1, <3>2, <3>3, <3>4
  <2> HIDE DEF total, more
  <2>2. step \in [(1..total) \X V -> V]
    <3> HIDE DEF V
    <3> QED
      BY <2>1
  <2>3. none \in V
    BY EmptySeq
  <2> QED
    BY <2>2, <2>3 DEF Steps
<1>3. PICK f \in [0..total -> V] : Unrolls(f, total, none, step)
  <2> HIDE DEF total, V, none, step
  <2> QED
    BY <1>1, <1>2, Unrolled
<1>4. f = [j \in 0..total |-> IF j = 0 THEN none ELSE more(f[j - 1], j)]
  <2> HIDE DEF total, V, none, more
  <2>1. \A j \in 1..total : step[<<j, f[j - 1]>>] = more(f[j - 1], j)
    BY <1>1
  <2> HIDE DEF step
  <2>2. ASSUME NEW j \in 0..total PROVE f[j] = IF j = 0 THEN none ELSE more(f[j - 1], j)
    <3>1. CASE j = 0
      BY <1>3, <3>1 DEF Unrolls
    <3>2. CASE j # 0
      <4>1. j \in 1..total
        BY <1>1, <3>2
      <4> QED
        BY <1>3, <2>1, <3>2, <4>1 DEF Unrolls
    <3> QED
      BY <3>1, <3>2
  <2> QED
    BY <1>3, <2>2
<1> DEFINE after[j \in 0..total] ==
      IF j = 0 THEN [items |-> {}, ranks |-> << >>] ELSE TakeGold(after[j - 1], gs, cs[j], j)
<1>5. after = [j \in 0..total |-> IF j = 0 THEN none ELSE more(after[j - 1], j)]
  <2> HIDE DEF total
  <2> QED
    BY <1>4
<1>6. RelevantRanks(gs, cs) = after[total].ranks
  BY DEF RelevantRanks
<1> HIDE DEF after, total
<1> DEFINE G == {n \in Nat : n <= total => TakenBy(after[n], gs, n)}
<1>7. 0 \in G
  <2>1. after[0] = none
    <3> HIDE DEF more, none
    <3> QED
      BY <1>1, <1>5
  <2>2. none.items = {} /\ none.ranks = << >> /\ none = [items |-> none.items, ranks |-> none.ranks]
    OBVIOUS
  <2>3. TakenBy(none, gs, 0)
    <3>1. Len(<< >>) = 0 /\ << >> \in Seq(Nat) /\ \A i \in DOMAIN << >> : FALSE
      OBVIOUS
    <3>2. Cardinality({}) = 0
      BY FS_EmptySet
    <3> HIDE DEF none
    <3> QED
      BY <2>2, <3>1, <3>2 DEF TakenBy
  <2> HIDE DEF none
  <2> QED
    BY <2>1, <2>3
<1>8. ASSUME NEW n \in Nat, n \in G PROVE n + 1 \in G
  <2> SUFFICES ASSUME n + 1 <= total PROVE TakenBy(after[n + 1], gs, n + 1)
    OBVIOUS
  <2>1. n + 1 \in 0..total /\ n <= total /\ (n + 1) - 1 = n /\ n + 1 # 0
    BY <1>1
  <2>2. after[n + 1] = TakeGold(after[n], gs, cs[n + 1], n + 1)
    <3> HIDE DEF none
    <3>1. after[n + 1] = more(after[n], n + 1)
      <4> HIDE DEF more
      <4> QED
        BY <1>5, <2>1
    <3> QED
      BY <3>1
  <2>3. TakenBy(after[n], gs, n)
    BY <1>8, <2>1
  <2> QED
    BY <2>2, <2>3, TakeOne
<1>9. TakenBy(after[total], gs, total)
  <2>1. Nat \subseteq G
    <3> HIDE DEF G
    <3> QED
      BY <1>7, <1>8, Induction
  <2> QED
    BY <1>1, <2>1
<1> DEFINE taken == after[total]
<1>10. /\ taken.items \in SUBSET DOMAIN gs /\ Cardinality(taken.items) = Len(taken.ranks)
       /\ \A i \in DOMAIN taken.ranks : i <= taken.ranks[i]
  BY <1>9 DEF TakenBy
<1>11. Cardinality(taken.items) <= Len(gs)
  <2> HIDE DEF taken
  <2> DEFINE m == Len(gs)
  <2>1. m \in Nat /\ DOMAIN gs = 1..m
    BY LenProperties
  <2> HIDE DEF m
  <2>2. IsFiniteSet(1..m) /\ Cardinality(1..m) = m
    BY <2>1, FS_Interval
  <2>3. Cardinality(taken.items) <= m
    BY <1>10, <2>1, <2>2, FS_Subset
  <2> QED
    BY <2>3 DEF m
<1> HIDE DEF taken
<1>12. RelevantRanks(gs, cs) = taken.ranks
  BY <1>6 DEF taken
<1> QED
  BY <1>10, <1>11, <1>12

\* What the first i tokens of x and the first j of y have in common, in this order.
Shared(n, x, i, y, j) ==
  \E p \in Places(n, i), q \in Places(n, j) : \A k \in 1..n : x[p[k]] = y[q[k]]

\* Nothing is left of no token.
LEMMA NothingShared ==
  ASSUME NEW x, NEW y, NEW i \in Nat, NEW j \in Nat
  PROVE  /\ Shared(0, x, i, y, j)
         /\ i = 0 \/ j = 0 => \A n \in Nat : Shared(n, x, i, y, j) => n = 0
<1>1. \A k \in 1..0 : FALSE
  OBVIOUS
<1>2. \A m \in Nat : [k \in 1..0 |-> k] \in Places(0, m)
  BY <1>1 DEF Places
<1>3. Shared(0, x, i, y, j)
  BY <1>1, <1>2 DEF Shared
<1>4. ASSUME NEW n \in Nat, n # 0, NEW p \in Places(n, 0) PROVE FALSE
  <2>1. 1 \in 1..n /\ p \in [1..n -> 1..0]
    BY <1>4 DEF Places
  <2> QED
    BY <1>1, <2>1
<1> QED
  BY <1>3, <1>4 DEF Shared

\* Places among the first m are among any more.
LEMMA PlacesWider ==
  ASSUME NEW n \in Nat, NEW m \in Nat, NEW l \in Nat, m <= l
  PROVE  Places(n, m) \subseteq Places(n, l)
<1>1. 1..m \subseteq 1..l
  OBVIOUS
<1> QED
  BY <1>1 DEF Places

\* What is shared by the starts of two texts is shared by longer ones.
LEMMA SharedWider ==
  ASSUME NEW n \in Nat, NEW x, NEW y, NEW i \in Nat, NEW j \in Nat, NEW k \in Nat, NEW l \in Nat,
         i <= k, j <= l, Shared(n, x, i, y, j)
  PROVE  Shared(n, x, k, y, l)
<1>1. Places(n, i) \subseteq Places(n, k) /\ Places(n, j) \subseteq Places(n, l)
  BY PlacesWider
<1> QED
  BY <1>1 DEF Shared

\* One place more, behind the others.
LEMMA PlacesMore ==
  ASSUME NEW n \in Nat, NEW m \in Nat, NEW p \in Places(n, m)
  PROVE  LET g == [k \in 1..n + 1 |-> IF k = n + 1 THEN m + 1 ELSE p[k]]
         IN  g \in Places(n + 1, m + 1)
<1> DEFINE g == [k \in 1..n + 1 |-> IF k = n + 1 THEN m + 1 ELSE p[k]]
<1>1. \A k \in 1..n : p[k] \in 1..m
  BY DEF Places
<1>2. g \in [1..n + 1 -> 1..m + 1]
  <2>1. ASSUME NEW k \in 1..n + 1 PROVE (IF k = n + 1 THEN m + 1 ELSE p[k]) \in 1..m + 1
    <3>1. k # n + 1 => k \in 1..n
      OBVIOUS
    <3> QED
      BY <1>1, <3>1
  <2> QED
    BY <2>1
<1>3. ASSUME NEW a \in 1..n + 1, NEW b \in 1..n + 1, a < b PROVE g[a] < g[b]
  <2>1. a \in 1..n /\ g[a] = p[a] /\ p[a] \in 1..m
    BY <1>1, <1>3
  <2>2. CASE b = n + 1
    <3>1. g[b] = m + 1
      BY <2>2
    <3> QED
      BY <2>1, <3>1
  <2>3. CASE b # n + 1
    <3>1. b \in 1..n /\ g[b] = p[b]
      BY <2>3
    <3> QED
      BY <1>3, <2>1, <3>1 DEF Places
  <2> QED
    BY <2>2, <2>3
<1> QED
  BY <1>2, <1>3 DEF Places

\* The same token at the end of both makes the shared list one longer.
LEMMA SharedMore ==
  ASSUME NEW n \in Nat, NEW x, NEW y, NEW i \in Nat, NEW j \in Nat,
         x[i + 1] = y[j + 1], Shared(n, x, i, y, j)
  PROVE  Shared(n + 1, x, i + 1, y, j + 1)
<1>1. PICK p \in Places(n, i), q \in Places(n, j) : \A k \in 1..n : x[p[k]] = y[q[k]]
  BY DEF Shared
<1> DEFINE f == [k \in 1..n + 1 |-> IF k = n + 1 THEN i + 1 ELSE p[k]]
           g == [k \in 1..n + 1 |-> IF k = n + 1 THEN j + 1 ELSE q[k]]
<1>2. f \in Places(n + 1, i + 1) /\ g \in Places(n + 1, j + 1)
  BY PlacesMore
<1>3. ASSUME NEW k \in 1..n + 1 PROVE x[f[k]] = y[g[k]]
  <2>1. CASE k = n + 1
    BY <2>1
  <2>2. CASE k # n + 1
    <3>1. k \in 1..n /\ f[k] = p[k] /\ g[k] = q[k]
      BY <2>2
    <3> QED
      BY <1>1, <3>1
  <2> QED
    BY <2>1, <2>2
<1> HIDE DEF f, g
<1> QED
  BY <1>2, <1>3 DEF Shared

\* The places before the last one.
LEMMA PlacesLess ==
  ASSUME NEW n \in Nat, NEW m \in Nat, NEW p \in Places(n + 1, m)
  PROVE  LET g == [k \in 1..n |-> p[k]]
         IN  /\ p[n + 1] \in 1..m /\ g \in Places(n, p[n + 1] - 1)
             /\ \A k \in 1..n : p[k] \in 1..p[n + 1] - 1
<1> DEFINE g == [k \in 1..n |-> p[k]]
           l == p[n + 1]
<1>1. /\ \A k \in 1..n + 1 : p[k] \in 1..m
      /\ \A a, b \in 1..n + 1 : a < b => p[a] < p[b]
  BY DEF Places
<1>2. n + 1 \in 1..n + 1 /\ \A k \in 1..n : k \in 1..n + 1 /\ k < n + 1
  OBVIOUS
<1>3. l \in 1..m
  BY <1>1, <1>2
<1>4. \A k \in 1..n : p[k] \in 1..l - 1
  <2> TAKE k \in 1..n
  <2>1. p[k] \in 1..m /\ p[k] < l
    BY <1>1, <1>2
  <2> HIDE DEF l
  <2> QED
    BY <1>3, <2>1
<1>5. \A a, b \in 1..n : a < b => g[a] < g[b]
  BY <1>1, <1>2
<1> HIDE DEF l
<1>6. g \in [1..n -> 1..l - 1]
  BY <1>4
<1> HIDE DEF g
<1>7. g \in Places(n, l - 1)
  BY <1>5, <1>6 DEF Places
<1> QED
  BY <1>3, <1>4, <1>7 DEF g, l

\* The last shared token is somewhere in both, and the rest is before it.
LEMMA SharedLast ==
  ASSUME NEW n \in Nat, NEW x, NEW y, NEW i \in Nat, NEW j \in Nat, Shared(n + 1, x, i, y, j)
  PROVE  \E k \in 1..i, l \in 1..j : x[k] = y[l] /\ Shared(n, x, k - 1, y, l - 1)
<1>1. PICK p \in Places(n + 1, i), q \in Places(n + 1, j) : \A k \in 1..n + 1 : x[p[k]] = y[q[k]]
  BY DEF Shared
<1> DEFINE f == [k \in 1..n |-> p[k]]
           g == [k \in 1..n |-> q[k]]
<1>2. /\ p[n + 1] \in 1..i /\ f \in Places(n, p[n + 1] - 1)
      /\ q[n + 1] \in 1..j /\ g \in Places(n, q[n + 1] - 1)
  BY PlacesLess
<1>3. n + 1 \in 1..n + 1 /\ \A k \in 1..n : k \in 1..n + 1 /\ f[k] = p[k] /\ g[k] = q[k]
  OBVIOUS
<1> HIDE DEF f, g
<1>4. x[p[n + 1]] = y[q[n + 1]] /\ \A k \in 1..n : x[f[k]] = y[g[k]]
  BY <1>1, <1>3
<1>5. Shared(n, x, p[n + 1] - 1, y, q[n + 1] - 1)
  BY <1>2, <1>4 DEF Shared
<1> QED
  BY <1>2, <1>4, <1>5

\* Without their last tokens two texts share at most one less.
LEMMA SharedLess ==
  ASSUME NEW n \in Nat, NEW x, NEW y, NEW i \in Nat, NEW j \in Nat,
         Shared(n + 1, x, i + 1, y, j + 1)
  PROVE  Shared(n, x, i, y, j)
<1>1. \E k \in 1..i + 1, l \in 1..j + 1 : x[k] = y[l] /\ Shared(n, x, k - 1, y, l - 1)
  <2> DEFINE a == i + 1
             b == j + 1
  <2>1. a \in Nat /\ b \in Nat /\ Shared(n + 1, x, a, y, b)
    OBVIOUS
  <2> HIDE DEF a, b
  <2>2. \E k \in 1..a, l \in 1..b : x[k] = y[l] /\ Shared(n, x, k - 1, y, l - 1)
    BY <2>1, SharedLast
  <2> QED
    BY <2>2 DEF a, b
<1>2. PICK k \in 1..i + 1, l \in 1..j + 1 : Shared(n, x, k - 1, y, l - 1)
  BY <1>1
<1>3. k - 1 \in Nat /\ l - 1 \in Nat /\ k - 1 <= i /\ l - 1 <= j
  OBVIOUS
<1> QED
  BY <1>2, <1>3, SharedWider

\* Two last tokens that differ are not both used.
LEMMA SharedSplit ==
  ASSUME NEW n \in Nat, NEW x, NEW y, NEW i \in Nat, NEW j \in Nat,
         x[i + 1] # y[j + 1], Shared(n, x, i + 1, y, j + 1)
  PROVE  Shared(n, x, i, y, j + 1) \/ Shared(n, x, i + 1, y, j)
<1>1. CASE n = 0
  BY <1>1, NothingShared
<1>2. CASE n # 0
  <2> DEFINE m == n - 1
  <2>1. m \in Nat /\ n = m + 1
    BY <1>2
  <2> HIDE DEF m
  <2>0. \E k \in 1..i + 1, l \in 1..j + 1 : x[k] = y[l] /\ Shared(m, x, k - 1, y, l - 1)
    <3> DEFINE a == i + 1
               b == j + 1
    <3>1. a \in Nat /\ b \in Nat /\ Shared(m + 1, x, a, y, b)
      BY <2>1
    <3> HIDE DEF a, b
    <3>2. \E k \in 1..a, l \in 1..b : x[k] = y[l] /\ Shared(m, x, k - 1, y, l - 1)
      BY <2>1, <3>1, SharedLast
    <3> QED
      BY <3>2 DEF a, b
  <2>2. PICK k \in 1..i + 1, l \in 1..j + 1 : x[k] = y[l] /\ Shared(m, x, k - 1, y, l - 1)
    BY <2>0
  <2>3. k - 1 \in Nat /\ l - 1 \in Nat /\ (k - 1) + 1 = k /\ (l - 1) + 1 = l
    OBVIOUS
  <2>4. Shared(n, x, k, y, l)
    <3> DEFINE a == k - 1
               b == l - 1
    <3>1. a \in Nat /\ b \in Nat /\ a + 1 = k /\ b + 1 = l /\ Shared(m, x, a, y, b)
      BY <2>2, <2>3
    <3> HIDE DEF a, b
    <3>2. x[a + 1] = y[b + 1]
      BY <2>2, <3>1
    <3>3. Shared(m + 1, x, a + 1, y, b + 1)
      BY <2>1, <3>1, <3>2, SharedMore
    <3> QED
      BY <2>1, <3>1, <3>3
  <2>5. k <= i \/ l <= j
    BY <2>2
  <2>6. k \in Nat /\ l \in Nat /\ k <= i + 1 /\ l <= j + 1
    OBVIOUS
  <2> QED
    BY <2>4, <2>5, <2>6, SharedWider
<1> QED
  BY <1>1, <1>2

\* l is the length of the longest list left of both.
Longest(l, x, i, y, j) ==
  l \in Nat /\ Shared(l, x, i, y, j) /\ \A n \in Nat : Shared(n, x, i, y, j) => n <= l

\* An entry of dp is right if its three neighbours are.
LEMMA LongestStep ==
  ASSUME NEW x, NEW y, NEW i \in Nat, NEW j \in Nat, NEW corner, NEW left, NEW above,
         Longest(corner, x, i, y, j), Longest(left, x, i + 1, y, j), Longest(above, x, i, y, j + 1)
  PROVE  Longest(IF x[i + 1] = y[j + 1] THEN corner + 1 ELSE SetExt!Max({left, above}),
                 x, i + 1, y, j + 1)
<1>1. /\ corner \in Nat /\ left \in Nat /\ above \in Nat
      /\ Shared(corner, x, i, y, j) /\ Shared(left, x, i + 1, y, j) /\ Shared(above, x, i, y, j + 1)
      /\ \A n \in Nat : /\ Shared(n, x, i, y, j) => n <= corner
                        /\ Shared(n, x, i + 1, y, j) => n <= left
                        /\ Shared(n, x, i, y, j + 1) => n <= above
  BY DEF Longest
<1>2. i + 1 \in Nat /\ j + 1 \in Nat /\ i <= i + 1 /\ j <= j + 1 /\ i + 1 <= i + 1 /\ j + 1 <= j + 1
  OBVIOUS
<1>3. CASE x[i + 1] = y[j + 1]
  <2>1. Shared(corner + 1, x, i + 1, y, j + 1)
    BY <1>1, <1>3, SharedMore
  <2>2. ASSUME NEW n \in Nat, Shared(n, x, i + 1, y, j + 1) PROVE n <= corner + 1
    <3>1. CASE n = 0
      BY <1>1, <3>1
    <3>2. CASE n # 0
      <4> DEFINE m == n - 1
      <4>1. m \in Nat /\ n = m + 1
        BY <3>2
      <4> HIDE DEF m
      <4>2. Shared(m, x, i, y, j)
        BY <2>2, <4>1, SharedLess
      <4>3. m <= corner
        BY <1>1, <4>1, <4>2
      <4> QED
        BY <1>1, <4>1, <4>3
    <3> QED
      BY <3>1, <3>2
  <2> QED
    BY <1>1, <1>3, <2>1, <2>2 DEF Longest
<1>4. CASE x[i + 1] # y[j + 1]
  <2> DEFINE m == SetExt!Max({left, above})
  <2>1. m \in {left, above} /\ left <= m /\ above <= m
    BY <1>1, MaxOf
  <2> HIDE DEF m
  <2>2. Shared(left, x, i + 1, y, j + 1) /\ Shared(above, x, i + 1, y, j + 1)
    BY <1>1, <1>2, SharedWider
  <2>3. ASSUME NEW n \in Nat, Shared(n, x, i + 1, y, j + 1) PROVE n <= m
    <3>1. Shared(n, x, i, y, j + 1) \/ Shared(n, x, i + 1, y, j)
      BY <1>4, <2>3, SharedSplit
    <3>2. n <= left \/ n <= above
      BY <1>1, <3>1
    <3>3. m \in Nat
      BY <1>1, <2>1
    <3> QED
      BY <1>1, <2>1, <3>2, <3>3
  <2>4. Longest(m, x, i + 1, y, j + 1)
    BY <1>1, <2>1, <2>2, <2>3 DEF Longest
  <2> QED
    BY <1>4, <2>4 DEF m
<1> QED
  BY <1>3, <1>4

\* The first row and the first column of dp are zero, and right.
LEMMA LongestNone ==
  ASSUME NEW x, NEW y, NEW i \in Nat, NEW j \in Nat, i = 0 \/ j = 0
  PROVE  Longest(0, x, i, y, j)
BY NothingShared DEF Longest

\* A row of dp is right.
RowOf(row, x, i, y) == \A j \in 0..Len(y) : Longest(row[j], x, i, y, j)

\* A row of dp is right if the row above it is.
LEMMA RowRight ==
  ASSUME NEW x, NEW y, Len(y) \in Nat, NEW i \in Nat, NEW above \in [0..Len(y) -> Nat]
  PROVE  /\ LcsRow(above, x[i + 1], y) \in [0..Len(y) -> Nat]
         /\ RowOf(above, x, i, y) => RowOf(LcsRow(above, x[i + 1], y), x, i + 1, y)
<1> DEFINE total == Len(y)
           token == x[i + 1]
           more(left, j) == IF token = y[j] THEN above[j - 1] + 1 ELSE SetExt!Max({left, above[j]})
           step == [p \in (1..total) \X Nat |-> more(p[2], p[1])]
<1>1. total \in Nat /\ above \in [0..total -> Nat]
  OBVIOUS
<1>2. 0 \in Nat /\ step \in Steps(total, Nat)
  <2> HIDE DEF total, token
  <2>1. ASSUME NEW l \in Nat, NEW j \in 1..total PROVE more(l, j) \in Nat
    <3>1. j \in 0..total /\ j - 1 \in 0..total
      BY <1>1
    <3>2. above[j] \in Nat /\ above[j - 1] \in Nat
      BY <1>1, <3>1
    <3>3. SetExt!Max({l, above[j]}) \in {l, above[j]}
      BY <3>2, MaxOf
    <3> QED
      BY <3>2, <3>3
  <2> HIDE DEF more
  <2>2. step \in [(1..total) \X Nat -> Nat]
    BY <2>1
  <2> QED
    BY <2>2 DEF Steps
<1>3. PICK f \in [0..total -> Nat] : Unrolls(f, total, 0, step)
  <2> HIDE DEF total, step
  <2> QED
    BY <1>1, <1>2, Unrolled
<1>4. f = [j \in 0..total |-> IF j = 0 THEN 0 ELSE more(f[j - 1], j)]
  <2> HIDE DEF total, more
  <2>1. \A j \in 1..total : step[<<j, f[j - 1]>>] = more(f[j - 1], j)
    BY <1>1
  <2> HIDE DEF step
  <2>2. ASSUME NEW j \in 0..total PROVE f[j] = IF j = 0 THEN 0 ELSE more(f[j - 1], j)
    <3>1. CASE j = 0
      BY <1>3, <3>1 DEF Unrolls
    <3>2. CASE j # 0
      <4>1. j \in 1..total
        BY <1>1, <3>2
      <4> QED
        BY <1>3, <2>1, <3>2, <4>1 DEF Unrolls
    <3> QED
      BY <3>1, <3>2
  <2> QED
    BY <1>3, <2>2
<1> DEFINE row[j \in 0..total] ==
      IF j = 0 THEN 0
      ELSE IF token = y[j] THEN above[j - 1] + 1 ELSE SetExt!Max({row[j - 1], above[j]})
<1>5. row = [j \in 0..total |-> IF j = 0 THEN 0 ELSE more(row[j - 1], j)]
  <2> HIDE DEF total, token
  <2> QED
    BY <1>4
<1>6. LcsRow(above, token, y) = row
  BY DEF LcsRow
<1> HIDE DEF row, total
<1> DEFINE Right(n) == /\ row[n] \in Nat
                       /\ RowOf(above, x, i, y) => Longest(row[n], x, i + 1, y, n)
           G == {n \in Nat : n <= total => Right(n)}
<1>7. 0 \in G
  <2>1. row[0] = 0
    BY <1>1, <1>5
  <2>2. Longest(0, x, i + 1, y, 0)
    BY LongestNone
  <2>3. Right(0)
    BY <2>1, <2>2
  <2> HIDE DEF Right
  <2> QED
    BY <2>3
<1>8. ASSUME NEW n \in Nat, n \in G PROVE n + 1 \in G
  <2> SUFFICES ASSUME n + 1 <= total PROVE Right(n + 1)
    OBVIOUS
  <2>1. n + 1 \in 0..total /\ n \in 0..total /\ (n + 1) - 1 = n /\ n + 1 # 0 /\ n <= total
    BY <1>1
  <2>2. row[n + 1] = IF token = y[n + 1] THEN above[n] + 1 ELSE SetExt!Max({row[n], above[n + 1]})
    <3>1. row[n + 1] = more(row[n], n + 1)
      <4> HIDE DEF more
      <4> QED
        BY <1>5, <2>1
    <3> QED
      BY <2>1, <3>1
  <2>3. Right(n)
    BY <1>8, <2>1
  <2>4. above[n] \in Nat /\ above[n + 1] \in Nat
    BY <1>1, <2>1
  <2>5. row[n + 1] \in Nat
    <3>1. SetExt!Max({row[n], above[n + 1]}) \in {row[n], above[n + 1]}
      BY <2>3, <2>4, MaxOf
    <3> QED
      BY <2>2, <2>3, <2>4, <3>1
  <2>6. ASSUME RowOf(above, x, i, y) PROVE Longest(row[n + 1], x, i + 1, y, n + 1)
    <3>1. Longest(above[n], x, i, y, n) /\ Longest(above[n + 1], x, i, y, n + 1)
      BY <2>1, <2>6 DEF total, RowOf
    <3>2. Longest(row[n], x, i + 1, y, n)
      BY <2>3, <2>6
    <3>3. Longest(IF x[i + 1] = y[n + 1] THEN above[n] + 1 ELSE SetExt!Max({row[n], above[n + 1]}),
                  x, i + 1, y, n + 1)
      BY <3>1, <3>2, LongestStep
    <3> QED
      BY <2>2, <3>3
  <2> QED
    BY <2>5, <2>6
<1>9. \A n \in 0..total : Right(n)
  <2>1. Nat \subseteq G
    <3> HIDE DEF G
    <3> QED
      BY <1>7, <1>8, Induction
  <2>2. \A n \in 0..total : n \in G /\ n <= total
    BY <1>1, <2>1
  <2> HIDE DEF Right
  <2> QED
    BY <2>2
<1>10. row \in [0..total -> Nat]
  <2>1. \A n \in 0..total : row[n] \in Nat
    BY <1>9
  <2>2. DOMAIN row = 0..total /\ row = [n \in 0..total |-> row[n]]
    <3> HIDE DEF more
    <3> QED
      BY <1>5
  <2> QED
    BY <2>1, <2>2
<1>11. RowOf(above, x, i, y) => RowOf(row, x, i + 1, y)
  BY <1>9 DEF RowOf, total
<1> QED
  BY <1>6, <1>10, <1>11 DEF total

\* The last entry of the last row is the length of a longest shared list.
LEMMA LcsRight ==
  ASSUME NEW x, Len(x) \in Nat, NEW y, Len(y) \in Nat
  PROVE  Longest(LcsLength(x, y), x, Len(x), y, Len(y))
<1> DEFINE total == Len(x)
           V == [0..Len(y) -> Nat]
           none == [j \in 0..Len(y) |-> 0]
           more(above, i) == LcsRow(above, x[i], y)
           step == [p \in (1..total) \X V |-> more(p[2], p[1])]
<1>1. total \in Nat
  OBVIOUS
<1>2. none \in V /\ step \in Steps(total, V)
  <2>1. ASSUME NEW above \in V, NEW i \in 1..total PROVE more(above, i) \in V
    <3> DEFINE k == i - 1
    <3>1. k \in Nat /\ i = k + 1
      BY <1>1
    <3> HIDE DEF k
    <3>2. LcsRow(above, x[k + 1], y) \in V
      BY <3>1, RowRight
    <3> QED
      BY <3>1, <3>2
  <2>2. none \in V
    OBVIOUS
  <2> HIDE DEF total, more, V, none
  <2>3. step \in [(1..total) \X V -> V]
    BY <2>1
  <2> QED
    BY <2>2, <2>3 DEF Steps
<1>3. PICK f \in [0..total -> V] : Unrolls(f, total, none, step)
  <2> HIDE DEF total, V, none, step
  <2> QED
    BY <1>1, <1>2, Unrolled
<1>4. f = [i \in 0..total |-> IF i = 0 THEN none ELSE more(f[i - 1], i)]
  <2> HIDE DEF total, V, none, more
  <2>1. \A i \in 1..total : step[<<i, f[i - 1]>>] = more(f[i - 1], i)
    BY <1>1
  <2> HIDE DEF step
  <2>2. ASSUME NEW i \in 0..total PROVE f[i] = IF i = 0 THEN none ELSE more(f[i - 1], i)
    <3>1. CASE i = 0
      BY <1>3, <3>1 DEF Unrolls
    <3>2. CASE i # 0
      <4>1. i \in 1..total
        BY <1>1, <3>2
      <4> QED
        BY <1>3, <2>1, <3>2, <4>1 DEF Unrolls
    <3> QED
      BY <3>1, <3>2
  <2> QED
    BY <1>3, <2>2
<1> DEFINE dp[i \in 0..total] ==
      IF i = 0 THEN [j \in 0..Len(y) |-> 0] ELSE LcsRow(dp[i - 1], x[i], y)
<1>5. dp = [i \in 0..total |-> IF i = 0 THEN none ELSE more(dp[i - 1], i)]
  <2> HIDE DEF total
  <2> QED
    BY <1>4
<1>6. LcsLength(x, y) = dp[total][Len(y)]
  BY DEF LcsLength
<1> HIDE DEF dp, total
<1> DEFINE Right(n) == dp[n] \in V /\ RowOf(dp[n], x, n, y)
           G == {n \in Nat : n <= total => Right(n)}
<1>7. 0 \in G
  <2>1. dp[0] = none
    <3> HIDE DEF none, more
    <3> QED
      BY <1>1, <1>5
  <2>2. RowOf(none, x, 0, y)
    <3>1. \A j \in 0..Len(y) : Longest(0, x, 0, y, j)
      BY LongestNone
    <3> QED
      BY <3>1 DEF RowOf
  <2> HIDE DEF none, V
  <2>3. Right(0)
    BY <1>2, <2>1, <2>2
  <2> HIDE DEF Right
  <2> QED
    BY <2>3
<1>8. ASSUME NEW n \in Nat, n \in G PROVE n + 1 \in G
  <2> SUFFICES ASSUME n + 1 <= total PROVE Right(n + 1)
    OBVIOUS
  <2>1. n + 1 \in 0..total /\ (n + 1) - 1 = n /\ n + 1 # 0 /\ n <= total
    BY <1>1
  <2>2. dp[n + 1] = LcsRow(dp[n], x[n + 1], y)
    <3> HIDE DEF none
    <3>1. dp[n + 1] = more(dp[n], n + 1)
      <4> HIDE DEF more
      <4> QED
        BY <1>5, <2>1
    <3> QED
      BY <3>1
  <2>3. Right(n)
    BY <1>8, <2>1
  <2> QED
    BY <2>2, <2>3, RowRight
<1>9. Right(total)
  <2>1. Nat \subseteq G
    <3> HIDE DEF G
    <3> QED
      BY <1>7, <1>8, Induction
  <2>2. total \in G /\ total <= total
    BY <1>1, <2>1
  <2> HIDE DEF Right
  <2> QED
    BY <2>2
<1>10. Longest(dp[total][Len(y)], x, total, y, Len(y))
  <2>1. Len(y) \in 0..Len(y)
    OBVIOUS
  <2> QED
    BY <1>9, <2>1 DEF RowOf
<1> QED
  BY <1>6, <1>10 DEF total

\* lcs_length is the length of a longest common subsequence.
LEMMA LcsIsLongest ==
  ASSUME NEW x, Len(x) \in Nat, NEW y, Len(y) \in Nat
  PROVE  LcsLength(x, y) = LongestCommon(x, y)
<1> DEFINE l == LcsLength(x, y)
           all == {n \in 0..Len(x) : LeftOfBoth(n, x, y)}
<1>1. Longest(l, x, Len(x), y, Len(y))
  BY LcsRight
<1> HIDE DEF l
<1>2. \A n \in Nat : LeftOfBoth(n, x, y) <=> Shared(n, x, Len(x), y, Len(y))
  BY DEF LeftOfBoth, Shared
<1>3. l \in Nat /\ LeftOfBoth(l, x, y) /\ \A n \in Nat : LeftOfBoth(n, x, y) => n <= l
  BY <1>1, <1>2 DEF Longest
<1>4. l <= Len(x)
  <2>1. PICK p \in Places(l, Len(x)) : TRUE
    BY <1>3 DEF LeftOfBoth
  <2> DEFINE m == Len(x)
  <2>2. p \in Injection(1..l, 1..m)
    <3>1. p \in [1..l -> 1..m] /\ \A a, b \in 1..l : a < b => p[a] < p[b]
      BY DEF Places
    <3> HIDE DEF m
    <3>2. \A a, b \in 1..l : p[a] = p[b] => a = b
      <4> TAKE a, b \in 1..l
      <4>1. a \in Nat /\ b \in Nat /\ p[a] \in Nat /\ p[b] \in Nat
        BY <1>3, <3>1
      <4>2. a < b \/ b < a \/ a = b
        BY <4>1
      <4> QED
        BY <3>1, <4>1, <4>2
    <3> QED
      BY <3>1, <3>2 DEF Injection, IsInjective
  <2>3. m \in Nat
    OBVIOUS
  <2> HIDE DEF m
  <2>4. Cardinality(1..l) <= Cardinality(1..m) /\ Cardinality(1..l) = l /\ Cardinality(1..m) = m
    <3>1. IsFiniteSet(1..m)
      BY <2>3, FS_Interval
    <3>2. Cardinality(1..l) <= Cardinality(1..m)
      BY <2>2, <3>1, FS_Injection
    <3>3. Cardinality(1..l) = l
      BY <1>3, FS_Interval
    <3>4. Cardinality(1..m) = m
      BY <2>3, FS_Interval
    <3> QED
      BY <3>2, <3>3, <3>4
  <2> QED
    BY <2>4 DEF m
<1>5. l \in all /\ \A n \in all : l >= n
  BY <1>3, <1>4
<1>6. \A n \in all : (\A k \in all : n >= k) => n = l
  BY <1>3, <1>5
<1> HIDE DEF all
<1>7. SetExt!Max(all) = l
  <2>1. SetExt!Max(all) = CHOOSE n \in all : \A k \in all : n >= k
    BY DEF SetExt!Max
  <2>2. \E n \in all : \A k \in all : n >= k
    BY <1>5
  <2> DEFINE m == CHOOSE n \in all : \A k \in all : n >= k
  <2>3. m \in all /\ \A k \in all : m >= k
    BY <2>2
  <2> HIDE DEF m
  <2> QED
    BY <1>6, <2>1, <2>3 DEF m
<1>8. LongestCommon(x, y) = SetExt!Max(all)
  BY DEF LongestCommon, all
<1> QED
  BY <1>7, <1>8 DEF l

\* A token is counted place by place.
LEMMA CountNext ==
  ASSUME NEW t, NEW s, NEW n \in Nat
  PROVE  /\ Count(t, s, 0) = 0 /\ Count(t, s, n) \in Nat
         /\ Count(t, s, n + 1) = IF s[n + 1] = t THEN Count(t, s, n) + 1 ELSE Count(t, s, n)
<1> DEFINE of(m) == {i \in 1..m : s[i] = t}
<1>1. of(0) = {}
  OBVIOUS
<1>2. IsFiniteSet(of(n))
  <2>1. IsFiniteSet(1..n) /\ of(n) \in SUBSET (1..n)
    BY FS_Interval
  <2> HIDE DEF of
  <2> QED
    BY <2>1, FS_Subset
<1>3. 1..n + 1 = 1..n \union {n + 1} /\ n + 1 \notin 1..n
  OBVIOUS
<1>4. of(n + 1) = IF s[n + 1] = t THEN of(n) \union {n + 1} ELSE of(n)
  BY <1>3
<1>5. n + 1 \notin of(n)
  BY <1>3
<1> HIDE DEF of
<1>6. Cardinality(of(n) \union {n + 1}) = Cardinality(of(n)) + 1
  BY <1>2, <1>5, FS_AddElement
<1>7. Cardinality({}) = 0 /\ Cardinality(of(n)) \in Nat
  BY <1>2, FS_EmptySet, FS_CardinalityType
<1>8. /\ Count(t, s, 0) = Cardinality(of(0)) /\ Count(t, s, n) = Cardinality(of(n))
      /\ Count(t, s, n + 1) = Cardinality(of(n + 1))
  BY DEF Count, of
<1> QED
  BY <1>1, <1>4, <1>6, <1>7, <1>8

\* The count of a token grows with the text.
LEMMA CountMonotone ==
  ASSUME NEW t, NEW s, NEW n \in Nat, NEW m \in Nat, m <= n
  PROVE  Count(t, s, m) <= Count(t, s, n) /\ Count(t, s, m) \in Nat /\ Count(t, s, n) \in Nat
<1> DEFINE a == {i \in 1..m : s[i] = t}
           b == {i \in 1..n : s[i] = t}
<1>1. a \in SUBSET b /\ b \in SUBSET (1..n) /\ IsFiniteSet(1..n)
  BY FS_Interval
<1> HIDE DEF a, b
<1>2. IsFiniteSet(b)
  BY <1>1, FS_Subset
<1>3. Cardinality(a) <= Cardinality(b)
  BY <1>1, <1>2, FS_Subset
<1>4. Count(t, s, m) = Cardinality(a) /\ Count(t, s, n) = Cardinality(b)
  BY DEF Count, a, b
<1> QED
  BY <1>3, <1>4, CountNext

\* The occurrences among the first i of x that are common with the first j of y.
CommonTo(x, i, y, j) == {k \in 1..i : Count(x[k], x, k) <= Count(x[k], y, j)}

\* Common occurrences are finitely many.
LEMMA CommonIs ==
  ASSUME NEW x, NEW y, NEW i \in Nat, NEW j \in Nat
  PROVE  IsFiniteSet(CommonTo(x, i, y, j)) /\ Cardinality(CommonTo(x, i, y, j)) \in Nat
<1>1. IsFiniteSet(1..i) /\ CommonTo(x, i, y, j) \in SUBSET (1..i)
  BY FS_Interval DEF CommonTo
<1> QED
  BY <1>1, FS_Subset, FS_CardinalityType

\* Longer texts have more in common.
LEMMA CommonWider ==
  ASSUME NEW x, NEW y, NEW i \in Nat, NEW j \in Nat, NEW k \in Nat, NEW l \in Nat, i <= k, j <= l
  PROVE  /\ CommonTo(x, i, y, j) \subseteq CommonTo(x, k, y, l)
         /\ Cardinality(CommonTo(x, i, y, j)) <= Cardinality(CommonTo(x, k, y, l))
<1>1. ASSUME NEW a \in CommonTo(x, i, y, j) PROVE a \in CommonTo(x, k, y, l)
  <2>1. a \in 1..i /\ Count(x[a], x, a) <= Count(x[a], y, j)
    BY DEF CommonTo
  <2>2. a \in 1..k /\ a \in Nat
    BY <2>1
  <2>3. /\ Count(x[a], y, j) <= Count(x[a], y, l)
        /\ Count(x[a], y, j) \in Nat /\ Count(x[a], y, l) \in Nat /\ Count(x[a], x, a) \in Nat
    BY <2>2, CountMonotone
  <2>4. Count(x[a], x, a) <= Count(x[a], y, l)
    BY <2>1, <2>3
  <2> QED
    BY <2>2, <2>4 DEF CommonTo
<1>2. CommonTo(x, i, y, j) \in SUBSET CommonTo(x, k, y, l)
  BY <1>1
<1> QED
  BY <1>2, CommonIs, FS_Subset

\* Two tokens that are the same make one more common occurrence, though it may be of an
\* earlier place in x.
LEMMA CommonGrows ==
  ASSUME NEW x, NEW y, NEW i \in Nat, NEW j \in Nat, x[i + 1] = y[j + 1]
  PROVE  Cardinality(CommonTo(x, i, y, j)) + 1 <= Cardinality(CommonTo(x, i + 1, y, j + 1))
<1> DEFINE t == x[i + 1]
           c == Count(t, y, j)
           S == {k \in 1..i + 1 : Count(t, x, k) >= c + 1}
           less == CommonTo(x, i, y, j)
           more == CommonTo(x, i + 1, y, j + 1)
<1>1. c \in Nat /\ Count(t, y, j + 1) = c + 1
  BY CountNext
<1>2. ASSUME NEW k \in 1..i + 1, x[k] = t, Count(t, x, k) <= c + 1, k = i + 1 \/ Count(t, x, k) = c + 1
      PROVE  k \in more /\ k \notin less
  <2>1. k \in more
    BY <1>1, <1>2 DEF CommonTo
  <2>2. k \notin less
    <3>1. k = i + 1 => k \notin 1..i
      OBVIOUS
    <3>2. Count(t, x, k) = c + 1 => ~(Count(t, x, k) <= c)
      BY <1>1
    <3> HIDE DEF c, t
    <3> QED
      BY <1>2, <3>1, <3>2 DEF CommonTo, c
  <2> QED
    BY <2>1, <2>2
<1>3. \E k \in 1..i + 1 : k \in more /\ k \notin less
  <2>1. i + 1 \in 1..i + 1 /\ Count(t, x, i + 1) \in Nat
    BY CountNext
  <2>2. CASE Count(t, x, i + 1) <= c + 1
    BY <1>2, <2>1, <2>2
  <2>3. CASE ~(Count(t, x, i + 1) <= c + 1)
    <3>1. S \in SUBSET Nat /\ i + 1 \in S
      BY <1>1, <2>1, <2>3
    <3> HIDE DEF S, more, less
    <3>2. PICK k \in S : \A a \in S : k <= a
      BY <3>1, LeastNumber
    <3> DEFINE b == k - 1
    <3>3. k \in 1..i + 1 /\ Count(t, x, k) >= c + 1 /\ b \in Nat /\ k = b + 1
      BY <3>2 DEF S
    <3> HIDE DEF b, t, c
    <3>4. Count(t, x, b) <= c /\ Count(t, x, b) \in Nat
      <4>1. Count(t, x, b) \in Nat
        BY <3>3, CountNext
      <4>2. b \notin S
        <5>1. ~(k <= b)
          BY <3>3
        <5> QED
          BY <3>2, <5>1
      <4>3. CASE b = 0
        <5>1. Count(t, x, 0) = 0
          BY CountNext
        <5> QED
          BY <1>1, <4>1, <4>3, <5>1
      <4>4. CASE b # 0
        <5>1. b \in 1..i + 1
          BY <3>3, <4>4
        <5>2. ~(Count(t, x, b) >= c + 1)
          BY <4>2, <5>1 DEF S
        <5> QED
          BY <1>1, <4>1, <5>2
      <4> QED
        BY <4>3, <4>4
    <3>5. Count(t, x, k) = IF x[k] = t THEN Count(t, x, b) + 1 ELSE Count(t, x, b)
      BY <3>3, CountNext
    <3>6. x[k] = t /\ Count(t, x, k) = c + 1
      BY <1>1, <3>3, <3>4, <3>5
    <3>7. k \in more /\ k \notin less
      BY <1>1, <1>2, <3>3, <3>6
    <3> QED
      BY <3>3, <3>7
  <2> QED
    BY <2>2, <2>3
<1>4. PICK k \in 1..i + 1 : k \in more /\ k \notin less
  BY <1>3
<1>5. less \subseteq more /\ IsFiniteSet(less) /\ IsFiniteSet(more)
      /\ Cardinality(less) \in Nat /\ Cardinality(more) \in Nat
  <2> DEFINE a == i + 1
             b == j + 1
  <2>1. a \in Nat /\ b \in Nat /\ i <= a /\ j <= b
    OBVIOUS
  <2>2. IsFiniteSet(less) /\ Cardinality(less) \in Nat
    BY CommonIs
  <2> HIDE DEF a, b
  <2>3. IsFiniteSet(CommonTo(x, a, y, b)) /\ Cardinality(CommonTo(x, a, y, b)) \in Nat
    BY <2>1, CommonIs
  <2>4. CommonTo(x, i, y, j) \subseteq CommonTo(x, a, y, b)
    BY <2>1, CommonWider
  <2> QED
    BY <2>2, <2>3, <2>4 DEF a, b
<1> HIDE DEF less, more
<1>6. Cardinality(less \union {k}) = Cardinality(less) + 1
  BY <1>4, <1>5, FS_AddElement
<1>7. less \union {k} \in SUBSET more
  BY <1>4, <1>5
<1>8. Cardinality(less \union {k}) <= Cardinality(more)
  BY <1>5, <1>7, FS_Subset
<1> QED
  BY <1>6, <1>8 DEF less, more

\* What is left of both, in order, is common without regard to order.
LEMMA SharedIsCommon ==
  ASSUME NEW x, NEW y, NEW i \in Nat, NEW j \in Nat, NEW n \in Nat, Shared(n, x, i, y, j)
  PROVE  n <= Cardinality(CommonTo(x, i, y, j))
<1> DEFINE Bounded(m) == \A a, b \in Nat : Shared(m, x, a, y, b) => m <= Cardinality(CommonTo(x, a, y, b))
           G == {m \in Nat : Bounded(m)}
<1>1. 0 \in G
  BY CommonIs
<1>2. ASSUME NEW m \in Nat, m \in G PROVE m + 1 \in G
  <2> SUFFICES ASSUME NEW a \in Nat, NEW b \in Nat, Shared(m + 1, x, a, y, b)
               PROVE  m + 1 <= Cardinality(CommonTo(x, a, y, b))
    OBVIOUS
  <2>1. PICK k \in 1..a, l \in 1..b : x[k] = y[l] /\ Shared(m, x, k - 1, y, l - 1)
    BY SharedLast
  <2> DEFINE p == k - 1
             q == l - 1
  <2>2. p \in Nat /\ q \in Nat /\ k = p + 1 /\ l = q + 1 /\ k \in Nat /\ l \in Nat /\ k <= a /\ l <= b
    OBVIOUS
  <2>3. Shared(m, x, p, y, q)
    BY <2>1
  <2> HIDE DEF p, q
  <2>4. m <= Cardinality(CommonTo(x, p, y, q))
    BY <1>2, <2>2, <2>3
  <2>5. x[p + 1] = y[q + 1]
    BY <2>1, <2>2
  <2>6. Cardinality(CommonTo(x, p, y, q)) + 1 <= Cardinality(CommonTo(x, p + 1, y, q + 1))
    BY <2>2, <2>5, CommonGrows
  <2>7. Cardinality(CommonTo(x, k, y, l)) <= Cardinality(CommonTo(x, a, y, b))
    BY <2>2, CommonWider
  <2>8. /\ Cardinality(CommonTo(x, p, y, q)) \in Nat /\ Cardinality(CommonTo(x, k, y, l)) \in Nat
        /\ Cardinality(CommonTo(x, a, y, b)) \in Nat
    BY <2>2, CommonIs
  <2> QED
    BY <2>2, <2>4, <2>6, <2>7, <2>8
<1>3. Nat \subseteq G
  <2> HIDE DEF G
  <2> QED
    BY <1>1, <1>2, Induction
<1>4. Bounded(n)
  <2>1. n \in G
    BY <1>3
  <2> HIDE DEF Bounded
  <2> QED
    BY <2>1
<1> QED
  BY <1>4

\* So that ROUGE-L never exceeds token F1.
LEMMA LcsIsCommon ==
  ASSUME NEW x, Len(x) \in Nat, NEW y, Len(y) \in Nat
  PROVE  LcsLength(x, y) <= Common(x, y)
<1> DEFINE l == LcsLength(x, y)
<1>1. Longest(l, x, Len(x), y, Len(y))
  BY LcsRight
<1>2. Common(x, y) = Cardinality(CommonTo(x, Len(x), y, Len(y)))
  BY DEF Common, CommonTo
<1> HIDE DEF l
<1>3. l \in Nat /\ Shared(l, x, Len(x), y, Len(y))
  BY <1>1 DEF Longest
<1>4. l <= Cardinality(CommonTo(x, Len(x), y, Len(y)))
  BY <1>3, SharedIsCommon
<1> QED
  BY <1>2, <1>4 DEF l

\* What the loader accepts as gold: placed items, each of a known level.
LEMMA GoldIs ==
  ASSUME NEW gs \in Golds
  PROVE  /\ gs \in Seq({gs[i] : i \in DOMAIN gs})
         /\ Len(gs) \in Nat /\ DOMAIN gs = 1..Len(gs)
         /\ \A i \in DOMAIN gs : /\ ~Unplaced(gs[i])
                                 /\ gs[i].level \in {"document", "article", "clause"}
<1>1. gs \in Seq({gs[i] : i \in DOMAIN gs})
  BY MetricsAssumption
<1>2. Len(gs) \in Nat /\ DOMAIN gs = 1..Len(gs)
  BY <1>1, LenProperties
<1> QED
  BY <1>1, <1>2, MetricsAssumption DEF Unplaced

\* What is found by clause is found by article, and by document.
LEMMA LevelsNested ==
  ASSUME NEW g, ~Unplaced(g), NEW c
  PROVE  (ClauseMatch(g, c) => ArticleMatch(g, c)) /\ (ArticleMatch(g, c) => DocumentMatch(g, c))
BY DEF ClauseMatch, ArticleMatch

\* A required match is a match of the level of the item, and an exact match is a required one.
LEMMA RequiredNested ==
  ASSUME NEW g, ~Unplaced(g), g.level \in {"document", "article", "clause"}, NEW c
  PROVE  /\ RequiredMatch(g, c) => DocumentMatch(g, c)
         /\ RequiredMatch(g, c) /\ g.level \in {"article", "clause"} => ArticleMatch(g, c)
         /\ RequiredMatch(g, c) /\ g.level = "clause" => ClauseMatch(g, c)
         /\ ExactMatch(g, c) => RequiredMatch(g, c)
<1>1. CASE g.level = "document"
  BY <1>1 DEF RequiredMatch, LevelMatch, ExactMatch, DocumentMatch
<1>2. CASE g.level = "article"
  BY <1>2, LevelsNested DEF RequiredMatch, LevelMatch, ExactMatch, ArticleMatch, DocumentMatch
<1>3. CASE g.level = "clause"
  BY <1>3, LevelsNested DEF RequiredMatch, LevelMatch, ExactMatch, ClauseMatch, ArticleMatch, DocumentMatch
<1> QED
  BY <1>1, <1>2, <1>3

\* The first k candidates, or all of them.
LEMMA AtMostIs ==
  ASSUME NEW T, NEW cs \in Seq(T), NEW k \in Nat
  PROVE  LET m == IF k <= Len(cs) THEN k ELSE Len(cs)
         IN  DOMAIN AtMost(cs, k) = 1..m /\ \A j \in 1..m : AtMost(cs, k)[j] = cs[j]
<1> DEFINE m == IF k <= Len(cs) THEN k ELSE Len(cs)
<1>1. Len(cs) \in Nat /\ m \in Nat /\ m <= Len(cs)
  BY LenProperties
<1>2. SetExt!Min({k, Len(cs)}) = m
  <2> DEFINE least == SetExt!Min({k, Len(cs)})
  <2>1. least \in {k, Len(cs)} /\ least <= k /\ least <= Len(cs)
    BY <1>1, MinOf
  <2> HIDE DEF least
  <2>2. least = m
    BY <1>1, <2>1
  <2> QED
    BY <2>2 DEF least
<1> HIDE DEF m
<1>3. \A j \in 1..m : j \in 1..Len(cs)
  BY <1>1
<1>4. \A j \in 1..m : cs[j] \in T
  BY <1>3, ElementOfSeq
<1>5. SubSeq(cs, 1, m) \in Seq(T) /\ Len(SubSeq(cs, 1, m)) = m
      /\ \A j \in 1..m : SubSeq(cs, 1, m)[j] = cs[j]
  <2>1. /\ SubSeq(cs, 1, m) \in Seq(T)
        /\ Len(SubSeq(cs, 1, m)) = IF 1 <= m THEN m - 1 + 1 ELSE 0
        /\ \A j \in 1..m - 1 + 1 : SubSeq(cs, 1, m)[j] = cs[1 + j - 1]
    BY <1>1, <1>4, SubSeqProperties
  <2>2. m - 1 + 1 = m /\ (~(1 <= m) => m = 0) /\ \A j \in 1..m : 1 + j - 1 = j
    BY <1>1
  <2> QED
    BY <2>1, <2>2
<1>6. DOMAIN SubSeq(cs, 1, m) = 1..m
  BY <1>5, LenProperties
<1> QED
  BY <1>2, <1>5, <1>6 DEF AtMost, m

\* The items which are found are finitely many, and all of them if none is left out.
LEMMA MatchedIs ==
  ASSUME NEW T, NEW gs \in Seq(T), NEW cs, NEW level
  PROVE  /\ Matched(gs, cs, level) \in SUBSET DOMAIN gs /\ IsFiniteSet(Matched(gs, cs, level))
         /\ Cardinality(Matched(gs, cs, level)) \in Nat
         /\ Cardinality(Matched(gs, cs, level)) = 0 <=> Matched(gs, cs, level) = {}
         /\ Matched(gs, cs, level) = DOMAIN gs => Cardinality(Matched(gs, cs, level)) = Len(gs)
<1> DEFINE m == Len(gs)
           found == Matched(gs, cs, level)
<1>1. m \in Nat /\ DOMAIN gs = 1..m
  BY LenProperties
<1>2. found \in SUBSET DOMAIN gs
  BY DEF Matched
<1> HIDE DEF m, found
<1>3. IsFiniteSet(1..m) /\ Cardinality(1..m) = m
  BY <1>1, FS_Interval
<1>4. IsFiniteSet(found)
  BY <1>1, <1>2, <1>3, FS_Subset
<1>5. Cardinality(found) \in Nat /\ (Cardinality(found) = 0 <=> found = {})
  BY <1>4, FS_CardinalityType, FS_EmptySet
<1> QED
  BY <1>1, <1>2, <1>3, <1>4, <1>5 DEF m, found

\* The first rank and the recalls agree about when something was found.
LEMMA FirstFound ==
  ASSUME NEW S, NEW gs \in Seq(S), gs # << >>, NEW T, NEW cs \in Seq(T),
         NEW k \in Nat, NEW capacity \in Nat, k <= capacity
  PROVE  (RecallAt(gs, cs, "document", k, capacity).n > 0)
           = (FirstRank(gs, cs, "document") \in 1..k)
<1> DEFINE found == Matched(gs, AtMost(cs, k), "document")
           hits == {j \in DOMAIN cs : \E i \in DOMAIN gs : LevelMatch("document", gs[i], cs[j])}
           first == FirstRank(gs, cs, "document")
           m == IF k <= Len(cs) THEN k ELSE Len(cs)
<1>1. RecallAt(gs, cs, "document", k, capacity).n = Cardinality(found)
  BY DEF RecallAt, Ratio
<1>2. first = IF hits = {} THEN 0 ELSE SetExt!Min(hits)
  BY DEF FirstRank
<1>3. Len(cs) \in Nat /\ DOMAIN cs = 1..Len(cs)
  BY LenProperties
<1>4. hits \in SUBSET (1..Len(cs))
  BY <1>3
<1>5. Cardinality(found) \in Nat /\ (Cardinality(found) = 0 <=> found = {})
  BY MatchedIs
<1>6. DOMAIN AtMost(cs, k) = 1..m /\ \A j \in 1..m : AtMost(cs, k)[j] = cs[j]
  BY AtMostIs
<1>7. (found # {}) <=> \E j \in 1..m : j \in hits
  <2>1. \A j \in 1..m : j \in DOMAIN cs
    BY <1>3
  <2> HIDE DEF m
  <2>2. found # {} <=> \E i \in DOMAIN gs, j \in 1..m : LevelMatch("document", gs[i], cs[j])
    BY <1>6 DEF Matched
  <2> QED
    BY <2>1, <2>2
<1>8. m \in Nat /\ \A j \in 1..Len(cs) : j \in 1..m <=> j \in 1..k
  BY <1>3
<1> HIDE DEF hits, found, first, m
<1>9. (\E j \in 1..m : j \in hits) <=> first \in 1..k
  <2>1. CASE hits = {}
    BY <1>2, <2>1
  <2>2. CASE hits # {}
    <3>1. hits \in SUBSET Nat
      BY <1>3, <1>4
    <3>2. first \in hits /\ \A j \in hits : first <= j
      BY <1>2, <2>2, <3>1, MinOf
    <3>3. first \in 1..Len(cs)
      BY <1>4, <3>2
    <3>4. ASSUME NEW j \in 1..m, j \in hits PROVE first \in 1..k
      <4>1. j \in 1..k /\ first <= j
        BY <1>4, <1>8, <3>2, <3>4
      <4> QED
        BY <3>3, <4>1
    <3>5. first \in 1..k => first \in 1..m
      BY <1>8, <3>3
    <3> QED
      BY <3>2, <3>4, <3>5
  <2> QED
    BY <2>1, <2>2
<1> QED
  BY <1>1, <1>5, <1>7, <1>9 DEF first, found

\* If every item is found the recall is full.
LEMMA FullRecall ==
  ASSUME NEW S, NEW items \in Seq(S), NEW T, NEW cs \in Seq(T), NEW level,
         NEW k \in Nat, Len(cs) <= k,
         \A i \in DOMAIN items : \E j \in DOMAIN cs : LevelMatch(level, items[i], cs[j])
  PROVE  RecallAt(items, cs, level, k, k).n = RecallAt(items, cs, level, k, k).d
<1>1. CASE items = << >>
  BY <1>1 DEF RecallAt, Inapplicable, Ratio
<1>2. CASE items # << >>
  <2>1. Len(cs) \in Nat /\ DOMAIN cs = 1..Len(cs)
    BY LenProperties
  <2>2. DOMAIN AtMost(cs, k) = DOMAIN cs /\ \A j \in DOMAIN cs : AtMost(cs, k)[j] = cs[j]
    <3> DEFINE n == Len(cs)
    <3>1. (IF k <= n THEN k ELSE n) = n
      <4>1. n \in Nat /\ n <= k
        BY <2>1
      <4> HIDE DEF n
      <4>2. CASE k <= n
        <5>1. k = n
          BY <4>1, <4>2
        <5> QED
          BY <4>2, <5>1
      <4>3. CASE ~(k <= n)
        BY <4>3
      <4> QED
        BY <4>2, <4>3
    <3> QED
      BY <2>1, <3>1, AtMostIs
  <2>3. Matched(items, AtMost(cs, k), level) = DOMAIN items
    BY <2>2 DEF Matched
  <2>4. Cardinality(Matched(items, AtMost(cs, k), level)) = Len(items)
    BY <2>3, MatchedIs
  <2> QED
    BY <1>2, <2>4 DEF RecallAt, Ratio
<1> QED
  BY <1>1, <1>2

\* All required items are there only if the recall of every level is full.
LEMMA AllFound ==
  ASSUME NEW gs \in Golds, NEW T, NEW cs \in Seq(T), NEW k \in Nat, Len(cs) <= k,
         AllRequired(gs, cs).n = 1
  PROVE  LET recalls == StageRecalls(gs, cs, k, k, FALSE)
         IN  \A level \in DOMAIN recalls : recalls[level].n = recalls[level].d
<1> DEFINE S == {gs[i] : i \in DOMAIN gs}
           recalls == StageRecalls(gs, cs, k, k, FALSE)
<1>1. /\ gs \in Seq(S)
      /\ \A i \in DOMAIN gs : ~Unplaced(gs[i]) /\ gs[i].level \in {"document", "article", "clause"}
  BY GoldIs
<1>2. \A i \in DOMAIN gs : \E j \in DOMAIN cs : RequiredMatch(gs[i], cs[j])
  BY DEF AllRequired, Ratio, Inapplicable
<1> HIDE DEF S
<1>3. RecallAt(gs, cs, "document", k, k).n = RecallAt(gs, cs, "document", k, k).d
  <2>1. ASSUME NEW i \in DOMAIN gs
        PROVE  \E j \in DOMAIN cs : LevelMatch("document", gs[i], cs[j])
    <3>1. PICK j \in DOMAIN cs : RequiredMatch(gs[i], cs[j])
      BY <1>2
    <3>2. DocumentMatch(gs[i], cs[j])
      BY <1>1, <3>1, RequiredNested
    <3> QED
      BY <3>2 DEF LevelMatch
  <2> QED
    BY <1>1, <2>1, FullRecall
<1>4. LET items == ArticleGold(gs)
      IN  RecallAt(items, cs, "article", k, k).n = RecallAt(items, cs, "article", k, k).d
  <2> DEFINE items == ArticleGold(gs)
  <2>1. /\ items \in Seq(S)
        /\ \A i \in DOMAIN items : /\ items[i].level \in {"article", "clause"}
                                   /\ \E l \in DOMAIN gs : items[i] = gs[l]
    BY <1>1, LevelsAre DEF ArticleGold
  <2> HIDE DEF items
  <2>2. ASSUME NEW i \in DOMAIN items
        PROVE  \E j \in DOMAIN cs : LevelMatch("article", items[i], cs[j])
    <3>1. PICK l \in DOMAIN gs : items[i] = gs[l]
      BY <2>1
    <3>2. PICK j \in DOMAIN cs : RequiredMatch(gs[l], cs[j])
      BY <1>2
    <3>3. gs[l].level \in {"article", "clause"}
      BY <2>1, <3>1
    <3>4. ArticleMatch(gs[l], cs[j])
      BY <1>1, <3>2, <3>3, RequiredNested
    <3> QED
      BY <3>1, <3>4 DEF LevelMatch
  <2>3. RecallAt(items, cs, "article", k, k).n = RecallAt(items, cs, "article", k, k).d
    BY <2>1, <2>2, FullRecall
  <2> QED
    BY <2>3 DEF items
<1>5. LET items == ClauseGold(gs)
      IN  RecallAt(items, cs, "clause", k, k).n = RecallAt(items, cs, "clause", k, k).d
  <2> DEFINE items == ClauseGold(gs)
  <2>1. /\ items \in Seq(S)
        /\ \A i \in DOMAIN items : /\ items[i].level \in {"clause"}
                                   /\ \E l \in DOMAIN gs : items[i] = gs[l]
    BY <1>1, LevelsAre DEF ClauseGold
  <2> HIDE DEF items
  <2>2. ASSUME NEW i \in DOMAIN items
        PROVE  \E j \in DOMAIN cs : LevelMatch("clause", items[i], cs[j])
    <3>1. PICK l \in DOMAIN gs : items[i] = gs[l]
      BY <2>1
    <3>2. PICK j \in DOMAIN cs : RequiredMatch(gs[l], cs[j])
      BY <1>2
    <3>3. gs[l].level = "clause"
      BY <2>1, <3>1
    <3>4. ClauseMatch(gs[l], cs[j])
      BY <1>1, <3>2, <3>3, RequiredNested
    <3> QED
      BY <3>1, <3>4 DEF LevelMatch
  <2>3. RecallAt(items, cs, "clause", k, k).n = RecallAt(items, cs, "clause", k, k).d
    BY <2>1, <2>2, FullRecall
  <2> QED
    BY <2>3 DEF items
<1>6. recalls = [document |-> RecallAt(gs, cs, "document", k, k),
                 article |-> RecallAt(ArticleGold(gs), cs, "article", k, k),
                 clause |-> RecallAt(ClauseGold(gs), cs, "clause", k, k)]
  BY DEF StageRecalls
<1> HIDE DEF recalls
<1>7. /\ DOMAIN recalls = {"document", "article", "clause"}
      /\ recalls["document"] = RecallAt(gs, cs, "document", k, k)
      /\ recalls["article"] = RecallAt(ArticleGold(gs), cs, "article", k, k)
      /\ recalls["clause"] = RecallAt(ClauseGold(gs), cs, "clause", k, k)
  BY <1>6
<1>8. \A level \in DOMAIN recalls : recalls[level].n = recalls[level].d
  BY <1>3, <1>4, <1>5, <1>7
<1> QED
  BY <1>8 DEF recalls

\* All required items are there exactly if no stage lost one.
LEMMA NoneLost ==
  ASSUME NEW gs \in Golds, NEW cs
  PROVE  (AllRequired(gs, cs).n = AllRequired(gs, cs).d)
           = \A i \in DOMAIN gs : FirstLoss(gs[i], <<cs, cs>>, {1}) = 0
<1> DEFINE all == \A i \in DOMAIN gs : \E j \in DOMAIN cs : RequiredMatch(gs[i], cs[j])
<1>1. (AllRequired(gs, cs).n = AllRequired(gs, cs).d) <=> all
  <2>1. CASE gs = << >>
    <3>1. AllRequired(gs, cs).n = AllRequired(gs, cs).d
      BY <2>1 DEF AllRequired, Inapplicable, Ratio
    <3>2. DOMAIN gs = {}
      BY <2>1
    <3> QED
      BY <3>1, <3>2
  <2>2. CASE gs # << >>
    <3>1. AllRequired(gs, cs) = Ratio(IF all THEN 1 ELSE 0, 1)
      BY <2>2 DEF AllRequired
    <3>2. AllRequired(gs, cs).n = (IF all THEN 1 ELSE 0) /\ AllRequired(gs, cs).d = 1
      BY <3>1 DEF Ratio
    <3> HIDE DEF all
    <3> QED
      BY <3>2
  <2> QED
    BY <2>1, <2>2
<1>2. ASSUME NEW i \in DOMAIN gs
      PROVE  FirstLoss(gs[i], <<cs, cs>>, {1}) = 0 <=> \E j \in DOMAIN cs : RequiredMatch(gs[i], cs[j])
  <2> DEFINE g == gs[i]
             stages == <<cs, cs>>
             Survives(s) == \E j \in DOMAIN stages[s] :
                              IF s \in {1} THEN DocumentMatch(g, stages[s][j])
                              ELSE RequiredMatch(g, stages[s][j])
             lost == {s \in DOMAIN stages : ~Survives(s)}
  <2>1. FirstLoss(g, stages, {1}) = IF lost = {} THEN 0 ELSE SetExt!Min(lost)
    BY DEF FirstLoss
  <2>2. DOMAIN stages = {1, 2} /\ stages[1] = cs /\ stages[2] = cs
    OBVIOUS
  <2>3. \A c : RequiredMatch(g, c) => DocumentMatch(g, c)
    BY GoldIs, RequiredNested
  <2>4. /\ Survives(1) <=> \E j \in DOMAIN cs : DocumentMatch(g, cs[j])
        /\ Survives(2) <=> \E j \in DOMAIN cs : RequiredMatch(g, cs[j])
    <3> HIDE DEF g
    <3> QED
      BY <2>2
  <2> HIDE DEF stages, Survives
  <2>5. lost = {} <=> \E j \in DOMAIN cs : RequiredMatch(g, cs[j])
    <3> HIDE DEF g
    <3> QED
      BY <2>2, <2>3, <2>4
  <2>6. lost # {} => SetExt!Min(lost) # 0
    <3>1. lost \in SUBSET Nat /\ 0 \notin lost
      BY <2>2
    <3> HIDE DEF lost
    <3> QED
      BY <3>1, MinOf
  <2> HIDE DEF lost
  <2> QED
    BY <2>1, <2>5, <2>6 DEF stages
<1> QED
  BY <1>1, <1>2

-----------------------------------------------------------------------------
\* What the commands measure: gold that was loaded, and lists within the bounds.
MeasuredInv ==
  /\ gold \in Golds
  /\ ranked \in Seq(Candidates) /\ Len(ranked) <= MaxRank
  /\ answer \in Seq(Tokens) /\ reference \in Seq(Tokens)

\* The measures are exact for what can be measured.
LEMMA MeasuredExact == MeasuredInv => MetricsExact
<1> SUFFICES ASSUME MeasuredInv PROVE MetricsExact
  OBVIOUS
<1> DEFINE S == {gold[i] : i \in DOMAIN gold}
<1>1. /\ gold \in Golds /\ ranked \in Seq(Candidates) /\ Len(ranked) <= MaxRank
      /\ Len(answer) \in Nat /\ Len(reference) \in Nat /\ MaxRank \in Nat
      /\ gold \in Seq(S)
  BY MetricsAssumption, GoldIs, LenProperties DEF MeasuredInv
<1> HIDE DEF S
<1>2. LET ranks == RelevantRanks(gold, ranked)
      IN  Len(ranks) <= Len(gold) /\ \A i \in DOMAIN ranks : i <= ranks[i]
  BY <1>1, RanksAre
<1>3. \A k \in 1..MaxRank : gold # << >> =>
        LET recall == RecallAt(gold, ranked, "document", k, MaxRank)
        IN  (recall.n > 0) = (FirstRank(gold, ranked, "document") \in 1..k)
  <2> SUFFICES ASSUME NEW k \in 1..MaxRank, gold # << >>
               PROVE  (RecallAt(gold, ranked, "document", k, MaxRank).n > 0)
                        = (FirstRank(gold, ranked, "document") \in 1..k)
    OBVIOUS
  <2>1. k \in Nat /\ k <= MaxRank
    BY <1>1
  <2> QED
    BY <1>1, <2>1, FirstFound
<1>4. AllRequired(gold, ranked).n = 1 =>
        LET recalls == StageRecalls(gold, ranked, MaxRank, MaxRank, FALSE)
        IN  \A level \in DOMAIN recalls : recalls[level].n = recalls[level].d
  BY <1>1, AllFound
<1>5. /\ Matched(gold, ranked, "clause") \subseteq Matched(gold, ranked, "article")
      /\ Matched(gold, ranked, "article") \subseteq Matched(gold, ranked, "document")
  BY <1>1, GoldIs, LevelsNested DEF Matched, LevelMatch
<1>6. (AllRequired(gold, ranked).n = AllRequired(gold, ranked).d) =
        \A i \in DOMAIN gold : FirstLoss(gold[i], <<ranked, ranked>>, {1}) = 0
  BY <1>1, NoneLost
<1>7. \A i \in DOMAIN gold, j \in DOMAIN ranked :
        ExactMatch(gold[i], ranked[j]) => RequiredMatch(gold[i], ranked[j])
  BY <1>1, GoldIs, RequiredNested
<1>8. LcsLength(answer, reference) = LongestCommon(answer, reference)
  BY <1>1, LcsIsLongest
<1>9. LcsLength(answer, reference) <= Common(answer, reference)
  BY <1>1, LcsIsCommon
<1> QED
  BY <1>2, <1>3, <1>4, <1>5, <1>6, <1>7, <1>8, <1>9 DEF MetricsExact

\* Another candidate, or another token, can be measured as well.
LEMMA MeasuredStep == MeasuredInv /\ [MetricsNext]_metricsVars => MeasuredInv'
<1> SUFFICES ASSUME MeasuredInv, [MetricsNext]_metricsVars PROVE MeasuredInv'
  OBVIOUS
<1>1. CASE Retrieve
  <2>1. PICK c \in Candidates : ranked' = Append(ranked, c)
    BY <1>1 DEF Retrieve
  <2>2. ranked' \in Seq(Candidates) /\ Len(ranked') = Len(ranked) + 1 /\ Len(ranked) \in Nat
    BY <2>1, AppendProperties, LenProperties DEF MeasuredInv
  <2>3. Len(ranked) < MaxRank /\ MaxRank \in Nat
    BY <1>1, MetricsAssumption DEF Retrieve
  <2>4. Len(ranked') <= MaxRank
    <3> DEFINE n == Len(ranked)
               n1 == Len(ranked')
    <3>1. n \in Nat /\ n1 = n + 1 /\ n < MaxRank
      BY <2>2, <2>3
    <3> HIDE DEF n, n1
    <3>2. n1 <= MaxRank
      BY <2>3, <3>1
    <3> QED
      BY <3>2 DEF n1
  <2>5. gold' = gold /\ answer' = answer /\ reference' = reference
    BY <1>1 DEF Retrieve
  <2> QED
    BY <2>2, <2>4, <2>5 DEF MeasuredInv
<1>2. CASE Write1
  BY <1>2, AppendProperties DEF Write1, MeasuredInv
<1>3. CASE Write2
  BY <1>3, AppendProperties DEF Write2, MeasuredInv
<1>4. CASE UNCHANGED metricsVars
  BY <1>4 DEF metricsVars, MeasuredInv
<1> QED
  BY <1>1, <1>2, <1>3, <1>4 DEF MetricsNext

(* The measures mean what their names say, for any gold evidence, any list  *)
(* of candidates and any two texts: no list earns a gain above the ideal    *)
(* one; the first rank and the recalls agree; the levels are nested; all    *)
(* required items are there exactly if no stage lost one, and then every    *)
(* recall is full; lcs_length is the length of a longest common             *)
(* subsequence, and never above the common tokens (retrieval_metrics.py,    *)
(* answer_metrics.py).                                                      *)
THEOREM ExactMeasures == MetricsSpec => []MetricsExact
<1>1. MetricsInit => MeasuredInv
  <2> SUFFICES ASSUME MetricsInit PROVE MeasuredInv
    OBVIOUS
  <2>1. << >> \in Seq(Candidates) /\ << >> \in Seq(Tokens) /\ Len(<< >>) = 0
    BY EmptySeq
  <2>2. MaxRank \in Nat
    BY MetricsAssumption
  <2>3. 0 <= MaxRank
    BY <2>2
  <2> QED
    BY <2>1, <2>2, <2>3 DEF MetricsInit, MeasuredInv
<1> QED
  BY <1>1, MeasuredExact, MeasuredStep, PTL DEF MetricsSpec

-----------------------------------------------------------------------------
(* What a gate means                                                       *)

\* A list, of whatever.
Listed(s) == s \in Seq({s[i] : i \in DOMAIN s})

\* The sum of the values of the members of a set, one member after the other.
Sums(g, v, S) ==
  \A s \in SUBSET S : g[s] = IF s = {} THEN 0
                             ELSE LET x == CHOOSE x \in s : TRUE IN v[x] + g[s \ {x}]

\* A finite set has such a sum.
LEMMA SumExists ==
  ASSUME NEW S, IsFiniteSet(S), NEW v \in [S -> Nat]
  PROVE  \E g \in [SUBSET S -> Nat] : Sums(g, v, S)
<1> DEFINE Upto(n) == {s \in SUBSET S : Cardinality(s) <= n}
           Made(n) == \E g \in [SUBSET S -> Nat] : \A s \in Upto(n) :
                        g[s] = IF s = {} THEN 0
                               ELSE LET x == CHOOSE x \in s : TRUE IN v[x] + g[s \ {x}]
           G == {n \in Nat : Made(n)}
<1>1. \A s \in SUBSET S : IsFiniteSet(s) /\ Cardinality(s) \in Nat /\ Cardinality(s) <= Cardinality(S)
  BY FS_Subset, FS_CardinalityType
<1>2. ASSUME NEW s \in SUBSET S, s # {}
      PROVE  LET x == CHOOSE x \in s : TRUE
             IN  /\ x \in s /\ s \ {x} \in SUBSET S
                 /\ Cardinality(s \ {x}) = Cardinality(s) - 1 /\ Cardinality(s) >= 1
  <2> DEFINE x == CHOOSE x \in s : TRUE
  <2>1. x \in s
    BY <1>2
  <2> HIDE DEF x
  <2>2. Cardinality(s \ {x}) = Cardinality(s) - 1
    BY <1>1, <2>1, FS_RemoveElement
  <2>3. Cardinality(s) \in Nat /\ Cardinality(s) # 0
    BY <1>1, <1>2, FS_EmptySet
  <2>4. Cardinality(s) >= 1
    BY <2>3
  <2> QED
    BY <2>1, <2>2, <2>4 DEF x
<1>3. 0 \in G
  <2> DEFINE g == [s \in SUBSET S |-> 0]
  <2>1. \A s \in Upto(0) : s = {}
    BY <1>1, FS_EmptySet
  <2>2. g \in [SUBSET S -> Nat] /\ \A s \in SUBSET S : g[s] = 0
    OBVIOUS
  <2>3. Made(0)
    <3> HIDE DEF g
    <3>1. \A s \in Upto(0) : s \in SUBSET S
      OBVIOUS
    <3> HIDE DEF Upto
    <3> QED
      BY <2>1, <2>2, <3>1
  <2> QED
    BY <2>3
<1>4. ASSUME NEW n \in Nat, n \in G PROVE n + 1 \in G
  <2>1. PICK h \in [SUBSET S -> Nat] : \A s \in Upto(n) :
               h[s] = IF s = {} THEN 0 ELSE LET x == CHOOSE x \in s : TRUE IN v[x] + h[s \ {x}]
    BY <1>4
  <2> DEFINE next(s) == LET x == CHOOSE x \in s : TRUE IN v[x] + h[s \ {x}]
             g == [s \in SUBSET S |-> IF s \in Upto(n) THEN h[s] ELSE next(s)]
  <2>2. ASSUME NEW s \in SUBSET S, s # {} PROVE next(s) \in Nat
    <3> DEFINE x == CHOOSE x \in s : TRUE
    <3>1. x \in S /\ s \ {x} \in SUBSET S
      BY <1>2, <2>2
    <3> HIDE DEF x
    <3>2. v[x] \in Nat /\ h[s \ {x}] \in Nat
      BY <2>1, <3>1
    <3> QED
      BY <3>2 DEF x
  <2>3. {} \in Upto(n) /\ {} \in SUBSET S
    BY FS_EmptySet
  <2>4. g \in [SUBSET S -> Nat]
    <3>1. \A s \in SUBSET S : (IF s \in Upto(n) THEN h[s] ELSE next(s)) \in Nat
      <4> HIDE DEF Upto, next
      <4> QED
        BY <2>1, <2>2, <2>3
    <3> HIDE DEF Upto, next
    <3> QED
      BY <3>1
  <2>5. \A s \in Upto(n) : s \in SUBSET S /\ g[s] = h[s]
    OBVIOUS
  <2>6. ASSUME NEW s \in Upto(n + 1)
        PROVE  g[s] = IF s = {} THEN 0 ELSE LET x == CHOOSE x \in s : TRUE IN v[x] + g[s \ {x}]
    <3> DEFINE x == CHOOSE x \in s : TRUE
    <3>1. s \in SUBSET S /\ Cardinality(s) <= n + 1
      OBVIOUS
    <3>2. CASE s = {}
      BY <2>1, <2>3, <2>5, <3>2
    <3>3. CASE s # {}
      <4>1. s \ {x} \in SUBSET S /\ Cardinality(s \ {x}) = Cardinality(s) - 1 /\ Cardinality(s) \in Nat
        BY <1>1, <1>2, <3>1, <3>3
      <4>2. s \ {x} \in Upto(n)
        <5>1. Cardinality(s \ {x}) <= n
          BY <3>1, <4>1
        <5> QED
          BY <4>1, <5>1
      <4>3. g[s] = v[x] + h[s \ {x}]
        <5>1. s \in Upto(n) => h[s] = v[x] + h[s \ {x}]
          BY <2>1, <3>3
        <5>2. g[s] = IF s \in Upto(n) THEN h[s] ELSE next(s)
          BY <3>1
        <5> HIDE DEF Upto, g
        <5> QED
          BY <5>1, <5>2
      <4>4. g[s \ {x}] = h[s \ {x}]
        BY <2>5, <4>2
      <4> HIDE DEF g
      <4> QED
        BY <3>3, <4>3, <4>4
    <3> QED
      BY <3>2, <3>3
  <2>7. Made(n + 1)
    <3> HIDE DEF g, Upto
    <3> QED
      BY <2>4, <2>6
  <2> HIDE DEF Made
  <2> QED
    BY <2>7
<1> HIDE DEF G
<1>5. Nat \subseteq G
  BY <1>3, <1>4, Induction
<1>6. Cardinality(S) \in G
  BY <1>1, <1>5
<1>7. \A s \in SUBSET S : s \in Upto(Cardinality(S))
  BY <1>1
<1>8. Made(Cardinality(S))
  BY <1>6 DEF G
<1> HIDE DEF Upto
<1> QED
  BY <1>7, <1>8 DEF Sums

\* Of two sums, one of which is nowhere above the other, the first is not above the
\* other, and equal only if they are equal everywhere.
LEMMA SumsAgree ==
  ASSUME NEW S, IsFiniteSet(S), NEW v \in [S -> Nat], NEW w \in [S -> Nat], \A c \in S : v[c] <= w[c],
         NEW g \in [SUBSET S -> Nat], Sums(g, v, S), NEW h \in [SUBSET S -> Nat], Sums(h, w, S)
  PROVE  g[S] <= h[S] /\ (g[S] = h[S] => \A c \in S : v[c] = w[c])
<1> DEFINE Agrees(s) == g[s] <= h[s] /\ (g[s] = h[s] => \A c \in s : v[c] = w[c])
           G == {n \in Nat : \A s \in SUBSET S : Cardinality(s) = n => Agrees(s)}
<1>1. \A s \in SUBSET S : IsFiniteSet(s) /\ Cardinality(s) \in Nat
  BY FS_Subset, FS_CardinalityType
<1>2. 0 \in G
  <2>1. ASSUME NEW s \in SUBSET S, Cardinality(s) = 0 PROVE Agrees(s)
    <3>1. s = {}
      BY <1>1, <2>1, FS_EmptySet
    <3>2. g[s] = 0 /\ h[s] = 0
      BY <3>1 DEF Sums
    <3> QED
      BY <3>1, <3>2
  <2> HIDE DEF Agrees
  <2> QED
    BY <2>1
<1>3. ASSUME NEW n \in Nat, n \in G PROVE n + 1 \in G
  <2>1. ASSUME NEW s \in SUBSET S, Cardinality(s) = n + 1 PROVE Agrees(s)
    <3>1. s # {}
      <4>1. n + 1 # 0
        OBVIOUS
      <4> QED
        BY <2>1, <4>1, FS_EmptySet
    <3> DEFINE x == CHOOSE x \in s : TRUE
               r == s \ {x}
    <3>2. x \in s
      BY <3>1
    <3>3. g[s] = v[x] + g[r] /\ h[s] = w[x] + h[r]
      BY <3>1 DEF Sums
    <3> HIDE DEF x
    <3>4. r \in SUBSET S /\ Cardinality(r) = n
      <4>1. Cardinality(r) = Cardinality(s) - 1
        BY <1>1, <3>2, FS_RemoveElement
      <4> QED
        BY <2>1, <4>1
    <3>5. Agrees(r)
      <4> HIDE DEF Agrees, r
      <4> QED
        BY <1>3, <3>4
    <3>6. \A c \in s : c = x \/ c \in r
      OBVIOUS
    <3>7. v[x] \in Nat /\ w[x] \in Nat /\ v[x] <= w[x]
      BY <3>2
    <3>8. g[r] \in Nat /\ h[r] \in Nat
      BY <3>4
    <3>9. g[r] <= h[r] /\ (g[r] = h[r] => \A c \in r : v[c] = w[c])
      BY <3>5
    <3> HIDE DEF r
    <3>10. g[s] <= h[s] /\ (g[s] = h[s] => v[x] = w[x] /\ g[r] = h[r])
      <4> DEFINE a == v[x]
                 b == w[x]
                 p == g[r]
                 q == h[r]
      <4>1. a \in Nat /\ b \in Nat /\ p \in Nat /\ q \in Nat /\ a <= b /\ p <= q
            /\ g[s] = a + p /\ h[s] = b + q
        BY <3>3, <3>7, <3>8, <3>9
      <4> HIDE DEF a, b, p, q
      <4>2. a + p <= b + q /\ (a + p = b + q => a = b /\ p = q)
        BY <4>1
      <4> QED
        BY <4>1, <4>2 DEF a, b, p, q
    <3> QED
      BY <3>6, <3>9, <3>10
  <2> HIDE DEF Agrees
  <2> QED
    BY <2>1
<1> HIDE DEF G
<1>4. Nat \subseteq G
  BY <1>2, <1>3, Induction
<1>5. Cardinality(S) \in G
  BY <1>1, <1>4
<1>6. Agrees(S)
  <2> HIDE DEF Agrees
  <2> QED
    BY <1>5 DEF G
<1> QED
  BY <1>6

\* What adds up to a sum is a number, whatever was chosen first.
LEMMA SumsTyped ==
  ASSUME NEW S, IsFiniteSet(S), NEW v \in [S -> Nat], NEW g, Sums(g, v, S)
  PROVE  \A s \in SUBSET S : g[s] \in Nat
<1> DEFINE G == {n \in Nat : \A s \in SUBSET S : Cardinality(s) = n => g[s] \in Nat}
<1>1. \A s \in SUBSET S : IsFiniteSet(s) /\ Cardinality(s) \in Nat
  BY FS_Subset, FS_CardinalityType
<1>2. 0 \in G
  <2>1. ASSUME NEW s \in SUBSET S, Cardinality(s) = 0 PROVE g[s] \in Nat
    <3>1. s = {}
      BY <1>1, <2>1, FS_EmptySet
    <3> QED
      BY <3>1 DEF Sums
  <2> QED
    BY <2>1
<1>3. ASSUME NEW n \in Nat, n \in G PROVE n + 1 \in G
  <2>1. ASSUME NEW s \in SUBSET S, Cardinality(s) = n + 1 PROVE g[s] \in Nat
    <3>1. s # {}
      <4>1. n + 1 # 0
        OBVIOUS
      <4> QED
        BY <2>1, <4>1, FS_EmptySet
    <3> DEFINE x == CHOOSE x \in s : TRUE
               r == s \ {x}
    <3>2. x \in s
      BY <3>1
    <3>3. g[s] = v[x] + g[r]
      BY <3>1 DEF Sums
    <3> HIDE DEF x
    <3>4. r \in SUBSET S /\ Cardinality(r) = n
      <4>1. Cardinality(r) = Cardinality(s) - 1
        BY <1>1, <3>2, FS_RemoveElement
      <4> QED
        BY <2>1, <4>1
    <3>5. g[r] \in Nat
      BY <1>3, <3>4
    <3>6. v[x] \in Nat
      BY <3>2
    <3> QED
      BY <3>3, <3>5, <3>6
  <2> QED
    BY <2>1
<1> HIDE DEF G
<1>4. Nat \subseteq G
  BY <1>2, <1>3, Induction
<1> QED
  BY <1>1, <1>4 DEF G

\* A ratio over all the cases is within 1, and 1 only if each of them is.
LEMMA MicroIs ==
  ASSUME NEW ratios, IsFiniteSet(DOMAIN ratios),
         \A c \in DOMAIN ratios : {ratios[c].n, ratios[c].d} \subseteq Nat /\ ratios[c].n <= ratios[c].d
  PROVE  /\ Micro(ratios).n \in Nat /\ Micro(ratios).d \in Nat
         /\ Micro(ratios).n <= Micro(ratios).d
         /\ Micro(ratios).n = Micro(ratios).d => \A c \in DOMAIN ratios : ratios[c].n = ratios[c].d
         /\ (\A c \in DOMAIN ratios : ratios[c].d = 0) => Micro(ratios).d = 0
<1> DEFINE S == DOMAIN ratios
           v == [c \in S |-> ratios[c].n]
           w == [c \in S |-> ratios[c].d]
           ns[s \in SUBSET S] ==
             IF s = {} THEN 0 ELSE LET x == CHOOSE x \in s : TRUE IN ratios[x].n + ns[s \ {x}]
           ds[s \in SUBSET S] ==
             IF s = {} THEN 0 ELSE LET x == CHOOSE x \in s : TRUE IN ratios[x].d + ds[s \ {x}]
<1>1. v \in [S -> Nat] /\ w \in [S -> Nat] /\ \A c \in S : v[c] <= w[c]
  OBVIOUS
<1>2. \A s \in SUBSET S : s # {} => (CHOOSE x \in s : TRUE) \in S
  OBVIOUS
<1>3. Micro(ratios).n = ns[S] /\ Micro(ratios).d = ds[S]
  <2>1. /\ Micro(ratios).n = SetExt!MapThenSumSet(LAMBDA c : ratios[c].n, DOMAIN ratios)
        /\ Micro(ratios).d = SetExt!MapThenSumSet(LAMBDA c : ratios[c].d, DOMAIN ratios)
    BY DEF Micro, Ratio
  <2> QED
    BY <2>1 DEF SetExt!MapThenSumSet, SetExt!MapThenFoldSet
<1>4. ns \in [SUBSET S -> Nat] /\ Sums(ns, v, S)
  <2>1. PICK g \in [SUBSET S -> Nat] : Sums(g, v, S)
    BY <1>1, SumExists
  <2>2. g = [s \in SUBSET S |-> IF s = {} THEN 0
                                 ELSE LET x == CHOOSE x \in s : TRUE IN ratios[x].n + g[s \ {x}]]
    BY <1>2, <2>1 DEF Sums
  <2>3. ns = [s \in SUBSET S |-> IF s = {} THEN 0
                                  ELSE LET x == CHOOSE x \in s : TRUE IN ratios[x].n + ns[s \ {x}]]
    BY <2>2
  <2> HIDE DEF ns
  <2>4. Sums(ns, v, S)
    BY <1>2, <2>3 DEF Sums
  <2>5. ns = [s \in SUBSET S |-> ns[s]]
    BY <2>3
  <2> HIDE DEF v
  <2>6. \A s \in SUBSET S : ns[s] \in Nat
    BY <1>1, <2>4, SumsTyped
  <2> QED
    BY <2>4, <2>5, <2>6
<1>5. ds \in [SUBSET S -> Nat] /\ Sums(ds, w, S)
  <2>1. PICK g \in [SUBSET S -> Nat] : Sums(g, w, S)
    BY <1>1, SumExists
  <2>2. g = [s \in SUBSET S |-> IF s = {} THEN 0
                                 ELSE LET x == CHOOSE x \in s : TRUE IN ratios[x].d + g[s \ {x}]]
    BY <1>2, <2>1 DEF Sums
  <2>3. ds = [s \in SUBSET S |-> IF s = {} THEN 0
                                  ELSE LET x == CHOOSE x \in s : TRUE IN ratios[x].d + ds[s \ {x}]]
    BY <2>2
  <2> HIDE DEF ds
  <2>4. Sums(ds, w, S)
    BY <1>2, <2>3 DEF Sums
  <2>5. ds = [s \in SUBSET S |-> ds[s]]
    BY <2>3
  <2> HIDE DEF w
  <2>6. \A s \in SUBSET S : ds[s] \in Nat
    BY <1>1, <2>4, SumsTyped
  <2> QED
    BY <2>4, <2>5, <2>6
<1> HIDE DEF ns, ds
<1>6. ns[S] <= ds[S] /\ (ns[S] = ds[S] => \A c \in S : v[c] = w[c])
  <2>1. IsFiniteSet(S)
    OBVIOUS
  <2> HIDE DEF S, v, w
  <2>2. v \in [S -> Nat] /\ w \in [S -> Nat] /\ ns \in [SUBSET S -> Nat] /\ ds \in [SUBSET S -> Nat]
    BY <1>1, <1>4, <1>5
  <2>3. ns[S] <= ds[S]
    BY <1>1, <1>4, <1>5, <2>1, <2>2, SumsAgree
  <2>4. ASSUME ns[S] = ds[S] PROVE \A c \in S : v[c] = w[c]
    BY <1>1, <1>4, <1>5, <2>1, <2>2, <2>4, SumsAgree
  <2> QED
    BY <2>3, <2>4
<1>7. (\A c \in S : w[c] = 0) => ds[S] = 0
  <2> SUFFICES ASSUME \A c \in S : w[c] = 0 PROVE ds[S] = 0
    OBVIOUS
  <2> DEFINE zeros == [s \in SUBSET S |-> 0]
             zero == [c \in S |-> 0]
  <2>1. zero \in [S -> Nat] /\ zeros \in [SUBSET S -> Nat] /\ zeros[S] = 0
    OBVIOUS
  <2>2. Sums(zeros, zero, S)
    BY <1>2 DEF Sums
  <2>3. \A c \in S : w[c] <= zero[c]
    OBVIOUS
  <2> HIDE DEF S, w, zeros, zero
  <2>4. ds[S] <= zeros[S]
    BY <1>1, <1>5, <2>1, <2>2, <2>3, SumsAgree DEF S
  <2>5. ds[S] \in Nat
    BY <1>5
  <2> QED
    BY <2>1, <2>4, <2>5
<1>8. ns[S] \in Nat /\ ds[S] \in Nat
  BY <1>4, <1>5
<1> QED
  BY <1>3, <1>6, <1>7, <1>8

\* The recall of a case is within 1, and is 1 only if every item was found.
LEMMA RecallIs ==
  ASSUME NEW gs, Listed(gs), NEW cs, NEW level, NEW k, NEW capacity
  PROVE  LET recall == RecallAt(gs, cs, level, k, capacity)
         IN  /\ {recall.n, recall.d} \subseteq Nat /\ recall.n <= recall.d
             /\ k > capacity => recall.d = 0
             /\ ~(k > capacity) /\ gs # << >> /\ recall.n = recall.d =>
                  Matched(gs, AtMost(cs, k), level) = DOMAIN gs
<1> DEFINE found == Matched(gs, AtMost(cs, k), level)
<1>1. found \in SUBSET DOMAIN gs /\ Len(gs) \in Nat /\ DOMAIN gs = 1..Len(gs)
  BY LenProperties DEF Matched, Listed
<1> HIDE DEF found
<1>2. IsFiniteSet(DOMAIN gs) /\ Cardinality(DOMAIN gs) = Len(gs)
  <2> DEFINE m == Len(gs)
  <2>1. m \in Nat
    BY <1>1
  <2> HIDE DEF m
  <2>2. IsFiniteSet(1..m) /\ Cardinality(1..m) = m
    BY <2>1, FS_Interval
  <2> QED
    BY <1>1, <2>2 DEF m
<1>3. /\ Cardinality(found) \in Nat /\ Cardinality(found) <= Len(gs)
      /\ Cardinality(found) = Len(gs) => found = DOMAIN gs
  BY <1>1, <1>2, FS_Subset, FS_CardinalityType
<1>4. RecallAt(gs, cs, level, k, capacity) =
        IF k > capacity \/ gs = << >> THEN [n |-> 0, d |-> 0] ELSE [n |-> Cardinality(found), d |-> Len(gs)]
  BY DEF RecallAt, Ratio, Inapplicable, found
<1> QED
  BY <1>1, <1>3, <1>4 DEF found

\* The gate lets no row through whose retrieval failed or found nothing, unless
\* rounding hides it.
LEMMA GateFindsFailures ==
  ASSUME NEW rows, IsFiniteSet(DOMAIN rows), Gate(rows, FinalLimit, SourceLimit, FinalLimit),
         Cardinality(DOMAIN rows) <= Rounding
  PROVE  \A c \in DOMAIN rows : rows[c].status \notin UNION FailureKinds
<1> DEFINE Failed(kind) == {c \in DOMAIN rows : rows[c].status \in kind}
<1>1. ASSUME NEW kind \in FailureKinds PROVE Failed(kind) = {}
  <2> DEFINE failed == Failed(kind)
             f == Cardinality(failed)
             all == Cardinality(DOMAIN rows)
  <2>1. Ratio(f, all) \in Aggregate(rows, FinalLimit, SourceLimit, FinalLimit).failures
    BY DEF Aggregate
  <2>2. Vanishes(Ratio(f, all))
    BY <2>1 DEF Gate
  <2>3. 20000 * f < all
    BY <2>2 DEF Vanishes, Ratio
  <2>4. IsFiniteSet(failed)
    BY FS_Subset
  <2> HIDE DEF failed
  <2>5. f \in Nat /\ all \in Nat /\ all <= 20000
    BY <2>4, FS_CardinalityType DEF Rounding
  <2> HIDE DEF f, all
  <2>6. f = 0
    BY <2>3, <2>5
  <2>7. failed = {}
    BY <2>4, <2>6, FS_EmptySet DEF f
  <2> QED
    BY <2>7 DEF failed
<1> QED
  BY <1>1

\* A run that passed the gate has found every document of its gold, unless rounding hides one.
LEMMA GateFindsGold ==
  ASSUME NEW rows, IsFiniteSet(DOMAIN rows), Gate(rows, FinalLimit, SourceLimit, FinalLimit),
         \A c \in DOMAIN rows : Listed(rows[c].gold),
         Micro([c \in DOMAIN rows |-> DocumentRecall(rows[c], FinalLimit, SourceLimit)]).d < Rounding,
         NEW c \in DOMAIN rows, ~Skipped(rows[c])
  PROVE  Matched(rows[c].gold, AtMost(rows[c].source, FinalLimit), "document") = DOMAIN rows[c].gold
<1> DEFINE Recall(row) == RecallAt(row.gold, row.source, "document", FinalLimit, SourceLimit)
           ratios == [q \in DOMAIN rows |-> DocumentRecall(rows[q], FinalLimit, SourceLimit)]
           all == Micro(ratios)
<1>1. ASSUME NEW q \in DOMAIN rows
      PROVE  /\ ratios[q] = IF Skipped(rows[q]) THEN [n |-> 0, d |-> 0] ELSE Recall(rows[q])
             /\ {Recall(rows[q]).n, Recall(rows[q]).d} \subseteq Nat
             /\ Recall(rows[q]).n <= Recall(rows[q]).d
             /\ FinalLimit > SourceLimit => Recall(rows[q]).d = 0
  BY RecallIs DEF DocumentRecall, Unless, Inapplicable, Ratio
<1>2. all.d > 0 /\ 20000 * all.n + all.d >= 200 * 100 * all.d
  BY DEF Gate, Aggregate, Reaches
<1>3. DOMAIN ratios = DOMAIN rows
  OBVIOUS
<1> HIDE DEF Recall, ratios, all
<1>4. \A q \in DOMAIN ratios : {ratios[q].n, ratios[q].d} \subseteq Nat /\ ratios[q].n <= ratios[q].d
  BY <1>1, <1>3
<1>5. /\ all.n \in Nat /\ all.d \in Nat /\ all.n <= all.d
      /\ all.n = all.d => \A q \in DOMAIN ratios : ratios[q].n = ratios[q].d
      /\ (\A q \in DOMAIN ratios : ratios[q].d = 0) => all.d = 0
  BY <1>3, <1>4, MicroIs DEF all
<1>6. all.d < 20000
  BY DEF Rounding, all, ratios
<1>7. all.n = all.d
  <2> DEFINE a == all.n
             b == all.d
  <2>1. a \in Nat /\ b \in Nat /\ a <= b /\ 20000 * a + b >= 20000 * b /\ b < 20000
    BY <1>2, <1>5, <1>6
  <2> HIDE DEF a, b
  <2>2. a = b
    BY <2>1
  <2> QED
    BY <2>2 DEF a, b
<1>8. ratios[c].n = ratios[c].d
  BY <1>3, <1>5, <1>7
<1>9. ~(FinalLimit > SourceLimit)
  BY <1>1, <1>2, <1>3, <1>5
<1>10. Recall(rows[c]).n = Recall(rows[c]).d /\ rows[c].gold # << >>
  BY <1>1, <1>8 DEF Skipped
<1> QED
  BY <1>9, <1>10, RecallIs DEF Recall

-----------------------------------------------------------------------------
(* The evaluation runs                                                     *)

Stages == {"unused", "selected", "bound", "running", "evaluated", "manifest", "results"}
RowsFinal == {"evaluated", "manifest", "results"}

\* What a command has written tells how far it is, and it is bound to another
\* from the moment it needs to be; the gold of its cases is a list.
RunShape(run) ==
  /\ DOMAIN run = {"kind", "stage", "backend", "ranking", "judge", "read", "at", "hashed",
                   "cases", "bound", "rows", "written"}
  /\ run.stage \in Stages
  /\ run.stage \notin {"manifest", "results"} => run.written = {}
  /\ run.stage = "manifest" => run.written = {"manifest"}
  /\ DOMAIN run.rows = run.cases /\ run.cases \subseteq Cases
  /\ run.stage \notin RowsFinal \/ run.kind # "answer" =>
       \A c \in run.cases : Listed(run.rows[c].gold)
  /\ run.bound \in Runs \union {NoRun}
  /\ run.bound # NoRun => NeedsRun(run) /\ run.stage \notin {"unused", "selected"}
  /\ run.stage \notin {"unused", "selected"} /\ NeedsRun(run) => run.bound # NoRun
  /\ run.stage \in RowsFinal /\ run.kind = "answer" => \A c \in run.cases : run.rows[c].judged => run.judge

\* The run that a command is bound to is over, and passed the gate on its cases.
BoundHeld(run, s) ==
  /\ s.stage = "results" /\ s.kind \in {"retrieval", "rerank"}
  /\ s.cases = run.cases /\ s.hashed = run.at
  /\ Gate(s.rows, FinalLimit, SourceLimit, FinalLimit)
  /\ run.stage \in RowsFinal =>
       \A c \in run.cases :
         /\ run.kind = "rerank" => run.rows[c].source = s.rows[c].source
         /\ run.kind = "answer" /\ run.rows[c].judged => run.rows[c].final = s.rows[c].final

RunsInv ==
  /\ files.sidecar \in Sidecars /\ DOMAIN runs = Runs
  /\ \A r \in Runs : /\ RunShape(runs[r])
                     /\ runs[r].bound # NoRun => BoundHeld(runs[r], runs[runs[r].bound])

-----------------------------------------------------------------------------
\* A run that was never started is bound to none.
LEMMA UnusedShape == RunShape(Unused) /\ Unused.bound = NoRun
<1>1. DOMAIN <<>> = {}
  OBVIOUS
<1> QED
  BY <1>1, RunsAssumption DEF RunShape, Unused, Stages, RowsFinal, NeedsRun

\* No run is started at first.
LEMMA InitRuns == EvalInit => RunsInv
BY UnusedShape DEF EvalInit, RunsInv

\* A command that is bound does not see the others go on.
LEMMA OneRun ==
  ASSUME RunsInv, NEW r \in Runs, NEW run, SetRun(r, run), runs[r].stage # "results",
         RunShape(run), run.bound # NoRun => BoundHeld(run, runs[run.bound])
  PROVE  RunsInv'
<1>1. DOMAIN runs' = Runs /\ \A q \in Runs : runs'[q] = IF q = r THEN run ELSE runs[q]
  BY DEF SetRun, RunsInv
<1>2. ASSUME NEW q \in Runs
      PROVE  /\ RunShape(runs'[q])
             /\ runs'[q].bound # NoRun => BoundHeld(runs'[q], runs'[runs'[q].bound])
  <2>1. PICK k : k = runs'[q]
    OBVIOUS
  <2>2. RunShape(k) /\ (k.bound # NoRun => BoundHeld(k, runs[k.bound]))
    BY <1>1, <2>1 DEF RunsInv
  <2>3. ASSUME k.bound # NoRun PROVE runs'[k.bound] = runs[k.bound]
    BY <1>1, <2>2, <2>3 DEF RunShape, BoundHeld
  <2> QED
    BY <2>1, <2>2, <2>3
<1>3. files' = files
  BY DEF SetRun
<1> QED
  BY <1>1, <1>2, <1>3 DEF RunsInv

\* The rows of a judged answer are those of the run it is bound to.
LEMMA JudgedRow ==
  ASSUME NEW run, NEW found, NEW input, NEW output, NEW category,
         AnswerRow(run, found, input, output, category).judged
  PROVE  /\ run.judge
         /\ AnswerRow(run, found, input, output, category).final = found.final
BY DEF AnswerRow, Judged

\* Every step keeps the runs, and the bindings among them.
LEMMA RunsStep == RunsInv /\ [EvalNext]_runVars => RunsInv'
<1> SUFFICES ASSUME RunsInv, [EvalNext]_runVars PROVE RunsInv'
  OBVIOUS
<1>0. /\ DOMAIN runs = Runs /\ NoRun \notin Runs
      /\ \A r \in Runs : /\ RunShape(runs[r])
                         /\ runs[r].bound # NoRun => BoundHeld(runs[r], runs[runs[r].bound])
      /\ \A r \in Runs : DOMAIN runs[r] =
           {"kind", "stage", "backend", "ranking", "judge", "read", "at", "hashed",
            "cases", "bound", "rows", "written"}
  BY RunsAssumption DEF RunsInv, RunShape
<1>1. ASSUME UNCHANGED runs, files'.sidecar \in Sidecars PROVE RunsInv'
  BY <1>1 DEF RunsInv
<1>2. CASE Edit \/ UNCHANGED runVars
  <2>1. files'.sidecar \in Sidecars
    BY <1>2 DEF Edit, runVars, RunsInv
  <2> QED
    BY <1>1, <1>2, <2>1 DEF Edit, runVars
<1>3. ASSUME NEW r \in Runs, NEW kind, NEW mode, NEW judge, Start(r, kind, mode, judge)
      PROVE  RunsInv'
  <2>1. PICK selected : selected = {c \in Cases : Eligible(files.sidecar, c)}
    OBVIOUS
  <2>2. PICK rows : rows = [c \in selected |-> [gold |-> LabelsOf[files.sidecar][c].required]]
    OBVIOUS
  <2>3. PICK run : run = [Unused EXCEPT !.kind = kind, !.stage = "selected", !.judge = judge,
                                  !.backend = mode.backend, !.ranking = mode.ranking,
                                  !.read = files.dataset, !.cases = selected, !.rows = rows]
    OBVIOUS
  <2>4. SetRun(r, run) /\ runs[r].stage = "unused"
    BY <1>3, <2>1, <2>2, <2>3 DEF Start, AtPhase
  <2>5. /\ run.stage = "selected" /\ run.written = {} /\ run.rows = rows /\ run.cases = selected
        /\ run.bound = NoRun
        /\ DOMAIN run = {"kind", "stage", "backend", "ranking", "judge", "read", "at", "hashed",
                         "cases", "bound", "rows", "written"}
    BY <2>3 DEF Unused
  <2>6. \A c \in selected : Listed(rows[c].gold)
    <3>1. files.sidecar \in Sidecars
      BY DEF RunsInv
    <3>2. \A c \in Cases : Listed(LabelsOf[files.sidecar][c].required)
      BY <3>1, RunsAssumption DEF Listed
    <3>3. \A c \in selected : c \in Cases /\ rows[c].gold = LabelsOf[files.sidecar][c].required
      BY <2>1, <2>2
    <3> QED
      BY <3>2, <3>3
  <2>7. RunShape(run)
    BY <2>1, <2>2, <2>5, <2>6 DEF RunShape, Stages, RowsFinal
  <2> QED
    BY <2>4, <2>5, <2>7, OneRun
<1>4. ASSUME NEW r \in Runs, Bind(r) PROVE RunsInv'
  <2>1. PICK s : /\ s \in Runs \ {r} /\ runs[s].kind \in {"retrieval", "rerank"}
                 /\ Validates(runs[r], runs[s])
                 /\ SetRun(r, [runs[r] EXCEPT !.stage = "bound", !.bound = s, !.at = files.dataset])
                 /\ runs[r].stage = "selected" /\ NeedsRun(runs[r])
    BY <1>4 DEF Bind, AtPhase
  <2>2. PICK run : run = [runs[r] EXCEPT !.stage = "bound", !.bound = s, !.at = files.dataset]
    OBVIOUS
  <2>3. /\ run.stage = "bound" /\ run.bound = s /\ run.at = files.dataset
        /\ run.written = runs[r].written /\ run.rows = runs[r].rows /\ run.cases = runs[r].cases
        /\ run.kind = runs[r].kind /\ run.judge = runs[r].judge /\ run.backend = runs[r].backend
        /\ DOMAIN run = DOMAIN runs[r]
    BY <1>0, <2>2
  <2>4. RunShape(run)
    BY <1>0, <2>1, <2>3 DEF RunShape, Stages, RowsFinal, NeedsRun
  <2>5. BoundHeld(run, runs[s])
    <3>1. {"manifest", "results"} \subseteq runs[s].written /\ runs[s].cases = runs[r].cases
          /\ runs[s].hashed = files.dataset
          /\ Gate(runs[s].rows, FinalLimit, SourceLimit, FinalLimit)
      BY <2>1 DEF Validates
    <3>2. runs[s].stage = "results"
      BY <1>0, <2>1, <3>1 DEF RunShape
    <3> QED
      BY <2>1, <2>3, <3>1, <3>2 DEF BoundHeld, RowsFinal
  <2> QED
    BY <2>1, <2>2, <2>3, <2>4, <2>5, OneRun
<1>5. ASSUME NEW r \in Runs, Prepare(r) PROVE RunsInv'
  <2>1. PICK run : run = [runs[r] EXCEPT !.stage = "running", !.hashed = files.dataset]
    OBVIOUS
  <2>2. /\ SetRun(r, run)
        /\ runs[r].stage = "bound" \/ (runs[r].stage = "selected" /\ ~NeedsRun(runs[r]))
    BY <1>5, <2>1 DEF Prepare, AtPhase
  <2>3. /\ run.stage = "running" /\ run.bound = runs[r].bound /\ run.at = runs[r].at
        /\ run.written = runs[r].written /\ run.rows = runs[r].rows /\ run.cases = runs[r].cases
        /\ run.kind = runs[r].kind /\ run.judge = runs[r].judge /\ run.backend = runs[r].backend
        /\ DOMAIN run = DOMAIN runs[r]
    BY <1>0, <2>1
  <2>4. RunShape(run)
    BY <1>0, <2>2, <2>3 DEF RunShape, Stages, RowsFinal, NeedsRun
  <2>5. run.bound # NoRun => BoundHeld(run, runs[run.bound])
    BY <1>0, <2>3 DEF BoundHeld, RowsFinal
  <2> QED
    BY <2>2, <2>4, <2>5, OneRun
\* A command that has rows for its cases, and what they must be.
<1>6. ASSUME NEW r \in Runs, runs[r].stage = "running", NEW rows, DOMAIN rows = runs[r].cases,
             SetRun(r, [runs[r] EXCEPT !.stage = "evaluated", !.rows = rows]),
             runs[r].kind = "answer" => \A c \in runs[r].cases : rows[c].judged => runs[r].judge,
             runs[r].kind # "answer" => \A c \in runs[r].cases : rows[c].gold = runs[r].rows[c].gold,
             runs[r].bound # NoRun => \A c \in runs[r].cases :
               LET s == runs[runs[r].bound]
               IN  /\ runs[r].kind = "rerank" => rows[c].source = s.rows[c].source
                   /\ runs[r].kind = "answer" /\ rows[c].judged => rows[c].final = s.rows[c].final
      PROVE  RunsInv'
  <2>1. PICK run : run = [runs[r] EXCEPT !.stage = "evaluated", !.rows = rows]
    OBVIOUS
  <2>2. /\ run.stage = "evaluated" /\ run.bound = runs[r].bound /\ run.at = runs[r].at
        /\ run.written = runs[r].written /\ run.rows = rows /\ run.cases = runs[r].cases
        /\ run.kind = runs[r].kind /\ run.judge = runs[r].judge /\ run.backend = runs[r].backend
        /\ DOMAIN run = DOMAIN runs[r]
    BY <1>0, <2>1
  <2>3. RunShape(run)
    BY <1>0, <1>6, <2>2 DEF RunShape, Stages, RowsFinal, NeedsRun
  <2>4. ASSUME run.bound # NoRun PROVE BoundHeld(run, runs[run.bound])
    <3>1. BoundHeld(runs[r], runs[run.bound])
      BY <1>0, <2>2, <2>4
    <3>2. \A c \in run.cases :
            /\ run.kind = "rerank" => run.rows[c].source = runs[run.bound].rows[c].source
            /\ run.kind = "answer" /\ run.rows[c].judged =>
                 run.rows[c].final = runs[run.bound].rows[c].final
      BY <1>6, <2>2, <2>4
    <3> QED
      BY <2>2, <3>1, <3>2 DEF BoundHeld
  <2> QED
    BY <1>6, <2>1, <2>3, <2>4, OneRun
<1>7. ASSUME NEW r \in Runs, EvaluateRetrieval(r) PROVE RunsInv'
  <2>1. PICK found : SetRun(r, [runs[r] EXCEPT !.stage = "evaluated",
                       !.rows = [c \in runs[r].cases |-> WithGold(runs[r], c, found[c])]])
    BY <1>7 DEF EvaluateRetrieval
  <2>2. runs[r].stage = "running" /\ runs[r].kind = "retrieval"
    BY <1>7 DEF EvaluateRetrieval, AtPhase
  <2>3. PICK rows : rows = [c \in runs[r].cases |-> WithGold(runs[r], c, found[c])]
    OBVIOUS
  <2>4. DOMAIN rows = runs[r].cases /\ \A c \in runs[r].cases : rows[c].gold = runs[r].rows[c].gold
    BY <2>3 DEF WithGold
  <2> QED
    BY <1>6, <2>1, <2>2, <2>3, <2>4
<1>8. ASSUME NEW r \in Runs, EvaluateRerank(r) PROVE RunsInv'
  <2>1. PICK found :
          /\ \A c \in runs[r].cases : found[c].source = runs[runs[r].bound].rows[c].source
          /\ SetRun(r, [runs[r] EXCEPT !.stage = "evaluated",
                       !.rows = [c \in runs[r].cases |-> WithGold(runs[r], c, found[c])]])
    BY <1>8 DEF EvaluateRerank
  <2>2. runs[r].stage = "running" /\ runs[r].kind = "rerank"
    BY <1>8 DEF EvaluateRerank, AtPhase
  <2>3. PICK rows : rows = [c \in runs[r].cases |-> WithGold(runs[r], c, found[c])]
    OBVIOUS
  <2>4. DOMAIN rows = runs[r].cases
    BY <2>3
  <2>5. ASSUME NEW c \in runs[r].cases
        PROVE  rows[c].source = found[c].source /\ rows[c].gold = runs[r].rows[c].gold
    BY <2>3 DEF WithGold
  <2> QED
    BY <1>6, <2>1, <2>2, <2>3, <2>4, <2>5
<1>9. ASSUME NEW r \in Runs, EvaluateAnswers(r) PROVE RunsInv'
  <2>1. runs[r].stage = "running" /\ runs[r].kind = "answer"
    BY <1>9 DEF EvaluateAnswers, AtPhase
  <2>2. PICK rows \in [runs[r].cases -> UNION {AnswerRows(runs[r], c) : c \in runs[r].cases}] :
          /\ \A c \in runs[r].cases : rows[c] \in AnswerRows(runs[r], c)
          /\ SetRun(r, [runs[r] EXCEPT !.stage = "evaluated", !.rows = rows])
    BY <1>9 DEF EvaluateAnswers
  <2>3. ASSUME NEW c \in runs[r].cases, rows[c].judged
        PROVE  /\ runs[r].judge
               /\ runs[r].bound # NoRun => rows[c].final = runs[runs[r].bound].rows[c].final
    <3>1. PICK found \in FoundFor(runs[r], c) : rows[c] \in
            {AnswerRow(runs[r], found, input, output, category) :
               input \in Verdicts, output \in Verdicts, category \in Categories(found)}
      BY <2>2 DEF AnswerRows
    <3>2. PICK input, output, category : rows[c] = AnswerRow(runs[r], found, input, output, category)
      BY <3>1
    <3>3. runs[r].bound # NoRun => found.final = runs[runs[r].bound].rows[c].final
      BY <3>1 DEF FoundFor
    <3> QED
      BY <2>3, <3>2, <3>3, JudgedRow
  <2>4. DOMAIN rows = runs[r].cases
    BY <2>2
  <2> QED
    BY <1>6, <2>1, <2>2, <2>3, <2>4
<1>10. ASSUME NEW r \in Runs, WriteArtifact(r) PROVE RunsInv'
  <2>1. PICK next : next = Artifact[runs[r].stage]
    OBVIOUS
  <2>2. PICK run : run = [runs[r] EXCEPT !.stage = next, !.written = @ \union {next}]
    OBVIOUS
  <2>3. /\ SetRun(r, run) /\ runs[r].stage \in DOMAIN Artifact
    BY <1>10, <2>1, <2>2 DEF WriteArtifact
  <2>4. \/ runs[r].stage = "evaluated" /\ next = "manifest"
        \/ runs[r].stage = "manifest" /\ next = "results"
    BY <2>1, <2>3 DEF Artifact
  <2>5. /\ run.stage = next /\ run.bound = runs[r].bound /\ run.at = runs[r].at
        /\ run.written = runs[r].written \union {next}
        /\ run.rows = runs[r].rows /\ run.cases = runs[r].cases
        /\ run.kind = runs[r].kind /\ run.judge = runs[r].judge /\ run.backend = runs[r].backend
        /\ DOMAIN run = DOMAIN runs[r]
    BY <1>0, <2>2
  <2>6. RunShape(run)
    BY <1>0, <2>4, <2>5 DEF RunShape, Stages, RowsFinal, NeedsRun
  <2>7. run.bound # NoRun => BoundHeld(run, runs[run.bound])
    BY <1>0, <2>4, <2>5 DEF BoundHeld, RowsFinal
  <2> QED
    BY <2>3, <2>4, <2>6, <2>7, OneRun
<1>11. ASSUME NEW r \in Runs, StartRetrieval(r) \/ StartAnswer(r) \/ StartRerank(r) PROVE RunsInv'
  BY <1>3, <1>11 DEF StartRetrieval, StartAnswer, StartRerank
<1> QED
  BY <1>2, <1>4, <1>5, <1>7, <1>8, <1>9, <1>10, <1>11 DEF EvalNext, RunStep

\* What is judged was retrieved by a run that passed the gate.
LEMMA GatedWhenJudged == RunsInv => JudgedOnGatedEvidence
<1> SUFFICES ASSUME RunsInv, NEW a \in Runs, runs[a].kind = "answer",
                    "results" \in runs[a].written, NEW c \in runs[a].cases,
                    runs[a].rows[c].judged
             PROVE  LET run == runs[a]
                        origin == runs[run.bound]
                    IN  /\ run.bound # NoRun /\ c \in origin.cases
                        /\ run.rows[c].final = origin.rows[c].final
                        /\ Cardinality(origin.cases) <= Rounding =>
                             origin.rows[c].status \notin UNION FailureKinds
                        /\ Micro([q \in origin.cases |-> DocumentRecall(origin.rows[q], FinalLimit,
                                                                        SourceLimit)]).d < Rounding =>
                             \A q \in origin.cases : ~Skipped(origin.rows[q]) =>
                               Matched(origin.rows[q].gold,
                                       AtMost(origin.rows[q].source, FinalLimit), "document")
                                 = DOMAIN origin.rows[q].gold
                        /\ Steady(origin) /\ run.read = run.at =>
                             QuestionOf[run.read][c] = QuestionOf[origin.read][c]
                        /\ origin.bound # NoRun =>
                             origin.rows[c].source = runs[origin.bound].rows[c].source
  BY DEF JudgedOnGatedEvidence
<1>1. PICK run : run = runs[a]
  OBVIOUS
<1>2. RunShape(run) /\ (run.bound # NoRun => BoundHeld(run, runs[run.bound]))
  BY <1>1 DEF RunsInv
<1>3. run.stage = "results" /\ run.judge /\ run.bound # NoRun /\ run.bound \in Runs
  <2>1. run.stage = "results"
    BY <1>1, <1>2 DEF RunShape
  <2>2. run.judge
    BY <1>1, <1>2, <2>1 DEF RunShape, RowsFinal
  <2> QED
    BY <1>1, <1>2, <2>1, <2>2 DEF RunShape, NeedsRun
<1>4. PICK origin : origin = runs[run.bound]
  OBVIOUS
<1>5. /\ RunShape(origin) /\ BoundHeld(run, origin)
      /\ origin.bound # NoRun => BoundHeld(origin, runs[origin.bound])
  BY <1>2, <1>3, <1>4 DEF RunsInv
<1>6. c \in origin.cases /\ run.rows[c].final = origin.rows[c].final
  BY <1>1, <1>3, <1>5 DEF BoundHeld, RowsFinal
<1>7. /\ DOMAIN origin.rows = origin.cases /\ IsFiniteSet(origin.cases)
      /\ Gate(origin.rows, FinalLimit, SourceLimit, FinalLimit)
      /\ \A q \in origin.cases : Listed(origin.rows[q].gold)
  BY <1>5, RunsAssumption, FS_Subset DEF RunShape, BoundHeld
<1>8. Cardinality(origin.cases) <= Rounding => origin.rows[c].status \notin UNION FailureKinds
  BY <1>6, <1>7, GateFindsFailures
<1>9. ASSUME Micro([q \in origin.cases |-> DocumentRecall(origin.rows[q], FinalLimit, SourceLimit)]).d
               < Rounding,
             NEW q \in origin.cases, ~Skipped(origin.rows[q])
      PROVE  Matched(origin.rows[q].gold, AtMost(origin.rows[q].source, FinalLimit), "document")
               = DOMAIN origin.rows[q].gold
  BY <1>7, <1>9, GateFindsGold
<1>10. Steady(origin) /\ run.read = run.at => run.read = origin.read
  BY <1>5 DEF BoundHeld, Steady
<1>11. origin.bound # NoRun => origin.rows[c].source = runs[origin.bound].rows[c].source
  <2>1. origin.bound # NoRun => origin.kind = "rerank"
    BY <1>5 DEF BoundHeld, RunShape, NeedsRun
  <2> QED
    BY <1>5, <1>6, <2>1 DEF BoundHeld, RowsFinal
<1> QED
  BY <1>1, <1>3, <1>4, <1>6, <1>8, <1>9, <1>10, <1>11

(* An answer is judged only on evidence that passed the gate, for any       *)
(* commands, datasets, labels and retrievals, whoever edits the files: a    *)
(* run that others are bound to is over and changes no more, the gate is    *)
(* computed from its rows, and a rerank keeps the candidates of its source; *)
(* a run that passes failed on no case and found every gold document of the *)
(* cases it scores, unless there are so many that rounding hides one        *)
(* (validate_retrieval_run, evaluate_retrieval_gate, run_stage_b_offline).  *)
THEOREM GatedJudgements == EvalSpec => []JudgedOnGatedEvidence
BY InitRuns, RunsStep, GatedWhenJudged, PTL DEF EvalSpec

===============================================================================
