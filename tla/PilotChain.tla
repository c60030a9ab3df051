------------------------------ MODULE PilotChain ------------------------------
(***************************************************************************)
(* The commands of run_structural_index_pilot.py one after the other:      *)
(* plan, create, probe-model, upload, finalize, verify, each bound by      *)
(* hashes to the receipts of those before it (app/ingestion/               *)
(* structural_pilot.py, app/evaluation/structural_model_probe.py).         *)
(*                                                                         *)
(* Two operators may work on plans of their own, but there is one          *)
(* collection, which no command ever deletes.  The batches of the upload   *)
(* are StructuralUpload's.  A command that dies goes no further.           *)
(*                                                                         *)
(* Every upsert is content with the status acknowledged (app/ingestion/    *)
(* structural_upload.py), so its points may come later, each shard's in    *)
(* its own time: the probe, the upload and its checkpoint go by what       *)
(* Qdrant has accepted; counts and reads show what it has applied.         *)
(***************************************************************************)
EXTENDS Integers, FiniteSets

CONSTANTS Operators, Plans, NoPlan,
          Records, CorpusOf,      \* the records a plan has audited
          ProbeOf,                \* the verified records that the probe upserts
          Sources,                \* Git source states
          BodyBytes, MetadataBytes, DiskBytes, ExistingBytes,   \* a record's; the cluster's
          MaxCommands     \* bound

ASSUME PilotAssumption ==
  /\ NoPlan \notin Plans /\ MaxCommands \in Nat
  /\ CorpusOf \in [Plans -> SUBSET Records] /\ ProbeOf \in [Plans -> SUBSET Records]
  /\ \A p \in Plans : ProbeOf[p] # {} /\ ProbeOf[p] \subseteq CorpusOf[p]
  /\ IsFiniteSet(Records)
  /\ {BodyBytes, MetadataBytes, DiskBytes, ExistingBytes} \subseteq Nat

VARIABLES
  source,         \* state of the working tree
  corpus,         \* records of the local content store
  plans,          \* the source of each plan that was written, NoPlan before
  collection,     \* the one in Qdrant: how far it is created, the points it has
                  \* accepted and of these applied, its HNSW
  committed,      \* the upload checkpoint of each plan
  receipts,       \* immutable files
  command,        \* what each operator runs
  commands

pilotVars == <<source, corpus, plans, collection, committed, receipts, command, commands>>

\* What a command saw in its last readback, held and behind, are history fields.
Unread(name, p, stage) ==
  [name |-> name, plan |-> p, stage |-> stage, held |-> {}, behind |-> FALSE]
Idle == Unread("none", NoPlan, "done")
NoCollection == [built |-> "absent", accepted |-> {}, points |-> {}, hnsw |-> 0]

PilotInit ==
  /\ source \in Sources
  /\ corpus = {} \/ \E p \in Plans : corpus = CorpusOf[p]
  /\ plans = [p \in Plans |-> NoPlan]
  /\ collection = NoCollection
  /\ committed = [p \in Plans |-> {}]
  /\ receipts = {}
  /\ command = [o \in Operators |-> Idle] /\ commands = 0

Planned(p) == plans[p] # NoPlan
Receipt(c, kind, status) ==
  [plan |-> c.plan, kind |-> kind, status |-> status, held |-> c.held, behind |-> c.behind]
Has(p, kind, status) == \E r \in receipts : r.plan = p /\ r.kind = kind /\ r.status = status
Exists(p, kind) == \E r \in receipts : r.plan = p /\ r.kind = kind

At(o, name, stage) == command[o].name = name /\ command[o].stage = stage
Then(o, stage) == command' = [command EXCEPT ![o].stage = stage]
Over(o) == command' = [command EXCEPT ![o] = Idle]
\* The receipt is written once, as the command ends.
Write(o, kind, status) ==
  /\ receipts' = receipts \union {Receipt(command[o], kind, status)}
  /\ Over(o)

\* upsert_with_usage: taken, acknowledged or not.  And what was taken is applied.
Upsert(b) == collection' = [collection EXCEPT !.accepted = @ \union b]

ApplyPoints ==
  /\ \E b \in SUBSET (collection.accepted \ collection.points) \ {{}} :
       collection' = [collection EXCEPT !.points = @ \union b]
  /\ UNCHANGED <<source, corpus, plans, committed, receipts, command, commands>>

\* A readback: the points there are, and whether others are still to be applied.
See(o, stage) ==
  command' = [command EXCEPT ![o].stage = stage, ![o].held = collection.points,
                             ![o].behind = collection.points # collection.accepted]

world == <<source, corpus, plans>>
N(p) == Cardinality(CorpusOf[p])

\* validate_remote_write_authorization: the plan with the capacity it found,
\* under the source state it was made in.
Authorized(p) == Planned(p) /\ plans[p] = source

\* Files and sources change between commands.
Change ==
  /\ source' \in Sources
  /\ \E p \in Plans : corpus' = CorpusOf[p]
  /\ <<source, corpus>>' # <<source, corpus>>
  /\ UNCHANGED <<plans, collection, committed, receipts, command, commands>>

\* estimate_capacity: vectors, texts, HNSW edges of 16 links, then a fifth for the
\* WAL and a quarter of it all for safety, both rounded up.
Projected(n) ==
  LET base == n * (384 * 4 + 3 * BodyBytes + MetadataBytes + 16 * 2 * 4)
      wal == (base + 4) \div 5
  IN  base + wal + (base + wal + 3) \div 4

\* build_structural_pilot_plan; a plan without the capacity is never authorized.
WritePlan(p) ==
  /\ ~Planned(p) /\ corpus = CorpusOf[p]
  /\ Projected(N(p)) <= DiskBytes - ExistingBytes
  /\ plans' = [plans EXCEPT ![p] = source]
  /\ UNCHANGED <<source, corpus, collection, committed, receipts, command, commands>>

Run(o, name, p) ==
  /\ command[o] = Idle /\ commands < MaxCommands
  /\ commands' = commands + 1
  /\ Authorized(p)
  /\ command' = [command EXCEPT ![o] = Unread(name, p, "start")]
  /\ UNCHANGED <<world, collection, committed, receipts>>

-----------------------------------------------------------------------------
(* create_structural_collection                                            *)

RunCreate(o, p) == ~Exists(p, "create") /\ Run(o, "create", p)

Create(o) ==
  /\ At(o, "create", "start") /\ collection.built = "absent"
  /\ collection' = [collection EXCEPT !.built = "bare"]
  /\ Then(o, "index")
  /\ UNCHANGED <<world, committed, receipts, commands>>

CreateIndexes(o) ==
  /\ At(o, "create", "index")
  /\ collection' = [collection EXCEPT !.built = "indexed"]
  /\ Then(o, "read")
  /\ UNCHANGED <<world, committed, receipts, commands>>

Adopt(o) ==
  /\ At(o, "create", "start") /\ collection.built # "absent"
  /\ Then(o, "read")
  /\ UNCHANGED <<world, collection, committed, receipts, commands>>

\* _validate_collection_readback
Empty == collection.built = "indexed" /\ collection.points = {} /\ collection.hnsw = 0

ReadCreated(o) ==
  /\ At(o, "create", "read")
  /\ IF Empty /\ ~Exists(command[o].plan, "create")
     THEN Write(o, "create", "ok")
     ELSE UNCHANGED receipts /\ Over(o)
  /\ UNCHANGED <<world, collection, committed, commands>>

-----------------------------------------------------------------------------
(* run_structural_model_probe                                              *)

RunProbe(o, p) == /\ Has(p, "create", "ok") /\ corpus = CorpusOf[p]
                  /\ Run(o, "probe", p)

\* _validate_live_probe_schema, before the upsert and after it.
ProbeFits(p) == /\ collection.built = "indexed" /\ collection.hnsw = 0
                /\ Cardinality(collection.points) <= Cardinality(ProbeOf[p])
ProbeCounted(p) == /\ collection.built = "indexed" /\ collection.hnsw = 0
                   /\ Cardinality(collection.points) = Cardinality(ProbeOf[p])

\* The probe's batches; it may fail after any of them.
UpsertProbe(o) ==
  LET p == command[o].plan
  IN  /\ At(o, "probe", "start")
      /\ IF ProbeFits(p)
         THEN \E b \in SUBSET ProbeOf[p] :
                /\ Upsert(b)
                /\ IF b = ProbeOf[p] THEN Then(o, "read") ELSE Then(o, "blocked")
         ELSE Then(o, "blocked") /\ UNCHANGED collection
      /\ UNCHANGED <<world, committed, receipts, commands>>

\* _validate_probe_vectors
VectorsThere(p) == ProbeOf[p] \subseteq collection.points

\* _qdrant_gold_ranks and _qdrant_canary_ranks: none without a case or a canary.
Recalls == {"none", "low", "enough"}

\* decide_model_probe_acceptance
Acceptance(document, structural, canary) ==
  LET recalls == {document, structural, canary}
  IN  IF "none" \in recalls THEN "scope"
      ELSE IF recalls = {"enough"} THEN "pass" ELSE "fail"

ReadProbe(o) ==
  LET p == command[o].plan
  IN  /\ At(o, "probe", "read")
      /\ \/ /\ ProbeCounted(p) /\ VectorsThere(p)
            /\ \E document, structural, canary \in Recalls :
                 Write(o, "probe", Acceptance(document, structural, canary))
         \/ Write(o, "probe", "blocked")
      /\ UNCHANGED <<world, collection, committed, commands>>

BlockProbe(o) == /\ At(o, "probe", "blocked")
                 /\ Write(o, "probe", "blocked")
                 /\ UNCHANGED <<world, collection, committed, commands>>

-----------------------------------------------------------------------------
(* upload                                                                  *)

\* _validate_creation_probe_chain
Probed(p) == Has(p, "create", "ok") /\ Has(p, "probe", "pass")

RunUpload(o, p) == Probed(p) /\ corpus = CorpusOf[p] /\ Run(o, "upload", p)

\* The preflight upsert is authorized once more; the checkpoint takes the
\* records of the probe.
Preflight(o) ==
  LET p == command[o].plan
  IN  /\ At(o, "upload", "start") /\ Authorized(p)
      /\ \E r \in ProbeOf[p] : Upsert({r})
      /\ committed' = [committed EXCEPT ![p] = @ \union ProbeOf[p]]
      /\ Then(o, "upload")
      /\ UNCHANGED <<world, receipts, commands>>

\* A batch: acknowledged and then committed, or not committed.
UploadBatch(o) ==
  LET p == command[o].plan
  IN  /\ At(o, "upload", "upload")
      /\ \E b \in SUBSET (CorpusOf[p] \ committed[p]) \ {{}} :
           /\ Upsert(b)
           /\ \E c \in {{}, b} : committed' = [committed EXCEPT ![p] = @ \union c]
      /\ UNCHANGED <<world, receipts, command, commands>>

\* mutant: the report tells what was sent, not what was committed
ReportUpload_Sent(o) ==
  /\ At(o, "upload", "upload")
  /\ Write(o, "upload", "complete")
  /\ UNCHANGED <<world, collection, committed, commands>>

ReportUpload(o) ==
  LET p == command[o].plan
  IN  /\ At(o, "upload", "upload")
      /\ Write(o, "upload", IF committed[p] = CorpusOf[p] THEN "complete" ELSE "partial")
      /\ UNCHANGED <<world, collection, committed, commands>>

-----------------------------------------------------------------------------
(* finalize_structural_collection and verify_structural_collection         *)

\* _validate_pre_finalize_chain
Chained(p) == Probed(p) /\ Has(p, "upload", "complete")

RunFinalize(o, p) == Chained(p) /\ Run(o, "finalize", p)

Counted(p) == collection.built = "indexed" /\ Cardinality(collection.points) = N(p)

Activate(o) ==
  LET p == command[o].plan
  IN  /\ At(o, "finalize", "start")
      /\ \/ /\ collection.hnsw = 0 /\ Counted(p)
            /\ collection' = [collection EXCEPT !.hnsw = 16]
            /\ Then(o, "poll")
         \/ collection.hnsw = 16 /\ UNCHANGED collection /\ Then(o, "poll")
         \/ UNCHANGED collection /\ Then(o, "blocked")
      /\ UNCHANGED <<world, committed, receipts, commands>>

\* _validate_finalized_collection_readback in the poll that ends the waiting;
\* a receipt tells what it has seen.
Poll(o) ==
  LET p == command[o].plan
  IN  /\ At(o, "finalize", "poll")
      /\ \/ Counted(p) /\ collection.hnsw = 16 /\ See(o, "passed")
         \/ Then(o, "blocked")
      /\ UNCHANGED <<world, collection, committed, receipts, commands>>

RunVerify(o, p) == /\ Chained(p) /\ Has(p, "finalize", "pass") /\ corpus = CorpusOf[p]
                   /\ Run(o, "verify", p)

\* The schema and the count; then the payloads of a sample of the plan's.
ReadVerified(o) ==
  LET p == command[o].plan
  IN  /\ At(o, "verify", "start")
      /\ \/ Counted(p) /\ collection.hnsw = 16 /\ See(o, "sample")
         \/ Then(o, "blocked")
      /\ UNCHANGED <<world, collection, committed, receipts, commands>>

Sample(o) ==
  LET p == command[o].plan
  IN  /\ At(o, "verify", "sample")
      /\ \/ /\ \E s \in SUBSET CorpusOf[p] : s # {} /\ s \subseteq collection.points
            /\ Then(o, "passed")
         \/ Then(o, "blocked")
      /\ UNCHANGED <<world, collection, committed, receipts, commands>>

WriteOutcome(o) ==
  /\ command[o].name \in {"finalize", "verify"}
  /\ command[o].stage \in {"passed", "blocked"}
  /\ Write(o, command[o].name, IF command[o].stage = "passed" THEN "pass" ELSE "blocked")
  /\ UNCHANGED <<world, collection, committed, commands>>

-----------------------------------------------------------------------------
PilotStep(o) ==
  \/ Create(o) \/ CreateIndexes(o) \/ Adopt(o) \/ ReadCreated(o)
  \/ UpsertProbe(o) \/ ReadProbe(o) \/ BlockProbe(o)
  \/ Preflight(o) \/ UploadBatch(o) \/ ReportUpload(o)
  \/ Activate(o) \/ Poll(o) \/ ReadVerified(o) \/ Sample(o) \/ WriteOutcome(o)

RunAny(o, p) == \/ RunCreate(o, p) \/ RunProbe(o, p) \/ RunUpload(o, p)
                \/ RunFinalize(o, p) \/ RunVerify(o, p)

PilotNext ==
  \/ Change \/ ApplyPoints
  \/ \E p \in Plans : WritePlan(p)
  \/ \E o \in Operators : PilotStep(o) \/ \E p \in Plans : RunAny(o, p)

PilotSpec == PilotInit /\ [][PilotNext]_pilotVars

-----------------------------------------------------------------------------
PilotTypeOK ==
  /\ source \in Sources /\ corpus \subseteq Records
  /\ plans \in [Plans -> Sources \union {NoPlan}]
  /\ collection \in [built : {"absent", "bare", "indexed"}, accepted : SUBSET Records,
                     points : SUBSET Records, hnsw : {0, 16}]
  /\ committed \in [Plans -> SUBSET Records]
  /\ receipts \subseteq [plan : Plans, held : SUBSET Records, behind : BOOLEAN,
                         kind : {"create", "probe", "upload", "finalize", "verify"},
                         status : {"ok", "pass", "fail", "scope", "blocked", "complete",
                                   "partial"}]
  /\ command \in [Operators -> [name : {"none", "create", "probe", "upload", "finalize",
                                        "verify"},
                                plan : Plans \union {NoPlan}, held : SUBSET Records,
                                behind : BOOLEAN,
                                stage : {"start", "index", "read", "upload", "poll",
                                         "sample", "passed", "blocked", "done"}]]
  /\ commands \in 0..MaxCommands

\* The records that another plan, which adopted the empty collection too, may add.
Foreign(p) == {e \in Records : \E q \in Plans \ {p} :
                 Has(q, "create", "ok") /\ e \in CorpusOf[q] \ CorpusOf[p]}

Vouches(r) == \/ r.held = CorpusOf[r.plan]
              \/ r.behind /\ r.held \intersect Foreign(r.plan) # {}

(* A receipt that finalize or verify passed vouches for exactly the        *)
(* records of its plan, though only a count and a sample were read.  Two   *)
(* things together may spoil that, neither alone: the readback came before *)
(* all was applied, and another plan that had adopted the empty collection *)
(* made up the number.  And of a complete upload, which may have died,     *)
(* been refused and resumed, no record is missing from what Qdrant has     *)
(* accepted.                                                               *)
PassedVouches ==
  /\ \A r \in receipts :
       r.kind \in {"finalize", "verify"} /\ r.status = "pass" => Vouches(r)
  /\ \A p \in Plans : Has(p, "upload", "complete") => CorpusOf[p] \subseteq collection.accepted
===============================================================================
