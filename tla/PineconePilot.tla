---------------------------- MODULE PineconePilot ----------------------------
(***************************************************************************)
(* The pilot of a structural index in a Pinecone namespace: audit, upload  *)
(* and verify of run_pinecone_structural_pilot.py with app/ingestion/      *)
(* structural_pinecone.py, and run_pinecone_structural_canary.py.          *)
(*                                                                         *)
(* A plan is the manifest of the records the content store gave, which is  *)
(* their ids; `text` is the version of the code that writes the text to be *)
(* embedded, which the manifest leaves out and the checkpoint does not.    *)
(* Waves of batches are upserted by threads, the main thread commits those *)
(* that succeed.  The namespace is shared by all plans and nothing in it   *)
(* is deleted; a batch that is acknowledged is counted and found from then *)
(* on, one that failed may be there too.                                   *)
(***************************************************************************)
EXTENDS Integers, Sequences, FiniteSets

CONSTANTS Pilots,             \* operators, one command each at a time
          Corpora, IdsIn,     \* what the content store may hold: ids of its records in order
          TextVersions,
          BatchRecords, Workers,  \* batch_size, max_workers of the contract
          Samples,            \* records that verify looks up, 16
          Canaries,           \* questions of known documents, 64
          Ledgers,            \* checkpoint files
          MaxPilotCommands    \* bound: commands and changes of the corpus or the code

ASSUME PineconeAssumption ==
  /\ \A c \in Corpora :
       /\ IdsIn[c] = [i \in 1..Len(IdsIn[c]) |-> IdsIn[c][i]]
       /\ Len(IdsIn[c]) \in Nat \ {0}
       /\ \A i, j \in DOMAIN IdsIn[c] : IdsIn[c][i] = IdsIn[c][j] => i = j
  /\ {BatchRecords, Workers, MaxPilotCommands} \subseteq Nat \ {0}
  /\ Samples \in Nat \ {0, 1} /\ IsFiniteSet(Canaries) /\ Canaries # {}

VARIABLES
  local,          \* [corpus, text]: the content store and the code
  audited,        \* manifests that were audited
  ledgers,        \* file -> its binding, what was committed with which text
  namespace,      \* record id -> text it was last upserted with
  pilot,          \* the command of each operator
  uploads,        \* upload reports
  verifications,  \* verification reports
  canaries,       \* canary reports
  pilotCommands

pineconeVars == <<local, audited, ledgers, namespace, pilot, uploads, verifications, canaries,
                  pilotCommands>>

NoLedger == [plan |-> << >>, committed |-> << >>, torn |-> FALSE]
NoPilot == [at |-> "idle", plan |-> << >>, ledger |-> "", text |-> "", skip |-> << >>,
            next |-> 1, sample |-> << >>, flying |-> {}, done |-> {}, failed |-> FALSE, torn |-> FALSE]

RecordsOf(plan) == {plan[i] : i \in DOMAIN plan}

\* Plans may have been audited before, and uploads with other files have left
\* some records.
PineconeInit ==
  /\ local \in [corpus : Corpora, text : TextVersions]
  /\ audited \in SUBSET {IdsIn[c] : c \in Corpora}
  /\ uploads = {} /\ verifications = {} /\ canaries = {}
  /\ ledgers = [f \in Ledgers |-> NoLedger]
  /\ \E left \in SUBSET UNION {RecordsOf(IdsIn[c]) : c \in Corpora} :
       IsFiniteSet(left) /\ namespace \in [left -> TextVersions]
  /\ pilot = [o \in Pilots |-> NoPilot]
  /\ pilotCommands = 0

Manifest == IdsIn[local.corpus]
Puts(o, p) == pilot' = [pilot EXCEPT ![o] = p]
SpendCommand == pilotCommands < MaxPilotCommands /\ pilotCommands' = pilotCommands + 1
\* An upsert by id: the last text wins.
WithText(ids, text, records) ==
  [r \in ids \union DOMAIN records |-> IF r \in ids THEN text ELSE records[r]]

\* A file of plans; the tree's provenance is recorded in it and never compared.
Audit ==
  /\ SpendCommand /\ Manifest \notin audited
  /\ audited' = audited \union {Manifest}
  /\ UNCHANGED <<local, ledgers, namespace, pilot, uploads, verifications, canaries>>

-----------------------------------------------------------------------------
(* The upload                                                              *)

\* The checks of the plan and the live index, before any write.
OpenUpload(o) == \E f \in Ledgers :
  /\ pilot[o].at = "idle" /\ SpendCommand
  /\ Manifest \in audited
  /\ Puts(o, [NoPilot EXCEPT !.at = "bind", !.plan = Manifest, !.ledger = f, !.text = local.text])
  /\ UNCHANGED <<local, audited, ledgers, namespace, uploads, verifications, canaries>>

\* PineconeStructuralCheckpoint; what is committed is read once.
BindLedger(o) ==
  LET p == pilot[o]
      ledger == ledgers[p.ledger]
  IN  /\ p.at = "bind"
      /\ IF ledger.plan \in {<< >>, p.plan}
         THEN /\ ledgers' = [ledgers EXCEPT ![p.ledger].plan = p.plan]
              /\ Puts(o, [p EXCEPT !.at = "wave", !.skip = ledger.committed])
         ELSE UNCHANGED ledgers /\ Puts(o, NoPilot)   \* checkpoint binding mismatch
      /\ UNCHANGED <<local, audited, namespace, uploads, verifications, canaries, pilotCommands>>

\* The records are read from the content store again, as the waves need them.
Unread(p) == {i \in DOMAIN Manifest : p.next <= i}
Pending(p) == {i \in Unread(p) : Manifest[i] \notin DOMAIN p.skip}
\* iter_pending gives up at a record that is committed with another text.
Mismatched(p) ==
  {i \in Unread(p) : Manifest[i] \in DOMAIN p.skip /\ p.skip[Manifest[i]] # p.text}
\* As far as they are read to fill the wave.
Reached(p) ==
  LET n == BatchRecords * Workers
  IN  IF Cardinality(Pending(p)) < n THEN Len(Manifest)
      ELSE CHOOSE i \in Pending(p) : Cardinality({j \in Pending(p) : j <= i}) = n
\* _record_batches: the records at these places in batches of BatchRecords.
BatchesOf(places) ==
  LET turn(i) == Cardinality({j \in places : j < i}) \div BatchRecords
  IN  {{Manifest[j] : j \in {k \in places : turn(k) = turn(i)}} : i \in places}

StartWave(o) ==
  LET p == pilot[o]
  IN  /\ p.at = "wave" /\ Pending(p) # {}
      /\ ledgers' = [ledgers EXCEPT ![p.ledger].torn = @ \/ Manifest # p.plan]
      /\ Puts(o, IF \E i \in Mismatched(p) : i <= Reached(p) THEN NoPilot
                 ELSE [p EXCEPT !.at = "fly", !.next = Reached(p) + 1,
                   !.flying = BatchesOf({i \in Pending(p) : i <= Reached(p)})])
      /\ UNCHANGED <<local, audited, namespace, uploads, verifications, canaries, pilotCommands>>

\* _upsert_batch: acknowledged at one of 30 attempts, or given up.
Upsert(o) == \E batch \in pilot[o].flying :
  /\ pilot[o].at \in {"fly", "wait"}
  /\ \/ /\ namespace' = WithText(batch, pilot[o].text, namespace)
        /\ Puts(o, [pilot[o] EXCEPT !.flying = @ \ {batch}, !.done = @ \union {batch}])
     \/ /\ namespace' \in {namespace, WithText(batch, pilot[o].text, namespace)}
        /\ Puts(o, [pilot[o] EXCEPT !.flying = @ \ {batch}, !.failed = TRUE])
  /\ UNCHANGED <<local, audited, ledgers, uploads, verifications, canaries, pilotCommands>>

\* mutant: a batch is committed as soon as it is submitted
Committable_Flying(o) == pilot[o].flying \union pilot[o].done
\* as_completed: a batch whose upsert was acknowledged.
Committable(o) == pilot[o].done

\* commit, in a transaction; a record that another upload committed with another
\* text makes it fail, and the command with it.
CommitWave(o) == \E batch \in Committable(o) :
  LET p == pilot[o]
      committed == ledgers[p.ledger].committed
  IN  /\ p.at = "fly"
      /\ IF \A r \in batch \intersect DOMAIN committed : committed[r] = p.text
         THEN /\ ledgers' = [ledgers EXCEPT ![p.ledger].committed = WithText(batch, p.text, @)]
              /\ Puts(o, [p EXCEPT !.done = @ \ {batch}, !.flying = @ \ {batch}])
         ELSE UNCHANGED ledgers /\ Puts(o, [p EXCEPT !.at = "wait"])
      /\ UNCHANGED <<local, audited, namespace, uploads, verifications, canaries, pilotCommands>>

\* A failed future is met before or after those that are done; the executor
\* waits for the others, which are not committed any more.
MeetFailure(o) ==
  /\ pilot[o].at = "fly" /\ pilot[o].failed
  /\ Puts(o, [pilot[o] EXCEPT !.at = "wait"])
  /\ UNCHANGED <<local, audited, ledgers, namespace, uploads, verifications, canaries, pilotCommands>>
LeaveWave(o) ==
  /\ pilot[o].at = "wait" /\ pilot[o].flying = {}
  /\ Puts(o, NoPilot)
  /\ UNCHANGED <<local, audited, ledgers, namespace, uploads, verifications, canaries, pilotCommands>>
NextWave(o) ==
  /\ pilot[o].at = "fly" /\ pilot[o].flying = {} /\ pilot[o].done = {} /\ ~pilot[o].failed
  /\ Puts(o, [pilot[o] EXCEPT !.at = "wave"])
  /\ UNCHANGED <<local, audited, ledgers, namespace, uploads, verifications, canaries, pilotCommands>>

\* The report, if the checkpoint holds as many records as the plan.
FinishUpload(o) ==
  LET p == pilot[o]
      ledger == ledgers[p.ledger]
      complete == Cardinality(DOMAIN ledger.committed) = Len(p.plan)
  IN  /\ p.at = "wave" /\ Pending(p) = {}
      /\ uploads' = IF complete /\ Mismatched(p) = {}
                    THEN uploads \union {[plan |-> p.plan, torn |-> ledger.torn]} ELSE uploads
      /\ Puts(o, NoPilot)
      /\ UNCHANGED <<local, audited, ledgers, namespace, verifications, canaries, pilotCommands>>

-----------------------------------------------------------------------------
(* The verification and the canary                                         *)

\* round(index * (record_count - 1) / 15): a half goes to the even neighbour.
Positions(n) ==
  {LET up == 2 * i * (n - 1) + (Samples - 1)
       twice == 2 * (Samples - 1)
   IN  1 + (IF up % twice = 0 /\ (up \div twice) % 2 = 1 THEN up \div twice - 1 ELSE up \div twice)
     : i \in 0..(Samples - 1)}

\* The samples are records that the content store gives now.
OpenVerify(o) == \E u \in uploads :
  /\ pilot[o].at = "idle" /\ SpendCommand
  /\ Positions(Len(u.plan)) \subseteq DOMAIN Manifest
  /\ Puts(o, [NoPilot EXCEPT !.at = "count", !.plan = u.plan, !.text = local.text,
                !.torn = u.torn, !.sample = [i \in Positions(Len(u.plan)) |-> Manifest[i]]])
  /\ UNCHANGED <<local, audited, ledgers, namespace, uploads, verifications, canaries>>

\* The count of the namespace is compared, then each sample by its id and hashes.
CountNamespace(o) ==
  LET p == pilot[o]
  IN  /\ p.at = "count"
      /\ Puts(o, IF Cardinality(DOMAIN namespace) = Len(p.plan)
                 THEN [p EXCEPT !.at = "sample", !.done = DOMAIN namespace] ELSE NoPilot)
      /\ UNCHANGED <<local, audited, ledgers, namespace, uploads, verifications, canaries, pilotCommands>>

\* `held`, of the ids that were counted, is not in the report.
LookUpSamples(o) ==
  LET p == pilot[o]
      found == \A i \in DOMAIN p.sample :
                 p.sample[i] \in DOMAIN namespace /\ namespace[p.sample[i]] = p.text
  IN  /\ p.at = "sample"
      /\ verifications' = IF found
           THEN verifications \union {[plan |-> p.plan, torn |-> p.torn, held |-> p.done]}
           ELSE verifications
      /\ Puts(o, NoPilot)
      /\ UNCHANGED <<local, audited, ledgers, namespace, uploads, canaries, pilotCommands>>

\* evaluate_pinecone_canaries: errors block, and nine of ten documents must be found.
CanaryStatus(outcome) ==
  LET hits == {c \in Canaries : outcome[c] = "found"}
  IN  IF \E c \in Canaries : outcome[c] = "error" THEN "BLOCKED_TECHNICAL"
      ELSE IF 10 * Cardinality(hits) >= 9 * Cardinality(Canaries) THEN "PASS_CANARY"
      ELSE "FAIL_CANARY"

\* The canary compares the manifest of the content store again.
RunCanary == \E v \in verifications, outcome \in [Canaries -> {"found", "missed", "error"}] :
  /\ SpendCommand /\ v.plan = Manifest
  /\ canaries' = canaries \union {[status |-> CanaryStatus(outcome), verification |-> v]}
  /\ UNCHANGED <<local, audited, ledgers, namespace, pilot, uploads, verifications>>

-----------------------------------------------------------------------------
(* Kills, and what changes beside the commands                             *)

\* Threads that were upserting may have been heard.
KillPilot(o) == \E heard \in SUBSET pilot[o].flying :
  /\ pilot[o].at # "idle" /\ Puts(o, NoPilot)
  /\ namespace' = WithText(UNION heard, pilot[o].text, namespace)
  /\ UNCHANGED <<local, audited, ledgers, uploads, verifications, canaries, pilotCommands>>

ChangeLocal ==
  /\ SpendCommand
  /\ local' \in [corpus : Corpora, text : TextVersions] \ {local}
  /\ UNCHANGED <<audited, ledgers, namespace, pilot, uploads, verifications, canaries>>

PineconeNext ==
  \/ Audit \/ RunCanary \/ ChangeLocal
  \/ \E o \in Pilots :
       \/ OpenUpload(o) \/ BindLedger(o) \/ StartWave(o) \/ Upsert(o) \/ CommitWave(o)
       \/ MeetFailure(o) \/ LeaveWave(o) \/ NextWave(o) \/ FinishUpload(o)
       \/ OpenVerify(o) \/ CountNamespace(o) \/ LookUpSamples(o) \/ KillPilot(o)

PineconeSpec == PineconeInit /\ [][PineconeNext]_pineconeVars

-----------------------------------------------------------------------------
(* Properties                                                              *)

\* A verification, and a canary after it, is of a namespace that held exactly
\* the records of the plan, though records of another plan may lie there, only
\* a few are looked up, waves fail in part, uploads are killed, resumed, run side
\* by side and with other code, and upserts given up may have been applied.
\* Uploads that read another corpus than they had checked are left out
\* (_upload, _verify of run_pinecone_structural_pilot.py).
VerifiedNamespace ==
  \A v \in verifications \union {c.verification : c \in canaries} :
    ~v.torn => v.held = RecordsOf(v.plan)
=============================================================================
