--------------------------- MODULE VertexMigration ---------------------------
(***************************************************************************)
(* run_vertex_qdrant_migration.py and app/ingestion/                       *)
(* vertex_qdrant_migration.py: a sample of the documents, cut into         *)
(* records, is uploaded to a collection of its own.  A checkpoint file     *)
(* lists the records Qdrant has taken, and a later command skips them.     *)
(*                                                                         *)
(* The name of the collection and of the file are settings, so commands    *)
(* may share either.  A file is bound to what its first command was set    *)
(* to, not to the collection: when that is deleted the file still lists    *)
(* its records.  A dry run changes nothing.                                *)
(***************************************************************************)
EXTENDS Integers, FiniteSets, Sequences, Collections

CONSTANTS Migrators,          \* who runs commands
          Ledgers,            \* checkpoint files
          Invocations,        \* settings and arguments a command may have
          ByType,             \* legal type -> its documents, by their ids
          ChunksOf,           \* the number of chunks of each document, by its id
          Flawed,             \* documents whose quality flags exclude them
          VertexBatch,        \* --batch-size
          MaxMigrations,      \* bound: commands
          MaxDrops            \* bound: deletions of the collection

ASSUME MigrationAssumption ==
  /\ VertexBatch \in Nat \ {0} /\ {MaxMigrations, MaxDrops} \subseteq Nat
  /\ \A v \in Invocations :
       /\ {v.limit, v.per_document, v.max_points, v.size} \subseteq Nat \ {0}
       /\ v.file \in Ledgers
       /\ v.types \in Seq(DOMAIN ByType) /\ IsFiniteSet(v.excluded)
       /\ \A j, k \in DOMAIN v.types : v.types[j] = v.types[k] => j = k
  /\ ChunksOf \in Seq(Nat) /\ \A d \in DOMAIN ChunksOf \ Flawed : ChunksOf[d] # 0
  /\ \A t \in DOMAIN ByType : ByType[t] \in Seq(DOMAIN ChunksOf)
  \* A document has one type, and comes once.
  /\ \A s, t \in DOMAIN ByType : \A i \in DOMAIN ByType[s], j \in DOMAIN ByType[t] :
       ByType[s][i] = ByType[t][j] => s = t /\ i = j

VARIABLES vertex,             \* the collection: size 0 before it is created
          ledger,             \* what each file is bound to, and lists
          migration,          \* the command of each migrator
          drops, migrations

vertexVars == <<vertex, ledger, migration, drops, migrations>>

Absent == [size |-> 0, model |-> <<>>]      \* model: record -> who embedded it
Unbound == [model |-> "", size |-> 0]
NoMigration == [at |-> "none", by |-> CHOOSE v \in Invocations : TRUE,
                planned |-> <<>>, pending |-> <<>>]

MigrationInit ==
  /\ vertex = Absent
  /\ ledger = [f \in Ledgers |-> [bound |-> Unbound, listed |-> {}, doubtful |-> FALSE]]
  /\ migration = [o \in Migrators |-> NoMigration]
  /\ drops = 0 /\ migrations = 0

-----------------------------------------------------------------------------
(* What a command plans to upload                                          *)

FirstOf(s, n) == SubSeq(s, 1, IF n < Len(s) THEN n ELSE Len(s))
PageLimit(v) == v.limit + Cardinality(v.excluded)

Offered(sample, d, v) ==
  IF d \in v.excluded \/ Cardinality(sample) = v.limit THEN sample ELSE sample \union {d}

\* select_diverse_document_ids: a page of each type, and the pages row by row.
RowOffered(sample, i, v) ==
  LET after[k \in 0..Len(v.types)] ==
        IF k = 0 THEN sample
        ELSE IF i <= Len(ByType[v.types[k]])
             THEN Offered(after[k - 1], ByType[v.types[k]][i], v) ELSE after[k - 1]
  IN  after[Len(v.types)]
Diverse(v) ==
  LET rows[i \in 0..PageLimit(v)] == IF i = 0 THEN {} ELSE RowOffered(rows[i - 1], i, v)
  IN  rows[PageLimit(v)]

\* round() of a / b: a half goes to the even neighbour.
Rounded(a, b) ==
  LET q == a \div b
      odd == q % 2
  IN  IF 2 * (a % b) + odd > b THEN q + 1 ELSE q

\* select_evenly_spaced_chunks, of n chunks
Spread(n, limit) ==
  IF n <= limit THEN [i \in 1..n |-> i - 1]
  ELSE IF limit = 1 THEN <<0>>
  ELSE [i \in 1..limit |-> Rounded((i - 1) * (n - 1), limit - 1)]

\* build_vertex_records; a record's id is of its document, its place and its text.
RecordsOf(d, v) ==
  LET chosen == Spread(ChunksOf[d], v.per_document)
  IN  IF d \in Flawed THEN <<>> ELSE [i \in DOMAIN chosen |-> <<d, i, chosen[i]>>]

\* By ascending ids.
PlannedRecords(v) ==
  LET sample == Diverse(v)
      upTo[d \in 0..Len(ChunksOf)] ==
        IF d = 0 THEN <<>>
        ELSE IF d \in sample THEN upTo[d - 1] \o RecordsOf(d, v) ELSE upTo[d - 1]
  IN  FirstOf(upTo[Len(ChunksOf)], v.max_points)

-----------------------------------------------------------------------------
(* A command                                                               *)

Stands(o, at) == migration[o].at = at
Moves(o, at) == migration' = [migration EXCEPT ![o].at = at]
Fails(o) == Moves(o, "failed")
Running(o) == migration[o].at \notin {"none", "failed", "reported"}
BindingOf(v) == [model |-> v.model, size |-> v.size]

PlanUpload(o) ==
  /\ ~Running(o) /\ migrations < MaxMigrations
  /\ \E v \in Invocations :
       migration' = [migration EXCEPT ![o] =
         [NoMigration EXCEPT !.at = "planned", !.by = v, !.planned = PlannedRecords(v)]]
  /\ migrations' = migrations + 1
  /\ UNCHANGED <<vertex, ledger, drops>>

\* ensure_migration_collection: of the two models only the size of their vectors is seen.
FindCollection(o) ==
  /\ Stands(o, "planned")
  /\ IF vertex.size = migration[o].by.size THEN Moves(o, "ensured")
     ELSE IF vertex.size = 0 /\ migration[o].by.create THEN Moves(o, "create")
     ELSE Fails(o)
  /\ UNCHANGED <<vertex, ledger, drops, migrations>>

CreateCollection(o) ==
  /\ Stands(o, "create")
  /\ IF vertex.size = 0
     THEN vertex' = [Absent EXCEPT !.size = migration[o].by.size] /\ Moves(o, "ensured")
     ELSE Fails(o) /\ UNCHANGED vertex
  /\ UNCHANGED <<ledger, drops, migrations>>

\* missing_record_ids
Missing(s, listed) ==
  LET upTo[i \in 0..Len(s)] ==
        IF i = 0 THEN <<>> ELSE IF s[i] \in listed THEN upTo[i - 1] ELSE Append(upTo[i - 1], s[i])
  IN  upTo[Len(s)]

\* MigrationCheckpoint
OpenLedger(o) ==
  LET v == migration[o].by
      file == ledger[v.file]
      missing == Missing(migration[o].planned, file.listed)
  IN  /\ Stands(o, "ensured")
      /\ IF file.bound \in {Unbound, BindingOf(v)}
         THEN /\ ledger' = [ledger EXCEPT ![v.file].bound = BindingOf(v)]
              /\ migration' = [migration EXCEPT ![o].at = "upload", ![o].pending = missing]
         ELSE Fails(o) /\ UNCHANGED ledger
      /\ UNCHANGED <<vertex, drops, migrations>>

PendingBatch(o) == FirstOf(migration[o].pending, VertexBatch)
\* The batch with the vectors of the command's model: a record's point is replaced.
Written(o) ==
  [vertex EXCEPT !.model = [r \in DOMAIN vertex.model \union SeqExt!ToSet(PendingBatch(o)) |->
     IF r \in SeqExt!ToSet(PendingBatch(o)) THEN migration[o].by.model ELSE vertex.model[r]]]

\* A call that fails may have been applied.
UpsertPending(o) ==
  /\ Stands(o, "upload") /\ migration[o].pending # <<>>
  /\ \/ /\ vertex.size = migration[o].by.size
        /\ vertex' = Written(o) /\ Moves(o, "sent")
     \/ /\ vertex.size = migration[o].by.size
        /\ vertex' = Written(o) /\ Fails(o)
     \/ Fails(o) /\ UNCHANGED vertex
  /\ UNCHANGED <<ledger, drops, migrations>>

\* mutant: the file lists every record that was pending
Acknowledged_All(o) == SeqExt!ToSet(migration[o].pending)

Acknowledged(o) == SeqExt!ToSet(PendingBatch(o))

AcknowledgeBatch(o) ==
  /\ Stands(o, "sent")
  /\ ledger' = [ledger EXCEPT ![migration[o].by.file].listed = @ \union Acknowledged(o)]
  /\ migration' = [migration EXCEPT ![o].at = "upload",
       ![o].pending = SubSeq(@, Len(PendingBatch(o)) + 1, Len(@))]
  /\ UNCHANGED <<vertex, drops, migrations>>

\* The count of the points is asked for last.
ReportUploaded(o) ==
  /\ Stands(o, "upload") /\ migration[o].pending = <<>>
  /\ IF vertex.size = 0 THEN Fails(o) ELSE Moves(o, "reported")
  /\ UNCHANGED <<vertex, ledger, drops, migrations>>

Dies(o) ==
  /\ Running(o) /\ Fails(o)
  /\ UNCHANGED <<vertex, ledger, drops, migrations>>

\* `doubtful` marks for the property the files whose records, listed or under way, it had.
DropCollection ==
  /\ vertex.size # 0 /\ drops < MaxDrops
  /\ vertex' = Absent /\ drops' = drops + 1
  /\ ledger' = [f \in Ledgers |-> [ledger[f] EXCEPT !.doubtful =
       @ \/ ledger[f].listed # {} \/ \E o \in Migrators : Running(o) /\ migration[o].by.file = f]]
  /\ UNCHANGED <<migration, migrations>>

MigrationNext ==
  \/ DropCollection
  \/ \E o \in Migrators :
       \/ PlanUpload(o) \/ FindCollection(o) \/ CreateCollection(o) \/ OpenLedger(o)
       \/ UpsertPending(o) \/ AcknowledgeBatch(o) \/ ReportUploaded(o) \/ Dies(o)

MigrationSpec == MigrationInit /\ [][MigrationNext]_vertexVars

-----------------------------------------------------------------------------
(* Unless the collection was deleted meanwhile, a record that a file lists *)
(* has a point there, of the model the file is bound to or of one another  *)
(* file is bound to.                                                       *)
ListedIsHeld ==
  \A f \in Ledgers : ~ledger[f].doubtful => \A r \in ledger[f].listed :
    /\ r \in DOMAIN vertex.model
    /\ vertex.model[r] \in {ledger[g].bound.model : g \in Ledgers}
    /\ (\A g \in Ledgers : \/ ledger[g].bound = Unbound
                           \/ ledger[g].bound.model = ledger[f].bound.model)
         => vertex.model[r] = ledger[f].bound.model

\* As many documents as there are, up to the limit; and no legal type ahead of another
\* by more than one and those the other had excluded, while that one has more to give.
Balanced(v) ==
  LET selected == Diverse(v)
      Types == SeqExt!ToSet(v.types)
      Has(t) == SeqExt!ToSet(ByType[t]) \ v.excluded
      Lost(t) == Cardinality(SeqExt!ToSet(ByType[t]) \intersect v.excluded)
      Given(t) == Cardinality(Has(t) \intersect selected)
      available == Cardinality(UNION {Has(t) : t \in Types})
  IN  /\ Cardinality(selected) = IF available < v.limit THEN available ELSE v.limit
      /\ \A s, t \in Types : Given(s) <= Given(t) + Lost(t) + 1 \/ Has(t) \subseteq selected

(* A command that reports has uploaded, or skipped as uploaded, all it     *)
(* planned: a balanced choice of documents, each from its first chunk to   *)
(* its last, under any interleaving with another command, a crash, or a    *)
(* batch whose answer was lost; only a deletion of the collection that the *)
(* checkpoint does not see excuses it.                                     *)
MigratedWhole ==
  /\ ListedIsHeld
  /\ \A o \in Migrators : Stands(o, "reported") =>
       LET v == migration[o].by
           held == DOMAIN vertex.model
       IN  /\ SeqExt!ToSet(migration[o].planned) \subseteq ledger[v.file].listed
           /\ Balanced(v)
           /\ ~ledger[v.file].doubtful /\ Len(migration[o].planned) < v.max_points =>
                \A d \in Diverse(v) \ Flawed :
                  /\ \E r \in held : r[1] = d /\ r[3] = 0
                  /\ v.per_document > 1 => \E r \in held : r[1] = d /\ r[3] = ChunksOf[d] - 1
===============================================================================
