---------------------------- MODULE LexicalIndex -----------------------------
(***************************************************************************)
(* The local stores: the content store that `prepare` builds from a        *)
(* verified snapshot (app/ingestion/content_store.py), and the index of    *)
(* titles that LegalFtsIndex builds from it (app/ingestion/legal_fts.py).  *)
(*                                                                         *)
(* An index is built in a file of its own, kept when the build stops and   *)
(* resumed by the next, and renamed when it is whole.  Nothing keeps two   *)
(* builds apart: they share the names of their files, and a process goes   *)
(* on in the file it has open after another deleted or renamed it.  Only   *)
(* the revision setting, not the store, says which dataset this is.        *)
(***************************************************************************)
EXTENDS Integers, FiniteSets

CONSTANTS Builders,           \* processes that build the index
          Revisions,          \* of the dataset
          Snapshots,          \* revision -> [metadata, contents, empty]: document ids
          ExpectedCount,      \* EXPECTED_DOCUMENT_COUNT
          IndexBatch,         \* batch_size
          MaxFiles,           \* bound: index files ever created
          MaxBuilds           \* bound: commands that build or prepare, and settings

ASSUME IndexAssumption ==
  /\ "" \notin Revisions /\ IndexBatch \in Nat \ {0} /\ MaxBuilds \in Nat
  /\ MaxFiles \in Nat \ {0}
  /\ \A v \in Revisions : \A ids \in {Snapshots[v].metadata, Snapshots[v].contents} :
       ids \subseteq Nat \ {0} /\ IsFiniteSet(ids)

IndexFiles == 1..MaxFiles

VARIABLES setting,            \* DATASET_REVISION
          prepared,           \* the revision the content store was built from
          named,              \* the file behind each name, 0 if there is none
          file,               \* what each file holds
          builder,            \* the build each process runs
          builds

indexVars == <<setting, prepared, named, file, builder, builds>>

\* rows, titles: documents and the revision of the store they were read from;
\* label: build_dataset_revision; whole, count: dataset_revision and document_count.
Blank == [body |-> FALSE, label |-> "", whole |-> "", count |-> 0, rows |-> {}, titles |-> {}]
NoBuild == [at |-> "idle", revision |-> "", on |-> 0, after |-> 0, inserted |-> 0]

-----------------------------------------------------------------------------
(* The content store                                                       *)

\* _validate_join
Joined(v) ==
  LET s == Snapshots[v]
  IN  /\ s.metadata = s.contents /\ s.empty = {}
      /\ Cardinality(s.metadata) = ExpectedCount

\* build_content_store works in a file that readers do not see until it is renamed.
PrepareStore ==
  /\ builds < MaxBuilds /\ builds' = builds + 1
  /\ Joined(setting) /\ prepared' = setting
  /\ UNCHANGED <<setting, named, file, builder>>

SetRevision ==
  /\ builds < MaxBuilds /\ builds' = builds + 1
  /\ setting' \in Revisions \ {setting}
  /\ UNCHANGED <<prepared, named, file, builder>>

StoreIds == Snapshots[prepared].metadata
\* joined_count of the build report; iter_document_ids
JoinedCount == Cardinality(StoreIds)
NextIds(after) ==
  LET rest == {d \in StoreIds : d > after}
  IN  {d \in rest : Cardinality({e \in rest : e < d}) < IndexBatch}

-----------------------------------------------------------------------------
(* The index                                                               *)

Index == file[named.index]
IdsOf(rows) == {row[1] : row \in rows}
\* mutant: the titles are not counted
IndexReady_Labelled(v) ==
  /\ named.index # 0 /\ ~Index.body
  /\ Index.whole = v /\ Index.count = JoinedCount

\* is_ready
IndexReady(v) ==
  /\ named.index # 0 /\ ~Index.body
  /\ Index.whole = v /\ Index.count = JoinedCount
  /\ Cardinality(IdsOf(Index.titles)) = JoinedCount

\* _has_complete_legacy_index, which an index without some titles passes too
LegacyComplete(v) ==
  /\ named.index # 0 /\ Index.whole = v /\ Index.count = JoinedCount
  /\ Cardinality(Index.rows) = JoinedCount

LegacyIndex(v, count) ==
  [Blank EXCEPT !.body = TRUE, !.whole = v, !.count = count,
     !.rows = Snapshots[v].metadata \X {v}]

\* The index an earlier version left, of a store that was whole.
IndexInit ==
  /\ \E v \in Revisions :
       /\ Joined(v) /\ setting = v /\ prepared = v
       /\ \/ named = [index |-> 0, building |-> 0, compacting |-> 0]
             /\ file = [f \in IndexFiles |-> Blank]
          \/ named = [index |-> 1, building |-> 0, compacting |-> 0]
             /\ \E count \in {ExpectedCount, ExpectedCount - 1} :
                  file = [f \in IndexFiles |-> IF f = 1 THEN LegacyIndex(v, count) ELSE Blank]
  /\ builder = [p \in Builders |-> NoBuild]
  /\ builds = 0

Proceeds(p, at) == builder' = [builder EXCEPT ![p].at = at]
Stops(p) == builder' = [builder EXCEPT ![p] = NoBuild]
\* The files that no name and no process has had.
Fresh == {f \in IndexFiles : file[f] = Blank /\ \A n \in DOMAIN named : named[n] # f}
         \ {builder[p].on : p \in Builders}
\* A new file; which of them is all one.
NewFile == {f \in Fresh : \A g \in Fresh : f <= g}
Held(p) == file[builder[p].on]
LastOf(ids) == CHOOSE d \in ids : \A e \in ids : e <= d

EnsureBuilt(p) ==
  /\ builder[p].at = "idle" /\ builds < MaxBuilds /\ builds' = builds + 1
  /\ ~IndexReady(setting)
  /\ builder' = [builder EXCEPT ![p] = [NoBuild EXCEPT !.at = "check", !.revision = setting]]
  /\ UNCHANGED <<setting, prepared, named, file>>

\* A file of that name is deleted first.
StartCompacting(p) ==
  /\ builder[p].at = "check" /\ LegacyComplete(builder[p].revision)
  /\ \E f \in NewFile : /\ named' = [named EXCEPT !.compacting = f]
                        /\ builder' = [builder EXCEPT ![p].at = "copy", ![p].on = f]
  /\ UNCHANGED <<setting, prepared, file, builds>>

\* _compact_legacy_index attaches what is the index by now, which may be its own file.
\* A crash is taken to leave nothing of its one transaction.
Copy(p) ==
  LET f == builder[p].on
      own == named.index = f
      rows == IF own THEN {} ELSE Index.rows
  IN  /\ builder[p].at = "copy" /\ named.index # 0
      /\ file' = [file EXCEPT ![f] = [Blank EXCEPT !.rows = rows, !.titles = rows,
           !.label = IF own THEN "" ELSE Index.label,
           !.whole = IF own THEN "" ELSE Index.whole,
           !.count = IF own THEN 0 ELSE Index.count]]
      /\ IF Cardinality(rows) = JoinedCount THEN Proceeds(p, "rename compacting") ELSE Stops(p)
      /\ UNCHANGED <<setting, prepared, named, builds>>

\* _build: the file is resumed, if it can be read and is of this revision.
OpenBuilding(p) ==
  LET v == builder[p].revision
      f == named.building
  IN  /\ builder[p].at = "check" /\ ~LegacyComplete(v)
      /\ \/ /\ f # 0 /\ file[f].label = v
            /\ builder' = [builder EXCEPT ![p].at = "insert", ![p].on = f,
                 ![p].after = IF file[f].rows = {} THEN 0 ELSE LastOf(IdsOf(file[f].rows)),
                 ![p].inserted = Cardinality(file[f].rows)]
            /\ UNCHANGED <<named, file>>
         \/ \E g \in NewFile :
               /\ named' = [named EXCEPT !.building = g]
               /\ file' = [file EXCEPT ![g].label = v]
               /\ builder' = [builder EXCEPT ![p].at = "insert", ![p].on = g]
      /\ UNCHANGED <<setting, prepared, builds>>

NextBatch(p) == NextIds(builder[p].after)
Conflicts(p) == NextBatch(p) \intersect IdsOf(Held(p).rows) # {}

\* One transaction; a document that is there already raises, and the build pauses.
InsertBatch(p) ==
  /\ builder[p].at = "insert" /\ NextBatch(p) # {}
  /\ IF Conflicts(p) THEN Stops(p) /\ UNCHANGED file
     ELSE /\ file' = [file EXCEPT ![builder[p].on].rows = @ \union (NextBatch(p) \X {prepared}),
                                  ![builder[p].on].titles = @ \union (NextBatch(p) \X {prepared})]
          /\ builder' = [builder EXCEPT ![p].after = LastOf(NextBatch(p)),
                                        ![p].inserted = @ + Cardinality(NextBatch(p))]
  /\ UNCHANGED <<setting, prepared, named, builds>>

\* The metadata is written before the integrity check, which may fail.
Seal(p) ==
  /\ builder[p].at = "insert" /\ NextBatch(p) = {}
  /\ IF builder[p].inserted # JoinedCount THEN Stops(p) /\ UNCHANGED file
     ELSE /\ file' = [file EXCEPT ![builder[p].on].whole = builder[p].revision,
                                  ![builder[p].on].count = builder[p].inserted]
          /\ Proceeds(p, "rename building") \/ Stops(p)
  /\ UNCHANGED <<setting, prepared, named, builds>>

\* os.replace takes whatever file has the name, which may be another's.
Rename(p, name) ==
  /\ builder[p].at = IF name = "building" THEN "rename building" ELSE "rename compacting"
  /\ named' = IF named[name] = 0 THEN named
              ELSE [named EXCEPT !.index = named[name], ![name] = 0]
  /\ Stops(p)
  /\ UNCHANGED <<setting, prepared, file, builds>>

\* journal_mode=MEMORY, synchronous=OFF: a batch that is cut short may be there in part.
CrashBuild(p) ==
  /\ builder[p].at # "idle" /\ Stops(p)
  /\ \/ UNCHANGED file
     \/ /\ builder[p].at = "insert" /\ ~Conflicts(p)
        /\ \E rows, titles \in SUBSET NextBatch(p) :
             file' = [file EXCEPT ![builder[p].on].rows = @ \union (rows \X {prepared}),
                                  ![builder[p].on].titles = @ \union (titles \X {prepared})]
  /\ UNCHANGED <<setting, prepared, named, builds>>

IndexNext ==
  \/ PrepareStore \/ SetRevision
  \/ \E p \in Builders :
       \/ EnsureBuilt(p) \/ StartCompacting(p) \/ Copy(p) \/ OpenBuilding(p)
       \/ InsertBatch(p) \/ Seal(p) \/ CrashBuild(p)
       \/ \E name \in {"building", "compacting"} : Rename(p, name)

IndexSpec == IndexInit /\ [][IndexNext]_indexVars

-----------------------------------------------------------------------------
(* An index that searches use has every document of the store and its      *)
(* title, after any crash, resumption, compaction or race of two builds,   *)
(* if what it holds was read from a store of the revision the setting      *)
(* names.                                                                  *)
ReadyIsWhole ==
  (/\ IndexReady(setting) /\ prepared = setting
   /\ \A row \in Index.rows \union Index.titles : row[2] = setting)
    => IdsOf(Index.rows) = StoreIds /\ IdsOf(Index.titles) = StoreIds
===============================================================================
