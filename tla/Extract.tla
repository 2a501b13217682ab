------------------------------- MODULE Extract -------------------------------
(***************************************************************************)
(* tools/extract_training_data.py: extractions of some tables of the lake  *)
(* to files and a manifest in one output directory, while the nightly      *)
(* writer upserts, maintenance compacts and expires, apply-views creates   *)
(* the contract views and a reset purges.                                  *)
(*                                                                         *)
(* A batch here is one version of a row: load n writes the row KeyOf[n]    *)
(* anew.  A row count stands for the versions counted.                     *)
(***************************************************************************)
EXTENDS Lake

CONSTANTS
  ExtractTables,       \* --tables, as given
  KeyOf,               \* the primary key of the row that each load writes
  RetentionThreshold,  \* of expire_snapshots, 7d
  MaxRuns              \* bound on extractions

ASSUME ExtractAssumption ==
  /\ ExtractTables \in Seq(Tables) /\ ExtractTables # <<>>
  /\ DOMAIN KeyOf = Id
  /\ RetentionThreshold \in Nat /\ MaxRuns \in Nat

VARIABLES
  views,      \* the tables with a contract view
  at,         \* where the extraction is
  index,      \* of the table it works on, in ExtractTables
  result,     \* the TableResult being put together
  pinned,     \* the files of the snapshot COPY reads
  output,     \* <table>.parquet: the batches in it
  results,    \* the finished TableResults, in order
  manifest,   \* manifest.json: table -> TableResult
  viewsAtStart, purged,  \* history: views at its start, tables purged since
  runs        \* number of extractions so far

envVars == <<lakeVars, views>>
processVars == <<at, index, result, pinned, output, results, manifest>>
extractVars == <<envVars, processVars, viewsAtStart, purged, runs>>

Ended == {"idle", "done", "failed"}

(* History: cause is why the contract schema could not be read, holds and  *)
(* since are what the recorded snapshot holds and when it was committed.   *)
TableResult == [schema : {"none", "contract", "alice"},
                cause : {"none", "missing", "unreadable"},
                reason : {"none", "exists", "not found", "undetermined"},
                rows : SUBSET Id, snapshot : {0} \cup Id, holds : SUBSET Id,
                since : {0} \cup Time]
NoResult == [schema |-> "none", cause |-> "none", reason |-> "none", rows |-> {},
             snapshot |-> 0, holds |-> {}, since |-> 0]

ExtractTypeOK ==
  /\ LakeTypeOK
  /\ views \subseteq Tables /\ viewsAtStart \subseteq views /\ purged \subseteq Tables
  /\ at \in Ended \cup {"contract", "alice", "reason", "copy", "write", "snapshot",
                     "manifest"}
  /\ index \in DOMAIN ExtractTables
  /\ result \in TableResult /\ pinned \subseteq File
  /\ output \in [Tables -> SUBSET Id]
  /\ results \in Seq(TableResult)
  /\ DOMAIN manifest \subseteq Tables
  /\ runs \in 0..MaxRuns

ExtractInit ==
  /\ LakeInit
  /\ views = {} /\ viewsAtStart = {} /\ purged = {}
  /\ at = "idle" /\ index = 1 /\ result = NoResult /\ pinned = {}
  /\ output = [t \in Tables |-> {}]
  /\ results = <<>> /\ manifest = <<>> /\ runs = 0

-----------------------------------------------------------------------------
(* Around the extraction; Maintenance has these steps in full.             *)

(* A nightly load upserts a row by its primary key.  The merge rewrites    *)
(* the files that hold an earlier version of it, without that version.     *)
Commit(t) ==
  LET touched == {f \in CurrentFiles(t) : \E b \in f.holds : KeyOf[b] = KeyOf[nextFile]}
      kept == {b \in UNION {f.holds : f \in touched} : KeyOf[b] # KeyOf[nextFile]}
      file == NewFile({nextFile} \cup kept)
  IN
  /\ nextFile <= MaxFiles
  /\ Upload(t, file)
  /\ Commits(t, "append", nextFile, (CurrentFiles(t) \ touched) \cup {file})
  /\ lastAppend' = [lastAppend EXCEPT ![t] = now]
  /\ UNCHANGED <<now, views, purged>>

(* optimize rewrites the files of the current snapshot into one.           *)
Compact(t) ==
  LET all == NewFile(UNION {f.holds : f \in CurrentFiles(t)}) IN
  /\ Cardinality(CurrentFiles(t)) > 1
  /\ Upload(t, all)
  /\ Commits(t, "replace", nextFile, {all})
  /\ UNCHANGED <<now, lastAppend, views, purged>>

(* mutant: expire_snapshots without its retention_threshold *)
NoThreshold == now
Cutoff == now - RetentionThreshold

(* expire_snapshots takes the snapshots, and the files that only those had *)
(* or none: maintenance.py finds it to be metadata-only as deployed.       *)
ExpireOld(t) ==
  LET gone == Expirable(t, Cutoff)
      kept == UNION {s.files : s \in snapshots[t] \ gone}
      dropped == (UNION {s.files : s \in gone}) \ kept
  IN
  /\ gone # {}
  /\ Expire(t, {s.id : s \in gone})
  /\ \E lost \in {{}, dropped} : storage' = [storage EXCEPT ![t] = @ \ lost]
  /\ UNCHANGED <<now, nextFile, lastAppend, views, purged>>

(* reset-pipeline.sh purges one table. *)
Purge(t) ==
  /\ snapshots[t] # {}
  /\ snapshots' = [snapshots EXCEPT ![t] = {}]
  /\ current' = [current EXCEPT ![t] = 0]
  /\ storage' = [storage EXCEPT ![t] = {}]
  /\ lastAppend' = [lastAppend EXCEPT ![t] = 0]
  /\ purged' = purged \cup {t}
  /\ UNCHANGED <<now, nextFile, views>>

(* apply-views creates a view, or replaces it. *)
ApplyView(t) ==
  /\ snapshots[t] # {} /\ t \notin views
  /\ views' = views \cup {t}
  /\ UNCHANGED <<lakeVars, purged>>

PassTime ==
  /\ now < MaxTime
  /\ now' = now + 1
  /\ UNCHANGED <<snapshots, current, storage, nextFile, lastAppend, views, purged>>

Environment ==
  /\ \/ \E t \in Tables : \/ Commit(t) \/ Compact(t) \/ ExpireOld(t) \/ Purge(t)
                          \/ ApplyView(t)
     \/ PassTime
  /\ UNCHANGED <<processVars, viewsAtStart, runs>>

-----------------------------------------------------------------------------
(* The extraction.                                                         *)
Asked == ExtractTables[index]

(* connect_catalog, and the first table.  The output directory still has   *)
(* the files and the manifest that an earlier extraction wrote to it.      *)
StartExtract ==
  /\ at \in Ended /\ runs < MaxRuns
  /\ runs' = runs + 1
  /\ at' = "contract"
  /\ viewsAtStart' = views /\ purged' = {}
  /\ UNCHANGED <<envVars, index, result, pinned, output, results, manifest>>

Process(next) ==
  /\ at' = next
  /\ UNCHANGED <<envVars, viewsAtStart, purged, runs>>

(* Any exception ends the process, without a new manifest.                 *)
Abort ==
  /\ Process("failed")
  /\ index' = 1 /\ result' = NoResult /\ pinned' = {} /\ results' = <<>>

(* resolve_source tries the view first.  It is missing, or DuckDB cannot   *)
(* read it: it reads no views, or the query failed.                        *)
ProbeContract ==
  /\ at = "contract"
  /\ \/ /\ Asked \in views /\ snapshots[Asked] # {}
        /\ result' = [result EXCEPT !.schema = "contract"]
        /\ Process("copy")
     \/ /\ result' = [result EXCEPT !.cause = IF Asked \in views THEN "unreadable"
                                               ELSE "missing"]
        /\ Process("alice")
  /\ UNCHANGED <<index, pinned, output, results, manifest>>

(* Then the table itself, which need not have a snapshot yet.  No table is *)
(* the RuntimeError of Fails.                                              *)
ProbeAlice ==
  /\ at = "alice"
  /\ result' = [result EXCEPT !.schema = "alice"]
  /\ Process("reason")
  /\ UNCHANGED <<index, pinned, output, results, manifest>>

(* mutant: the catalog's list of views, fetched once at the start *)
ListedAtStart(t) == {"undetermined", IF t \in viewsAtStart THEN "exists" ELSE "not found"}
(* _fallback_reason: what the catalog lists, or that it could not be asked.*)
Reasons(t) == {"undetermined", IF t \in views THEN "exists" ELSE "not found"}

AskCatalog ==
  /\ at = "reason"
  /\ \E r \in Reasons(Asked) : result' = [result EXCEPT !.reason = r]
  /\ Process("copy")
  /\ UNCHANGED <<index, pinned, output, results, manifest>>

(* COPY binds the current snapshot, and then reads its files.              *)
BindCopy ==
  /\ at = "copy"
  /\ pinned' = CurrentFiles(Asked)
  /\ Process("write")
  /\ UNCHANGED <<index, result, output, results, manifest>>

(* The row count is the one COPY returns.                                  *)
WriteFile ==
  LET rows == UNION {f.holds : f \in pinned \cap storage[Asked]} IN
  /\ at = "write"
  /\ output' = [output EXCEPT ![Asked] = rows]
  /\ IF pinned \subseteq storage[Asked]
     THEN /\ result' = [result EXCEPT !.rows = rows]
          /\ pinned' = {}
          /\ Process("snapshot")
          /\ UNCHANGED <<index, results>>
     ELSE Abort
  /\ UNCHANGED manifest

(* mutant: one table too many *)
NextTableOffByOne ==
  IF index <= Len(ExtractTables) THEN index' = index + 1 /\ Process("contract")
                                 ELSE index' = 1 /\ Process("manifest")
(* run: the next of the tables, or the manifest.                           *)
NextTable ==
  IF index < Len(ExtractTables) THEN index' = index + 1 /\ Process("contract")
                                ELSE index' = 1 /\ Process("manifest")

(* mutant: the snapshot whose number is lowest *)
OldestSnapshot(t) ==
  CHOOSE s \in snapshots[t] : \A u \in snapshots[t] : s.id <= u.id
(* iceberg_snapshots, ORDER BY sequence_number DESC LIMIT 1.               *)
LatestSnapshot(t) ==
  CHOOSE s \in snapshots[t] : \A u \in snapshots[t] : u.id <= s.id

(* get_snapshot_id after the COPY; a table without a snapshot is an error. *)
GetSnapshotId ==
  LET s == LatestSnapshot(Asked) IN
  /\ at = "snapshot"
  /\ IF snapshots[Asked] = {}
     THEN Abort
     ELSE /\ results' = Append(results,
               [result EXCEPT !.snapshot = s.id, !.since = s.at,
                              !.holds = UNION {f.holds : f \in s.files}])
          /\ result' = NoResult
          /\ NextTable
          /\ UNCHANGED pinned
  /\ UNCHANGED <<output, manifest>>

(* mutant: a manifest that is there already is kept *)
WriteManifestOnce ==
  /\ at = "manifest"
  /\ manifest' = IF DOMAIN manifest # {} THEN manifest
                 ELSE [t \in Range(ExtractTables) |->
       results[Max({i \in DOMAIN ExtractTables : ExtractTables[i] = t})]]
  /\ results' = <<>>
  /\ Process("done")
  /\ UNCHANGED <<index, result, pinned, output>>

(* build_manifest: a table named twice keeps its last result.              *)
WriteManifest ==
  /\ at = "manifest"
  /\ manifest' = [t \in Range(ExtractTables) |->
       results[Max({i \in DOMAIN ExtractTables : ExtractTables[i] = t})]]
  /\ results' = <<>>
  /\ Process("done")
  /\ UNCHANGED <<index, result, pinned, output>>

(* Of the catalog, DuckDB or the disk; output may have been written.       *)
Fails ==
  /\ at \notin Ended
  /\ Abort
  /\ UNCHANGED <<output, manifest>>

ExtractNext ==
  \/ Environment
  \/ StartExtract \/ ProbeContract \/ ProbeAlice \/ AskCatalog \/ BindCopy
  \/ WriteFile \/ GetSnapshotId \/ WriteManifest \/ Fails

ExtractSpec == ExtractInit /\ [][ExtractNext]_extractVars

-----------------------------------------------------------------------------
(* The entry of every table asked for counts exactly the rows of its file, *)
(* also when rows are committed while the tables are extracted and when a  *)
(* table is named twice (extract_table, build_manifest).                   *)
ManifestMatchesFiles ==
  at = "done" =>
    /\ DOMAIN manifest = Range(ExtractTables)
    /\ \A t \in DOMAIN manifest : manifest[t].rows = output[t]

(* The snapshot an entry names is the file with later loads applied to it: *)
(* each row of the file is in it in the same version or a newer one, and   *)
(* what the file lacks was loaded after everything it has                  *)
(* (get_snapshot_id, which follows the COPY).                              *)
SnapshotFollowsFile ==
  at = "done" =>
    \A t \in DOMAIN manifest \ purged :
      /\ \A b \in output[t] :
           \E c \in manifest[t].holds : KeyOf[c] = KeyOf[b] /\ b <= c
      /\ \A c \in manifest[t].holds \ output[t] : \A b \in output[t] : b < c

(* What the runbook takes the entry for, "the answer to 'can I reproduce   *)
(* this exact input later' (via Iceberg time-travel on the recorded        *)
(* snapshot_id)": at the least, the snapshot has the versions in the file. *)
SnapshotHasTheInput ==
  at = "done" => \A t \in DOMAIN manifest \ purged : output[t] \subseteq manifest[t].holds

(* For as long as the retention threshold from its commit, the recorded    *)
(* snapshot can be read: no expiry takes it or a file of it away.          *)
RecordedSnapshotIsKept ==
  at = "done" =>
    \A t \in DOMAIN manifest \ purged :
      now - manifest[t].since <= RetentionThreshold =>
        \E s \in snapshots[t] : s.id = manifest[t].snapshot /\ s.files \subseteq storage[t]

(* The reason of a fallback against the cause of the failed read, whatever *)
(* apply-views does meanwhile: none is given only for the contract schema, *)
(* a view called not found was missing when it was read, and one called    *)
(* existing was missing then only if it was created during the extraction. *)
(* In that case the text, "a duckdb-iceberg client limitation, not an ops  *)
(* mistake", is wrong of the cause, which the docstring says is told apart *)
(* (resolve_source, _fallback_reason).                                     *)
FallbackIsExplained ==
  at = "done" =>
    \A t \in DOMAIN manifest :
      LET r == manifest[t] IN
      /\ r.reason = "none" <=> r.schema = "contract"
      /\ r.reason = "none" <=> r.cause = "none"
      /\ r.reason = "not found" => r.cause = "missing"
      /\ r.reason = "exists" /\ r.cause = "missing" => t \in views \ viewsAtStart
=============================================================================
