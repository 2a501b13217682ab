---------------------------- MODULE Maintenance ----------------------------
(***************************************************************************)
(* maintenance.py: the weekly run-maintenance and run-trino-maintenance,   *)
(* and check-freshness as the last task of the nightly workflow, over the  *)
(* tables that workflow is writing and scanning at the same time.          *)
(***************************************************************************)
EXTENDS Lake

CONSTANTS
  RetentionThreshold,  \* MAINTENANCE_OLDER_THAN_DAYS and Trino's 7d
  MaxAge,              \* FRESHNESS_MAX_AGE_HOURS, in the unit of the clock
  Deadline,            \* activeDeadlineSeconds of the nightly workflow
  NightlyNamespace     \* where the chart deploys the CronWorkflows

(* 26 h, 7 d, and a deadline well below either.                            *)
ASSUME MaintenanceAssumption ==
  /\ RetentionThreshold \in Nat /\ MaxAge \in Nat /\ Deadline \in Nat
  /\ Deadline <= RetentionThreshold
  /\ MaxAge <= RetentionThreshold

VARIABLES
  nightly,    \* status.phase of the latest ingest-nightly Workflow
  task,       \* what it does: load, commit, scan, read or check
  todo,       \* the tables the task has still to visit
  table,      \* the table being committed or read
  upload,     \* the file written and not yet committed, as a set
  base,       \* the current snapshot when the writer loaded the table
  pinned,     \* the files of the snapshot the presence scan reads
  startedAt,
  freshness,  \* how the last check-freshness ended
  maint,      \* where the maintenance workflow is
  turn,       \* index of the table it works on
  cutoff,     \* older_than of the pyiceberg expiry
  plan,       \* snapshot ids or files the statement in progress goes by
  mbase       \* the current snapshot when it planned

nightlyVars == <<nightly, task, todo, table, upload, base, pinned, startedAt,
                 freshness>>
maintVars == <<maint, turn, cutoff, plan, mbase>>
maintenanceVars == <<lakeVars, nightlyVars, maintVars>>

Ended == {"none", "Succeeded", "Failed"}
Planned == {"expire-commit", "optimize-commit", "orphans-delete"}

MaintenanceTypeOK ==
  /\ LakeTypeOK
  /\ nightly \in Ended \cup {"Pending", "Running"}
  /\ task \in {"load", "commit", "scan", "read", "check"}
  /\ todo \subseteq Tables /\ table \in Tables
  /\ upload \subseteq File /\ base \in {0} \cup Id
  /\ pinned \subseteq File
  /\ startedAt \in Time
  /\ freshness \in {"none", "ok", "stale", "raised"}
  /\ maint \in {"idle", "expire", "guard", "optimize", "trino-expire", "orphans"}
               \cup Planned
  /\ turn \in DOMAIN TableOrder
  /\ cutoff \in Int
  /\ maint = "expire-commit" => plan \subseteq Id
  /\ maint \in Planned \ {"expire-commit"} => plan \subseteq File
  /\ maint \notin Planned => plan = {}
  /\ mbase \in {0} \cup Id

MaintenanceInit ==
  /\ LakeInit
  /\ nightly = "none" /\ task = "load" /\ todo = Tables /\ table = Head(TableOrder)
  /\ upload = {} /\ base = 0 /\ pinned = {} /\ startedAt = 1 /\ freshness = "none"
  /\ maint = "idle" /\ turn = 1 /\ cutoff = 0
  /\ plan = {} /\ mbase = 0

-----------------------------------------------------------------------------
(* The nightly workflow, as far as the lake sees it: run-nightly loads the *)
(* tables, run-retention scans them, check-freshness asks how old they are.*)
(* The order of the tables is left open.                                   *)

(* What follows once table t is done with: the next table or the next task.*)
After(t, this, next) ==
  /\ task' = IF todo = {t} THEN next ELSE this
  /\ todo' = IF todo = {t} THEN Tables ELSE todo \ {t}

(* The Workflow object exists before its pod runs. *)
SubmitNightly ==
  /\ nightly \in Ended
  /\ nightly' = "Pending"
  /\ startedAt' = now
  /\ task' = "load" /\ todo' = Tables
  /\ upload' = {} /\ base' = 0 /\ pinned' = {} /\ freshness' = "none"
  /\ UNCHANGED <<lakeVars, maintVars, table>>

RunNightly ==
  /\ nightly = "Pending"
  /\ nightly' = "Running"
  /\ UNCHANGED <<lakeVars, maintVars, task, todo, table, upload, base, pinned,
                 startedAt, freshness>>

(* A load: dlt loads the table and writes a data file.  A batch is what    *)
(* one load wrote, in this version of the rows or in the one that a later  *)
(* upsert put in its place (Extract tells the versions apart).             *)
LoadRows ==
  /\ nightly = "Running" /\ task = "load"
  /\ \E t \in todo :
       /\ Upload(t, NewFile({nextFile}))
       /\ upload' = {NewFile({nextFile})}
       /\ base' = current[t]
       /\ table' = t
  /\ task' = "commit"
  /\ UNCHANGED <<now, snapshots, current, lastAppend, nightly, todo, pinned,
                 startedAt, freshness, maintVars>>

(* The upsert commits, or fails the task when it lost the race.            *)
CommitRows ==
  /\ nightly = "Running" /\ task = "commit"
  /\ IF base = current[table]
     THEN /\ \E f \in upload :
               Commits(table, "append", f.id, CurrentFiles(table) \cup upload)
          /\ lastAppend' = [lastAppend EXCEPT ![table] = now]
          /\ After(table, "load", "scan")
          /\ UNCHANGED nightly
     ELSE /\ nightly' = "Failed"
          /\ UNCHANGED <<snapshots, current, lastAppend, task, todo>>
  /\ upload' = {} /\ base' = 0
  /\ UNCHANGED <<now, storage, nextFile, table, pinned, startedAt, freshness,
                 maintVars>>

(* A window with no new row commits no snapshot. *)
NoNewRows ==
  /\ nightly = "Running" /\ task = "load"
  /\ \E t \in todo : After(t, "load", "scan")
  /\ UNCHANGED <<lakeVars, nightly, table, upload, base, pinned, startedAt,
                 freshness, maintVars>>

(* present_job_ids of run-retention: load_table, then the scan.            *)
PinSnapshot ==
  /\ nightly = "Running" /\ task = "scan"
  /\ \E t \in todo : table' = t /\ pinned' = CurrentFiles(t)
  /\ task' = "read"
  /\ UNCHANGED <<lakeVars, nightly, todo, upload, base, startedAt, freshness,
                 maintVars>>

ReadPinned ==
  /\ nightly = "Running" /\ task = "read"
  /\ IF pinned \subseteq storage[table]
     THEN After(table, "scan", "check") /\ UNCHANGED nightly
     ELSE nightly' = "Failed" /\ UNCHANGED <<task, todo>>
  /\ pinned' = {}
  /\ UNCHANGED <<lakeVars, table, upload, base, startedAt, freshness, maintVars>>

(* mutant: the freshness query without its filter on the operation *)
AnySnapshot(t) == snapshots[t]
(* table_freshness: WHERE operation <> 'replace'.                          *)
DataSnapshots(t) == {s \in snapshots[t] : s.op # "replace"}

(* is_stale: missing, without such a snapshot, or too old.                 *)
IsStale(t) ==
  \/ DataSnapshots(t) = {}
  \/ now - Max({s.at : s \in DataSnapshots(t)}) > MaxAge

(* format_freshness_summary subtracts a max_committed_at of None when the  *)
(* table exists and has no such snapshot.                                  *)
HasNoTimestamp(t) == snapshots[t] # {} /\ DataSnapshots(t) = {}

(* CORE_FRESHNESS_TABLES are here all the tables that a load writes.       *)
CheckFreshness ==
  /\ nightly = "Running" /\ task = "check"
  /\ freshness' = IF \E t \in Tables : HasNoTimestamp(t) THEN "raised"
                  ELSE IF \A t \in Tables : ~IsStale(t) THEN "ok" ELSE "stale"
  /\ nightly' = IF freshness' = "ok" THEN "Succeeded" ELSE "Failed"
  /\ UNCHANGED <<lakeVars, task, todo, table, upload, base, pinned, startedAt,
                 maintVars>>

(* A task fails or is killed; an uploaded file stays behind as an orphan.  *)
NightlyFails ==
  /\ nightly \in {"Pending", "Running"}
  /\ nightly' = "Failed"
  /\ upload' = {} /\ base' = 0 /\ pinned' = {}
  /\ UNCHANGED <<lakeVars, task, todo, table, startedAt, freshness, maintVars>>

-----------------------------------------------------------------------------
(* run-maintenance: one cutoff for all tables, then table by table.        *)
Turn == TableOrder[turn]

(* mutant: an index that runs past the last table *)
NextTurnPastTheEnd(this, next) ==
  /\ turn' = turn + 1
  /\ maint' = IF turn < Len(TableOrder) THEN this ELSE next

(* Table by table; past the last one, the next phase starts from the first.*)
NextTurn(this, next) ==
  /\ turn' = IF turn < Len(TableOrder) THEN turn + 1 ELSE 1
  /\ maint' = IF turn < Len(TableOrder) THEN this ELSE next

StartMaintenance ==
  /\ maint = "idle"
  /\ maint' = "expire"
  /\ turn' = 1
  /\ cutoff' = now - RetentionThreshold
  /\ UNCHANGED <<lakeVars, nightlyVars, plan, mbase>>

(* expire_table_snapshots: load_table and decide, then commit. *)
PlanExpiry ==
  /\ maint = "expire"
  /\ plan' = {s.id : s \in Expirable(Turn, cutoff)}
  /\ maint' = "expire-commit"
  /\ UNCHANGED <<lakeVars, nightlyVars, turn, cutoff, mbase>>

CommitExpiry ==
  /\ maint = "expire-commit"
  /\ Expire(Turn, plan)
  /\ plan' = {}
  /\ NextTurn("expire", "guard")
  /\ UNCHANGED <<now, storage, nextFile, lastAppend, nightlyVars, cutoff, mbase>>

(* What check_nightly_overlap_guard can go by.  The client lists workflows *)
(* in one fixed namespace; the ServiceAccount may list them only in the    *)
(* namespace of the CronWorkflows, and the API refuses any other.          *)
ARGO_WORKFLOWS_NAMESPACE == "argo-workflows"

GuardAnswers ==
  {"forced", "unreachable",
   IF NightlyNamespace # ARGO_WORKFLOWS_NAMESPACE THEN "forbidden"
   ELSE IF nightly = "Running" THEN "deferred" ELSE "silent"}

CheckOverlap ==
  /\ maint = "guard"
  /\ \E answer \in GuardAnswers :
       maint' = IF answer = "deferred" THEN "idle" ELSE "optimize"
  /\ UNCHANGED <<lakeVars, nightlyVars, turn, cutoff, plan, mbase>>

-----------------------------------------------------------------------------
(* run_trino_table_maintenance: optimize, expire_snapshots,                *)
(* remove_orphan_files on one table, then the next.                        *)

(* The files to be compacted are rewritten into one; a single one is left. *)
Optimize ==
  /\ maint = "optimize"
  /\ IF Cardinality(CurrentFiles(Turn)) > 1
     THEN LET all == NewFile(UNION {f.holds : f \in CurrentFiles(Turn)}) IN
          /\ Upload(Turn, all)
          /\ plan' = {all}
          /\ mbase' = current[Turn]
          /\ maint' = "optimize-commit"
     ELSE /\ maint' = "trino-expire"
          /\ UNCHANGED <<storage, nextFile, plan, mbase>>
  /\ UNCHANGED <<now, snapshots, current, lastAppend, nightlyVars, turn, cutoff>>

(* mutant: the commit of optimize without its compare-and-swap *)
BlindCommitOptimize ==
  /\ maint = "optimize-commit"
  /\ \E f \in plan : Commits(Turn, "replace", f.id, plan)
  /\ maint' = "trino-expire"
  /\ plan' = {} /\ mbase' = 0
  /\ UNCHANGED <<now, storage, nextFile, lastAppend, nightlyVars, turn, cutoff>>

(* The compare-and-swap; losing it is a query error that ends the run.     *)
CommitOptimize ==
  /\ maint = "optimize-commit"
  /\ IF mbase = current[Turn]
     THEN /\ \E f \in plan : Commits(Turn, "replace", f.id, plan)
          /\ maint' = "trino-expire"
     ELSE /\ maint' = "idle"
          /\ UNCHANGED <<snapshots, current>>
  /\ plan' = {} /\ mbase' = 0
  /\ UNCHANGED <<now, storage, nextFile, lastAppend, nightlyVars, turn, cutoff>>

Referenced(t, gone) == UNION {s.files : s \in snapshots[t] \ gone}

(* mutant: remove_orphan_files and expire_snapshots with no minimum age *)
NoCutoff == now
(* retention_threshold => '7d' *)
TrinoCutoff == now - RetentionThreshold

(* expire_snapshots drops the old snapshots.  The files only they had stay *)
(* for remove_orphan_files, which is what the module found as deployed, or *)
(* go as well, which is what the procedure does where it can.              *)
TrinoExpire ==
  /\ maint = "trino-expire"
  /\ LET gone == Expirable(Turn, TrinoCutoff)
         dropped == (UNION {s.files : s \in gone}) \ Referenced(Turn, gone)
     IN /\ Expire(Turn, {s.id : s \in gone})
        /\ \E lost \in {{}, dropped} : storage' = [storage EXCEPT ![Turn] = @ \ lost]
  /\ maint' = "orphans"
  /\ UNCHANGED <<now, nextFile, lastAppend, nightlyVars, turn, cutoff, plan, mbase>>

(* remove_orphan_files reads the metadata, then lists and deletes.         *)
FindOrphans ==
  /\ maint = "orphans"
  /\ plan' = {f \in storage[Turn] \ Referenced(Turn, {}) : f.at < TrinoCutoff}
  /\ maint' = "orphans-delete"
  /\ UNCHANGED <<lakeVars, nightlyVars, turn, cutoff, mbase>>

DeleteOrphans ==
  /\ maint = "orphans-delete"
  /\ storage' = [storage EXCEPT ![Turn] = @ \ plan]
  /\ plan' = {}
  /\ NextTurn("optimize", "idle")
  /\ UNCHANGED <<now, snapshots, current, nextFile, lastAppend, nightlyVars, cutoff,
                 mbase>>

(* An exception, a query error or the workflow's deadline. *)
MaintenanceFails ==
  /\ maint # "idle"
  /\ maint' = "idle"
  /\ plan' = {} /\ mbase' = 0
  /\ UNCHANGED <<lakeVars, nightlyVars, turn, cutoff>>

-----------------------------------------------------------------------------
(* Time passes; a nightly workflow does not outlive its deadline.          *)
PassTime ==
  /\ now < MaxTime
  /\ nightly \in {"Pending", "Running"} => now < startedAt + Deadline
  /\ now' = now + 1
  /\ UNCHANGED <<snapshots, current, storage, nextFile, lastAppend, nightlyVars,
                 maintVars>>

MaintenanceNext ==
  \/ SubmitNightly \/ RunNightly \/ LoadRows \/ CommitRows \/ NoNewRows
  \/ PinSnapshot \/ ReadPinned \/ CheckFreshness \/ NightlyFails
  \/ StartMaintenance \/ PlanExpiry \/ CommitExpiry \/ CheckOverlap
  \/ Optimize \/ CommitOptimize \/ TrinoExpire \/ FindOrphans \/ DeleteOrphans
  \/ MaintenanceFails
  \/ PassTime

MaintenanceSpec == MaintenanceInit /\ [][MaintenanceNext]_maintenanceVars

-----------------------------------------------------------------------------
(* Every live snapshot finds all its files: the two garbage collectors     *)
(* never take a file that a commit in flight is about to refer to, or that *)
(* another snapshot still needs.                                           *)
SnapshotsReadable ==
  \A t \in Tables : \A s \in snapshots[t] : s.files \subseteq storage[t]

(* What a reader of a table finds never shrinks: neither compaction, nor   *)
(* the expiry of snapshots, nor orphan removal, nor any race between them  *)
(* and the nightly writer loses a committed batch.                         *)
NoBatchLost == [][\A t \in Tables : Readable(t) \subseteq Readable(t)']_maintenanceVars

(* The presence scan of the retention pass reads a snapshot it pinned      *)
(* before: maintenance can take that snapshot's files away only on a table *)
(* that got no data for longer than the retention threshold.               *)
ScanOfActiveTableSurvives ==
  task = "read" /\ nightly = "Running" /\ ~(pinned \subseteq storage[table])
    => now - lastAppend[table] > RetentionThreshold

(* The nightly workflow succeeds exactly when every table really got data  *)
(* within the last MaxAge, whatever maintenance compacted or expired.      *)
FreshnessIsExact ==
  [][CheckFreshness =>
       (nightly' = "Succeeded" <=>
          \A t \in Tables : lastAppend[t] > 0 /\ now - lastAppend[t] <= MaxAge)
    ]_maintenanceVars

(* What the chart grants the guard its permission for: whenever it is      *)
(* about to ask and a nightly workflow is running, it can find that out.   *)
GuardCanDefer ==
  maint = "guard" /\ nightly = "Running" => "deferred" \in GuardAnswers

(* A core table with nothing recent to show is stale, not an error.        *)
FreshnessAnswers == freshness # "raised"
=============================================================================
