------------------------------ MODULE Nightly ------------------------------
(***************************************************************************)
(* The ingest-nightly CronWorkflow: run-nightly, then run-retention, then  *)
(* check-freshness, each only after the one before it succeeded, under     *)
(* concurrencyPolicy Forbid and one deadline for the whole workflow.       *)
(* Composes Ingest and Retention over the same Stores: here retention's    *)
(* presence check reads what the real ingestion has committed.             *)
(***************************************************************************)
EXTENDS Ingest, Retention

CONSTANT Deadline     \* activeDeadlineSeconds, in days

ASSUME NightlyAssumption == Deadline \in Nat

VARIABLES
  workflow,   \* the running task of the workflow, or how it ended
  started     \* when the workflow started

nightlyVars == <<storeVars, runVars, kills, passVars, crashes,
                 workflow, started>>

Tasks == {"run-nightly", "run-retention", "check-freshness"}
Outcomes == {"none", "Succeeded", "Failed"}

NightlyTypeOK ==
  /\ IngestTypeOK
  /\ TypeOK
  /\ workflow \in Tasks \cup Outcomes
  /\ started \in 1..MaxTime

NightlyInit ==
  /\ Init
  /\ at = [r \in Runs |-> "idle"]
  /\ source = [r \in Runs |-> 1]
  /\ local = [r \in Runs |-> Fresh]
  /\ batch = [r \in Runs |-> NoRows]
  /\ bucket = Fresh
  /\ kills = 0
  /\ workflow = "none"
  /\ started = 1

-----------------------------------------------------------------------------
ingestPart == <<runVars, kills>>
retentionPart == <<passVars, crashes>>

(* The schedule fires; Forbid skips it while a workflow is running.        *)
StartWorkflow(r) ==
  /\ workflow \in Outcomes
  /\ StartRun(r)
  /\ workflow' = "run-nightly"
  /\ started' = now
  /\ UNCHANGED retentionPart

IngestTask(r) ==
  /\ workflow = "run-nightly"
  /\ RunStep(r)
  /\ UNCHANGED <<retentionPart, workflow, started>>

IngestTaskFails(r) ==
  /\ workflow = "run-nightly"
  /\ Kill(r)
  /\ workflow' = "Failed"
  /\ UNCHANGED <<retentionPart, started>>

(* mutant: retention does not wait for run-nightly to succeed *)
StartRetentionAnyway(r, p) ==
  /\ workflow \in {"run-nightly", "Failed"}
  /\ at[r] \in {"done", "failed"}
  /\ Start(p)
  /\ workflow' = "run-retention"
  /\ UNCHANGED <<ingestPart, started>>

(* dependencies: [run-nightly] *)
StartRetention(r, p) ==
  /\ workflow = "run-nightly"
  /\ at[r] = "done"
  /\ Start(p)
  /\ workflow' = "run-retention"
  /\ UNCHANGED <<ingestPart, started>>

RetentionTask(p) ==
  /\ workflow = "run-retention"
  /\ PassStep(p)
  /\ UNCHANGED <<ingestPart, workflow, started>>

RetentionTaskFails(p) ==
  /\ workflow = "run-retention"
  /\ Crash(p)
  /\ workflow' = "Failed"
  /\ UNCHANGED <<ingestPart, started>>

(* dependencies: [run-retention]; a non-zero exit fails the workflow. *)
FinishRetention(p) ==
  /\ workflow = "run-retention"
  /\ phase[p] = "exit"
  /\ workflow' = IF result[p] = "ok" THEN "check-freshness" ELSE "Failed"
  /\ UNCHANGED <<storeVars, ingestPart, retentionPart, started>>

(* check-freshness only reads snapshot metadata; its verdict is left open. *)
CheckFreshness ==
  /\ workflow = "check-freshness"
  /\ workflow' \in {"Succeeded", "Failed"}
  /\ UNCHANGED <<storeVars, ingestPart, retentionPart, started>>

(* mutant: a workflow without a deadline *)
AlwaysTime == TRUE
(* The deadline ends the workflow: it never runs past started + Deadline.  *)
WithinDeadline == workflow \in Tasks => now < started + Deadline

NightlyTick ==
  /\ WithinDeadline
  /\ Tick
  /\ UNCHANGED <<ingestPart, retentionPart, workflow, started>>

Writers ==
  /\ \E j \in Jobs : WriteJobInfo(j) \/ WriteTrace(j) \/ WriteMonJdls(j)
  /\ UNCHANGED <<ingestPart, retentionPart, workflow, started>>

Progress ==
  \/ \E r \in Runs : StartWorkflow(r) \/ IngestTask(r)
  \/ \E r \in Runs, p \in Passes : StartRetention(r, p)
  \/ \E p \in Passes : RetentionTask(p) \/ FinishRetention(p)
  \/ CheckFreshness

NightlyNext ==
  \/ Progress
  \/ \E r \in Runs : IngestTaskFails(r)
  \/ \E p \in Passes : RetentionTaskFails(p)
  \/ NightlyTick
  \/ Writers

NightlySpec == NightlyInit /\ [][NightlyNext]_nightlyVars

(* The schedule keeps firing, a started task keeps executing, and time     *)
(* passes.                                                                 *)
FairNightlySpec ==
  NightlySpec /\ WF_nightlyVars(Progress) /\ WF_nightlyVars(NightlyTick)

-----------------------------------------------------------------------------
(* Properties.                                                             *)

(* In the workflow retention deletes only versions that are in Iceberg:    *)
(* the watermark covers every row old enough to be a candidate, because    *)
(* retention runs only after a successful ingest and within a deadline     *)
(* that is no longer than the retention window.  Holds for rows that       *)
(* become visible on time (MaxLag = 0); a late row breaks it.              *)
NightlyDeletesOnlyCurrent == [][OnlyCurrentLeave]_nightlyVars

(* A job_info or trace row kept unverified always means a real gap: after  *)
(* a successful run-nightly there is none, so retention's exit code and    *)
(* the alert on it raise no false alarm.                                   *)
NothingUnverified ==
  \A p \in Passes : kept[p] \cap ({"job_info", "trace"} \X Jobs) = {}

(* Old rows do not pile up: despite failed runs and passes, landing ends   *)
(* with only rows inside the retention window.                             *)
LandingIsTrimmed ==
  <>[](\A t \in {"job_info", "trace"} : \A j \in Rows(t) :
         landing[t][j] >= MaxTime - RetentionDays)
=============================================================================
