------------------------------- MODULE Ingest -------------------------------
(***************************************************************************)
(* pipeline.py run-nightly: three incremental dlt runs, one per landing    *)
(* table, each an extraction above the table's watermark, an upsert into   *)
(* the Iceberg table and the write of the dlt state to the bucket.         *)
(*                                                                         *)
(* dlt is outside this repository.  It is modelled from how pipeline.py    *)
(* configures it and from the watermark contract of the runbooks: the      *)
(* cursor range is closed at the last value, rows already taken at exactly *)
(* that value are dropped by primary key, one upsert may commit in several *)
(* chunks, the state reaches the bucket after the data, and an ephemeral   *)
(* pod restores it once, before its first run.                             *)
(***************************************************************************)
EXTENDS Stores, Sequences, FiniteSetsExt

CONSTANTS
  Runs,           \* run-nightly processes
  InitialValue,   \* initial_value of each table's cursor, INGEST_INITIAL_*
  MaxKills        \* bound on killed or failed runs

ASSUME IngestAssumption ==
  /\ InitialValue \in [Table -> Nat]
  /\ MaxKills \in Nat

VARIABLES
  at,       \* where a run is
  source,   \* index of the source it works on, in SOURCES
  local,    \* the dlt state in the pod
  batch,    \* the extracted rows that are not yet in Iceberg
  bucket,   \* the dlt state in the bucket, _dlt_pipeline_state
  kills     \* number of failed runs so far

runVars == <<at, source, local, batch, bucket>>
ingestVars == <<storeVars, runVars, kills>>

RunPhase == {"idle", "extract", "load", "persist", "done", "failed"}
Running == {"extract", "load", "persist"}

SOURCES == <<"job_info", "trace", "mon_jdls">>

(* Per table: the last cursor value seen, and the job_ids seen at exactly  *)
(* that value.  Fresh is the state of a source that never ran; an override *)
(* that cannot be parsed ends the pod before it has changed anything.      *)
Watermark == [last : Nat, edge : SUBSET Jobs]
Fresh == [t \in Table |-> [last |-> InitialValue[t], edge |-> {}]]

IngestTypeOK ==
  /\ StoresTypeOK
  /\ at \in [Runs -> RunPhase]
  /\ source \in [Runs -> 1..3]
  /\ \A r \in Runs : \A t \in Table : local[r][t] \in Watermark
  /\ \A t \in Table : bucket[t] \in Watermark
  /\ batch \in [Runs -> Contents]
  /\ kills \in 0..MaxKills

IngestInit ==
  /\ StoresInit
  /\ at = [r \in Runs |-> "idle"]
  /\ source = [r \in Runs |-> 1]
  /\ local = [r \in Runs |-> Fresh]
  /\ batch = [r \in Runs |-> NoRows]
  /\ bucket = Fresh
  /\ kills = 0

-----------------------------------------------------------------------------
(* The incremental cursor column of each source.                           *)
Cursor(t, j) == IF t = "mon_jdls" THEN j ELSE landing[t][j]

(* mutant: a range that is open at the last value *)
RowsAbove(t, w) == {j \in Rows(t) : Cursor(t, j) > w.last}
(* The rows one extraction yields: the range is closed at the last value,  *)
(* and rows already seen at exactly that value are dropped by job_id.      *)
NewRows(t, w) ==
  {j \in Rows(t) : /\ Cursor(t, j) >= w.last
                   /\ ~(Cursor(t, j) = w.last /\ j \in w.edge)}

(* The watermark after these rows. *)
Advance(t, w, S) ==
  LET last == Max({w.last} \cup {Cursor(t, j) : j \in S})
      atLast == {j \in S : Cursor(t, j) = last}
  IN  [last |-> last, edge |-> IF last = w.last THEN w.edge \cup atLast
                                                ELSE atLast]

-----------------------------------------------------------------------------
(* A pod starts: config from the environment, dlt state from the bucket.   *)
StartRun(r) ==
  /\ at[r] \in {"idle", "done", "failed"}
  /\ at' = [at EXCEPT ![r] = "extract"]
  /\ source' = [source EXCEPT ![r] = 1]
  /\ local' = [local EXCEPT ![r] = bucket]
  /\ UNCHANGED <<storeVars, batch, bucket, kills>>

(* pipeline.run of one source, first half: one SELECT above the watermark. *)
Extract(r) ==
  LET t == SOURCES[source[r]]
      S == NewRows(t, local[r][t])
  IN
  /\ at[r] = "extract"
  /\ batch' = [batch EXCEPT ![r] = [j \in S |-> landing[t][j]]]
  /\ local' = [local EXCEPT ![r][t] = Advance(t, @, S)]
  /\ at' = [at EXCEPT ![r] = "load"]
  /\ UNCHANGED <<storeVars, source, bucket, kills>>

(* Second half: merge with strategy upsert, one committed chunk.           *)
LoadChunk(r) ==
  LET t == SOURCES[source[r]] IN
  /\ at[r] = "load"
  /\ \E S \in (SUBSET DOMAIN batch[r]) \ {{}} :
       /\ iceberg' = [iceberg EXCEPT
                        ![t] = Upsert(@, [j \in S |-> batch[r][j]])]
       /\ batch' = [batch EXCEPT ![r] = Without(@, S)]
  /\ UNCHANGED <<now, landing, at, source, local, bucket, kills>>

(* mutant: the state is written when the load starts *)
PersistEarly(r) ==
  /\ at[r] = "load"
  /\ bucket' = local[r]
  /\ at' = [at EXCEPT ![r] = IF DOMAIN batch[r] = {} THEN "persist" ELSE @]
  /\ UNCHANGED <<storeVars, source, local, batch, kills>>

(* All chunks are in: the package is complete, the state goes out with it. *)
Persist(r) ==
  /\ at[r] = "load"
  /\ DOMAIN batch[r] = {}
  /\ bucket' = local[r]
  /\ at' = [at EXCEPT ![r] = "persist"]
  /\ UNCHANGED <<storeVars, source, local, batch, kills>>

(* mutant: one source too many *)
NextSourceOffByOne(r) ==
  /\ at[r] = "persist"
  /\ source' = [source EXCEPT ![r] = @ + 1]
  /\ at' = [at EXCEPT ![r] = IF source[r] <= 3 THEN "extract" ELSE "done"]
  /\ UNCHANGED <<storeVars, local, batch, bucket, kills>>

(* run_nightly: the next source, or exit 0. *)
NextSource(r) ==
  /\ at[r] = "persist"
  /\ IF source[r] < 3
     THEN /\ source' = [source EXCEPT ![r] = @ + 1]
          /\ at' = [at EXCEPT ![r] = "extract"]
     ELSE /\ source' = [source EXCEPT ![r] = 1]
          /\ at' = [at EXCEPT ![r] = "done"]
  /\ UNCHANGED <<storeVars, local, batch, bucket, kills>>

(* An exception anywhere in pipeline.run, a pod kill or the deadline: what *)
(* was committed stays, the pod and its local state are gone.              *)
Kill(r) ==
  /\ at[r] \in Running
  /\ kills < MaxKills
  /\ kills' = kills + 1
  /\ at' = [at EXCEPT ![r] = "failed"]
  /\ source' = [source EXCEPT ![r] = 1]
  /\ local' = [local EXCEPT ![r] = Fresh]
  /\ batch' = [batch EXCEPT ![r] = NoRows]
  /\ UNCHANGED <<storeVars, bucket>>

RunStep(r) == Extract(r) \/ LoadChunk(r) \/ Persist(r) \/ NextSource(r)

IngestNext ==
  \/ \E r \in Runs : StartRun(r) \/ RunStep(r) \/ Kill(r)
  \/ Environment /\ UNCHANGED <<runVars, kills>>

IngestSpec == IngestInit /\ [][IngestNext]_ingestVars

(* The CronWorkflow starts a run every night, and a started pod keeps      *)
(* executing until it ends or is killed.                                   *)
FairIngestSpec ==
  IngestSpec /\ \A r \in Runs : WF_ingestVars(StartRun(r))
                                /\ WF_ingestVars(RunStep(r))

-----------------------------------------------------------------------------
(* Properties.                                                             *)

(* A landing row that the persisted watermark has passed is in Iceberg in  *)
(* its current version: a crash between two chunks, between the data and   *)
(* the state, or between two sources never makes the next run skip a row.  *)
(* Holds for one run at a time and rows that land in cursor order (the     *)
(* watermark note of pipeline.py).                                         *)
Passed(t, j) ==
  LET c == Cursor(t, j) IN
  /\ c >= InitialValue[t]
  /\ c < bucket[t].last \/ (c = bucket[t].last /\ j \in bucket[t].edge)

WatermarkCovers ==
  \A t \in Table : \A j \in Rows(t) :
    Passed(t, j) => j \in Replicated(t) /\ iceberg[t][j] = landing[t][j]

(* Every row at or above the initial value is in Iceberg in its current    *)
(* version.                                                                *)
CaughtUp ==
  \A t \in Table : \A j \in Rows(t) :
    Cursor(t, j) >= InitialValue[t] =>
      j \in Replicated(t) /\ iceberg[t][j] = landing[t][j]
=============================================================================
