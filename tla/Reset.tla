-------------------------------- MODULE Reset --------------------------------
(***************************************************************************)
(* hack/reset-pipeline.sh beside run-nightly: purge the catalog tables,    *)
(* drop the namespace, then delete every object dlt left in the bucket,    *)
(* the persisted watermarks among them.  The script does not look whether  *)
(* a run-nightly is active, and may be run again after a failure.          *)
(***************************************************************************)
EXTENDS Ingest

CONSTANTS MaxResets   \* bound on resets

ASSUME ResetAssumption == MaxResets \in Nat

VARIABLES
  reset,        \* where the reset pod is
  listed,       \* catalog tables or bucket objects still to be removed
  failed,       \* an object could not be deleted
  resets,       \* number of resets so far
  overlapped,   \* history: a run-nightly was active during the reset
  dirty         \* history: no reset has ended well since one began

resetVars == <<reset, listed, failed, resets, overlapped, dirty>>
resetSpecVars == <<ingestVars, resetVars>>

ResetEnded == {"idle", "ok", "failed"}
Objects == {"_dlt_pipeline_state"} \cup Table

ResetTypeOK ==
  /\ IngestTypeOK
  /\ reset \in ResetEnded \cup {"purge", "drop", "find", "remove"}
  /\ listed \subseteq Objects /\ (reset = "purge" => listed \subseteq Table)
  /\ reset \in ResetEnded => listed = {} /\ ~failed
  /\ resets \in 0..MaxResets

ResetInit ==
  /\ IngestInit
  /\ reset = "idle" /\ listed = {} /\ failed = FALSE /\ resets = 0
  /\ overlapped = FALSE /\ dirty = FALSE

-----------------------------------------------------------------------------
Exists(t) == Replicated(t) # {}
ActiveRuns == {r \in Runs : at[r] \in Running}

(* The pod starts: list_tables.                                            *)
StartReset ==
  /\ reset \in ResetEnded
  /\ resets < MaxResets
  /\ reset' = "purge"
  /\ listed' = {t \in Table : Exists(t)}
  /\ failed' = FALSE
  /\ resets' = resets + 1
  /\ overlapped' = (ActiveRuns # {})
  /\ dirty' = TRUE
  /\ UNCHANGED ingestVars

(* purge_table drops the table with its data files.                        *)
PurgeTable ==
  /\ reset = "purge"
  /\ \E t \in listed : /\ iceberg' = [iceberg EXCEPT ![t] = NoRows]
                       /\ listed' = listed \ {t}
  /\ UNCHANGED <<now, landing, runVars, kills, reset, failed, resets, overlapped, dirty>>

EndReset(outcome) == reset' = outcome /\ listed' = {} /\ failed' = FALSE

(* drop_namespace, refused while a table exists that a run made meanwhile. *)
DropNamespace ==
  /\ reset = "purge" /\ listed = {}
  /\ IF \E t \in Table : Exists(t) THEN EndReset("failed")
                                   ELSE reset' = "find" /\ UNCHANGED <<listed, failed>>
  /\ UNCHANGED <<ingestVars, resets, overlapped, dirty>>

(* fs.find under the prefix of the dataset. *)
FindObjects ==
  /\ reset = "find"
  /\ listed' = {t \in Table : Exists(t)}
                 \cup (IF bucket = Fresh THEN {} ELSE {"_dlt_pipeline_state"})
  /\ reset' = "remove"
  /\ UNCHANGED <<ingestVars, failed, resets, overlapped, dirty>>

(* mutant: an object that could not be deleted is forgotten *)
Forgotten(b) == FALSE
FailedOr(b) == failed \/ b

(* fs.rm_file of one object, or the exception that is noted.  The data     *)
(* files of a table that a run has made again are objects as well.         *)
RemoveObject ==
  /\ reset = "remove"
  /\ \E o \in listed :
       /\ listed' = listed \ {o}
       /\ \/ /\ bucket' = IF o \in Table THEN bucket ELSE Fresh
             /\ iceberg' = [t \in Table |-> IF t = o THEN NoRows ELSE iceberg[t]]
             /\ UNCHANGED failed
          \/ /\ failed' = FailedOr(TRUE)
             /\ UNCHANGED <<bucket, iceberg>>
  /\ UNCHANGED <<now, landing, at, source, local, batch, kills, reset, resets,
                 overlapped, dirty>>

(* Exit 1 with any failed delete; else OK, which the script looks for.     *)
FinishReset ==
  /\ reset = "remove" /\ listed = {}
  /\ EndReset(IF failed THEN "failed" ELSE "ok")
  /\ dirty' = (failed \/ overlapped)
  /\ UNCHANGED <<ingestVars, resets, overlapped>>

(* An exception of the catalog or of S3, or the pod is gone.               *)
ResetFails ==
  /\ reset \notin ResetEnded
  /\ EndReset("failed")
  /\ UNCHANGED <<ingestVars, resets, overlapped, dirty>>

ResetStep ==
  \/ StartReset \/ PurgeTable \/ DropNamespace \/ FindObjects \/ RemoveObject
  \/ FinishReset \/ ResetFails

ResetNext ==
  \/ ResetStep
  \/ /\ IngestNext
     /\ overlapped' = (overlapped \/ (reset \notin ResetEnded
                                        /\ \E r \in Runs : at'[r] \in Running))
     /\ UNCHANGED <<reset, listed, failed, resets, dirty>>

ResetSpec ==
  /\ ResetInit /\ [][ResetNext]_resetSpecVars
  /\ \A r \in Runs : WF_ingestVars(StartRun(r)) /\ WF_ingestVars(RunStep(r))

-----------------------------------------------------------------------------
(* Unless a reset is under way, has failed, or ran beside a run-nightly,   *)
(* no persisted watermark passes a row that Iceberg lacks: a successful    *)
(* reset really is the clean slate it reports, also after failed ones.     *)
CleanSlateCovers == ~dirty => WatermarkCovers

(* Under the same condition ingestion catches up with landing again and    *)
(* again: every row at or above the initial value is in Iceberg in its     *)
(* current version, after killed runs and from scratch after a reset.      *)
CatchesUpAgain == []<>(dirty \/ CaughtUp)
=============================================================================
