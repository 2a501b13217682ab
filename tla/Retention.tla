----------------------------- MODULE Retention -----------------------------
(***************************************************************************)
(* retention.py: delete landing rows older than RETENTION_DAYS whose       *)
(* job_id is present in the corresponding Iceberg table.                   *)
(*                                                                         *)
(* One process per retention pass.  A pass issues one SQL statement per    *)
(* step, each on its own READ COMMITTED snapshot, so writers, ingestion    *)
(* and other passes run between any two steps.  Ingestion appears here     *)
(* only as Replicate; Ingest.tla models it in detail.                      *)
(***************************************************************************)
EXTENDS Stores, Sequences

CONSTANTS
  Passes,         \* retention processes (the CronWorkflow's, manual ones)
  RetentionDays,  \* RETENTION_DAYS
  BatchSize,      \* BATCH_SIZE
  PlausibleMin,   \* PLAUSIBLE_MIN
  PlausibleMax,   \* PLAUSIBLE_MAX
  MaxCrashes      \* bound on killed or failed passes

ASSUME RetentionAssumption ==
  /\ RetentionDays \in Nat
  /\ BatchSize \in Nat \ {0}
  /\ PlausibleMin \in Nat
  /\ PlausibleMax \in Nat
  /\ MaxCrashes \in Nat

VARIABLES
  phase,      \* where the pass is in run_retention_pass
  step,       \* index of the table it works on, in TABLES or _DELETE_ORDER
  cutoff,     \* the cutoff computed once by run()
  cand,       \* old_job_ids_by_table
  verified,   \* job_ids of the current table still to be deleted
  deleted,    \* rows this pass deleted (TableResult.deleted counts them)
  kept,       \* rows this pass kept unverified (TableResult.unverified)
  result,     \* how the process ended
  crashes     \* number of passes that failed so far

passVars == <<phase, step, cutoff, cand, verified, deleted, kept, result>>
vars == <<storeVars, passVars, crashes>>

Phase == {"idle", "select", "check", "verify", "delete", "exit"}
Result == {"none", "ok", "unverified", "aborted", "failed"}
Active == {"select", "check", "verify", "delete"}

TABLES == <<"job_info", "trace", "mon_jdls">>

(* mutant: delete in declaration order *)
TablesAsDeleteOrder == TABLES
DELETE_ORDER == <<"mon_jdls", "job_info", "trace">>

NoCandidates == [t \in Table |-> {}]

TypeOK ==
  /\ StoresTypeOK
  /\ phase \in [Passes -> Phase]
  /\ step \in [Passes -> 1..3]
  /\ cutoff \in [Passes -> Int]
  /\ cand \in [Passes -> [Table -> SUBSET Jobs]]
  /\ verified \in [Passes -> SUBSET Jobs]
  /\ deleted \in [Passes -> SUBSET (Table \X Jobs)]
  /\ kept \in [Passes -> SUBSET (Table \X Jobs)]
  /\ result \in [Passes -> Result]
  /\ crashes \in Nat

Init ==
  /\ StoresInit
  /\ phase = [p \in Passes |-> "idle"]
  /\ step = [p \in Passes |-> 1]
  /\ cutoff = [p \in Passes |-> 0]
  /\ cand = [p \in Passes |-> NoCandidates]
  /\ verified = [p \in Passes |-> {}]
  /\ deleted = [p \in Passes |-> {}]
  /\ kept = [p \in Passes |-> {}]
  /\ result = [p \in Passes |-> "none"]
  /\ crashes = 0

-----------------------------------------------------------------------------
(* The SQL predicates, evaluated on the landing tables as they are now.    *)

OlderThan(t, cut) == {j \in Rows(t) : landing[t][j] < cut}

(* job_id < (SELECT COALESCE(MIN(job_id), 0) FROM job_info): no job_id is  *)
(* below the floor 0 of an empty job_info table.                           *)
BelowEverySurvivor(j) ==
  /\ Rows("job_info") # {}
  /\ \A k \in Rows("job_info") : j < k

(* mutant: the escape hatch without its bound *)
UnboundedOrphans == Rows("mon_jdls") \ Rows("job_info")
BoundedOrphans ==
  {j \in Rows("mon_jdls") \ Rows("job_info") : BelowEverySurvivor(j)}

(* The age predicate of a table: its candidate SELECT and, re-asserted,    *)
(* its DELETE select the same rows.  mon_jdls has no age of its own.       *)
AgedRows(t, cut) ==
  IF t = "mon_jdls"
  THEN (Rows("mon_jdls") \cap OlderThan("job_info", cut)) \cup BoundedOrphans
  ELSE OlderThan(t, cut)

(* mutant: DELETE .. WHERE job_id = ANY(batch), without the re-assertion *)
UncheckedRows(t, batch, cut) == batch \cap Rows(t)
DeletableRows(t, batch, cut) == batch \cap AgedRows(t, cut)

Implausible(s) == s < PlausibleMin \/ s >= PlausibleMax

-----------------------------------------------------------------------------
(* run(): compute the cutoff once, connect, start the pass.                *)
Start(p) ==
  /\ phase[p] \in {"idle", "exit"}
  /\ phase' = [phase EXCEPT ![p] = "select"]
  /\ step' = [step EXCEPT ![p] = 1]
  /\ cutoff' = [cutoff EXCEPT ![p] = now - RetentionDays]
  /\ cand' = [cand EXCEPT ![p] = NoCandidates]
  /\ deleted' = [deleted EXCEPT ![p] = {}]
  /\ kept' = [kept EXCEPT ![p] = {}]
  /\ result' = [result EXCEPT ![p] = "none"]
  /\ UNCHANGED <<storeVars, verified, crashes>>

(* select_old_job_ids for one table of TABLES; all three run before any    *)
(* table is deleted from.                                                  *)
SelectOldJobIds(p) ==
  LET t == TABLES[step[p]] IN
  /\ phase[p] = "select"
  /\ cand' = [cand EXCEPT ![p][t] = AgedRows(t, cutoff[p])]
  /\ IF step[p] < 3
     THEN /\ step' = [step EXCEPT ![p] = @ + 1]
          /\ UNCHANGED phase
     ELSE /\ step' = [step EXCEPT ![p] = 1]
          /\ phase' = [phase EXCEPT ![p] = "check"]
  /\ UNCHANGED <<storeVars, cutoff, verified, deleted, kept, result, crashes>>

(* mutant: the guard runs only when trace's own turn to be deleted comes *)
CheckTraceLate(p) ==
  /\ \/ /\ phase[p] = "check"
        /\ phase' = [phase EXCEPT ![p] = "verify"]
        /\ UNCHANGED result
     \/ /\ phase[p] = "verify" /\ DELETE_ORDER[step[p]] = "trace"
        /\ \E j \in cand[p]["trace"] \cap Rows("trace") :
             Implausible(landing["trace"][j])
        /\ phase' = [phase EXCEPT ![p] = "exit"]
        /\ result' = [result EXCEPT ![p] = "aborted"]
  /\ UNCHANGED <<storeVars, step, cutoff, cand, verified, deleted, kept,
                 crashes>>

(* check_trace_plausibility over the trace rows of the candidate set.      *)
CheckTracePlausibility(p) ==
  /\ phase[p] = "check"
  /\ IF \E j \in cand[p]["trace"] \cap Rows("trace") :
          Implausible(landing["trace"][j])
     THEN /\ phase' = [phase EXCEPT ![p] = "exit"]
          /\ result' = [result EXCEPT ![p] = "aborted"]
     ELSE /\ phase' = [phase EXCEPT ![p] = "verify"]
          /\ UNCHANGED result
  /\ UNCHANGED <<storeVars, step, cutoff, cand, verified, deleted, kept,
                 crashes>>

(* mutants: presence looked up in one fixed table; no presence check *)
PresentInJobInfo(t, S) == S \cap Replicated("job_info")
PresumedPresent(t, S) == S

(* classify_and_delete: present_job_ids scans one snapshot of the Iceberg  *)
(* table, loaded once, and splits the candidates.                          *)
PresentJobIds(t, S) == S \cap Replicated(t)

ClassifyCandidates(p) ==
  LET t == DELETE_ORDER[step[p]]
      present == PresentJobIds(t, cand[p][t])
  IN
  /\ phase[p] = "verify"
  /\ verified' = [verified EXCEPT ![p] = present]
  /\ kept' = [kept EXCEPT ![p] = @ \cup ({t} \X (cand[p][t] \ present))]
  /\ phase' = [phase EXCEPT ![p] = "delete"]
  /\ UNCHANGED <<storeVars, step, cutoff, cand, deleted, result, crashes>>

(* One bounded DELETE and its commit.  The order of the verified list is   *)
(* that of an unordered SELECT DISTINCT.                                   *)
Batches(S) ==
  {B \in SUBSET S : /\ Cardinality(B) <= BatchSize
                    /\ Cardinality(B) = BatchSize \/ B = S}

(* mutant: a batch stays on the list until its rows are gone *)
DeleteBatchUntilGone(p) ==
  LET t == DELETE_ORDER[step[p]] IN
  /\ phase[p] = "delete"
  /\ verified[p] # {}
  /\ \E batch \in Batches(verified[p]) :
       LET gone == DeletableRows(t, batch, cutoff[p]) IN
       /\ landing' = [landing EXCEPT ![t] = Without(@, gone)]
       /\ deleted' = [deleted EXCEPT ![p] = @ \cup ({t} \X gone)]
       /\ verified' = [verified EXCEPT ![p] = @ \ gone]
  /\ UNCHANGED <<now, iceberg, phase, step, cutoff, cand, kept, result,
                 crashes>>

DeleteBatch(p) ==
  LET t == DELETE_ORDER[step[p]] IN
  /\ phase[p] = "delete"
  /\ verified[p] # {}
  /\ \E batch \in Batches(verified[p]) :
       LET gone == DeletableRows(t, batch, cutoff[p]) IN
       /\ landing' = [landing EXCEPT ![t] = Without(@, gone)]
       /\ deleted' = [deleted EXCEPT ![p] = @ \cup ({t} \X gone)]
       /\ verified' = [verified EXCEPT ![p] = @ \ batch]
  /\ UNCHANGED <<now, iceberg, phase, step, cutoff, cand, kept, result,
                 crashes>>

(* mutant: the exit code of the last table instead of the total *)
ExitCodeOfLastTable(p) ==
  IF kept[p] \cap ({DELETE_ORDER[3]} \X Jobs) = {} THEN "ok" ELSE "unverified"

(* exit_code: non-zero when any row was kept unverified. *)
ExitCode(p) == IF kept[p] = {} THEN "ok" ELSE "unverified"

(* mutant: one table too many *)
FinishTableOffByOne(p) ==
  /\ phase[p] = "delete"
  /\ verified[p] = {}
  /\ step' = [step EXCEPT ![p] = @ + 1]
  /\ phase' = [phase EXCEPT ![p] = IF step[p] <= 3 THEN "verify" ELSE "exit"]
  /\ result' = [result EXCEPT ![p] = ExitCode(p)]
  /\ UNCHANGED <<storeVars, cutoff, cand, verified, deleted, kept, crashes>>

FinishTable(p) ==
  /\ phase[p] = "delete"
  /\ verified[p] = {}
  /\ IF step[p] < 3
     THEN /\ step' = [step EXCEPT ![p] = @ + 1]
          /\ phase' = [phase EXCEPT ![p] = "verify"]
          /\ UNCHANGED result
     ELSE /\ step' = [step EXCEPT ![p] = 1]
          /\ phase' = [phase EXCEPT ![p] = "exit"]
          /\ result' = [result EXCEPT ![p] = ExitCode(p)]
  /\ UNCHANGED <<storeVars, cutoff, cand, verified, deleted, kept, crashes>>

(* An exception (PostgreSQL, Lakekeeper), a pod kill or the workflow       *)
(* deadline: committed batches stay, the process memory is lost.           *)
Crash(p) ==
  /\ phase[p] \in Active
  /\ crashes < MaxCrashes
  /\ crashes' = crashes + 1
  /\ phase' = [phase EXCEPT ![p] = "exit"]
  /\ step' = [step EXCEPT ![p] = 1]
  /\ cand' = [cand EXCEPT ![p] = NoCandidates]
  /\ verified' = [verified EXCEPT ![p] = {}]
  /\ result' = [result EXCEPT ![p] = "failed"]
  /\ UNCHANGED <<storeVars, cutoff, deleted, kept>>

PassStep(p) ==
  \/ SelectOldJobIds(p)
  \/ CheckTracePlausibility(p)
  \/ ClassifyCandidates(p)
  \/ DeleteBatch(p)
  \/ FinishTable(p)

RetentionNext == \E p \in Passes : Start(p) \/ PassStep(p) \/ Crash(p)

-----------------------------------------------------------------------------
(* Ingestion as retention sees it: the landing rows S of one table, in     *)
(* their current version, get into the Iceberg table in one commit.        *)
Replicate(t, S) ==
  /\ iceberg' = [iceberg EXCEPT ![t] = Upsert(@, [j \in S |-> landing[t][j]])]
  /\ UNCHANGED <<now, landing>>

Ingestion ==
  \E t \in Table : \E j \in Rows(t) : Replicate(t, {j})

Next ==
  \/ RetentionNext
  \/ (Environment \/ Ingestion) /\ UNCHANGED <<passVars, crashes>>

Spec == Init /\ [][Next]_vars

(* A running pass is a process that keeps executing: its own next step is  *)
(* always enabled until it ends, so weak fairness is what the operating    *)
(* system gives it.  Starting, crashing, writing and ingesting are not     *)
(* promised by anything.                                                   *)
FairSpec == Spec /\ \A p \in Passes : WF_vars(PassStep(p))

-----------------------------------------------------------------------------
(* Properties.                                                             *)

(* A landing row leaves only when its job_id is in the Iceberg table it    *)
(* replicates to, whatever ran between the presence check, made once per   *)
(* table, and the DELETE of its batch (classify_and_delete).               *)
OnlyReplicatedLeave ==
  \A t \in Table : \A j \in Rows(t) :
    j \notin DOMAIN landing'[t] => j \in Replicated(t)
DeletesOnlyReplicated == [][OnlyReplicatedLeave]_vars

(* A job_info or trace row is out of the retention window at the moment it *)
(* is deleted, even when it was updated after the candidate SELECT: the    *)
(* DELETE re-asserts the age (TOCTOU note above _JOB_INFO_DELETE_SQL).     *)
OnlyOldLeave ==
  \A t \in {"job_info", "trace"} : \A j \in Rows(t) :
    j \notin DOMAIN landing'[t] => landing[t][j] + RetentionDays < now
DeletesOnlyOld == [][OnlyOldLeave]_vars

(* The job_info row of j may still appear for the first time. *)
MayStillLand(j) ==
  /\ j \notin Rows("job_info") \cup Replicated("job_info")
  /\ LandsInOrder("job_info", j)

(* A mon_jdls row leaves only with a parent out of the retention window or *)
(* gone: never while its parent is young again, and never before a parent  *)
(* that simply has not landed yet (_MON_JDLS_DELETE_SQL, both branches).   *)
JdlNeedsNoParent ==
  \A j \in Rows("mon_jdls") :
    j \notin DOMAIN landing'["mon_jdls"] =>
      IF j \in Rows("job_info")
      THEN landing["job_info"][j] + RetentionDays < now
      ELSE ~MayStillLand(j)
JdlLeavesWithItsParent == [][JdlNeedsNoParent]_vars

(* A pass that exits 0 has really collected its candidates: each is gone,  *)
(* or has become too young for the cutoff of the pass.  Deleting job_info  *)
(* before mon_jdls breaks it (the comment above _DELETE_ORDER).  Holds for *)
(* a pass that no other pass overlaps.                                     *)
CleanExitCollects ==
  \A p \in Passes : phase[p] = "exit" /\ result[p] = "ok" =>
    \A t \in Table : cand[p][t] \cap AgedRows(t, cutoff[p]) = {}

(* Exit 0 is a statement about every candidate of every table: all of them *)
(* were found in Iceberg (exit_code over the sum of the three tables).     *)
ExitZeroMeansReplicated ==
  \A p \in Passes : phase[p] = "exit" /\ result[p] = "ok" =>
    \A t \in Table : cand[p][t] \subseteq Replicated(t)

(* The plausibility guard runs before every delete of the pass, of any     *)
(* table: an aborted pass has deleted nothing (run_retention_pass).        *)
AbortDeletesNothing ==
  \A p \in Passes : result[p] = "aborted" => deleted[p] = {}

(* A pass that keeps running ends: the batch loop always consumes its      *)
(* list, also when every row of a batch revived and no row was deleted.    *)
PassTerminates ==
  \A p \in Passes : phase[p] = "select" ~> phase[p] = "exit"

(* The retention pass implements the hand-over contract of Handoff. *)
HeldRows == {r \in Table \X Jobs : r[2] \in Rows(r[1])}
LakeRows == {r \in Table \X Jobs : r[2] \in Replicated(r[1])}
Contract == INSTANCE Handoff WITH
  Row <- Table \X Jobs, held <- HeldRows, lake <- LakeRows
ImplementsHandoff == Contract!HandoffSpec

-----------------------------------------------------------------------------
(* The inductive invariant behind the safety properties, per pass.         *)

(* What is still to be deleted was seen in the table's Iceberg twin.       *)
VerifiedAreReplicated(p) ==
  phase[p] = "delete" => verified[p] \subseteq Replicated(DELETE_ORDER[step[p]])

(* The cutoff of a running pass is a full window in the past. *)
CutoffIsPast(p) ==
  phase[p] \in Active => cutoff[p] <= now - RetentionDays

(* The guard precedes the first table: nothing is deleted before it, nor   *)
(* by a pass it stopped.                                                   *)
GuardFirst(p) ==
  /\ phase[p] \in {"select", "check"} \/ result[p] = "aborted" => deleted[p] = {}
  /\ phase[p] = "check" => step[p] = 1

(* A running pass has no exit status yet. *)
RunningHasNoResult(p) ==
  phase[p] \in Active => result[p] = "none"

(* The i-th table of the delete order has been classified by this pass. *)
Classified(p, i) ==
  \/ phase[p] = "verify" /\ i < step[p]
  \/ phase[p] = "delete" /\ i <= step[p]
  \/ phase[p] = "exit" /\ result[p] = "ok"

(* Every classified candidate is in Iceberg or reported as kept. *)
CandidatesAccounted(p) ==
  /\ \A i \in 1..3 : Classified(p, i) =>
       \A j \in cand[p][DELETE_ORDER[i]] :
         j \in Replicated(DELETE_ORDER[i]) \/ <<DELETE_ORDER[i], j>> \in kept[p]
  /\ phase[p] = "exit" /\ result[p] = "ok" => kept[p] = {}

PassInv(p) ==
  /\ VerifiedAreReplicated(p)
  /\ CutoffIsPast(p)
  /\ GuardFirst(p)
  /\ RunningHasNoResult(p)
  /\ CandidatesAccounted(p)

IInv == TypeOK /\ \A p \in Passes : PassInv(p)

-----------------------------------------------------------------------------
(* What the repository says and the code does not do.                      *)

(* The module docstring: the check guards against ever deleting a landing  *)
(* row before it has been successfully replicated, even if ingestion is    *)
(* lagging.  The row that is deleted is its current version.               *)
OnlyCurrentLeave ==
  \A t \in {"job_info", "trace"} : \A j \in Rows(t) :
    j \notin DOMAIN landing'[t] =>
      j \in Replicated(t) /\ iceberg[t][j] = landing[t][j]
DeletesOnlyCurrentVersion == [][OnlyCurrentLeave]_vars
=============================================================================
