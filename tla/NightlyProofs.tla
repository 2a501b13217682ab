--------------------------- MODULE NightlyProofs ---------------------------
(***************************************************************************)
(* What the nightly workflow guarantees for every set of jobs, every       *)
(* deadline and any number of failed nights: ingestion and retention keep  *)
(* their types in the composition, and with one pod per task, rows that    *)
(* land promptly and a deadline no longer than the retention window,       *)
(* retention finds every old row in Iceberg in its current version.  The   *)
(* facts about a pass and about a run alone come from RetentionProofs and  *)
(* ResetProofs.                                                            *)
(***************************************************************************)
EXTENDS Nightly, RetentionProofs, ResetProofs

-----------------------------------------------------------------------------
(* Type correctness. *)

NightlyTypes ==
  /\ NightlyTypeOK
  /\ local \in [Runs -> [Table -> Watermark]]
  /\ bucket \in [Table -> Watermark]
  /\ \A t \in Table : IsFiniteSet(Rows(t))

LEMMA NightlyTypeInit == NightlyInit => NightlyTypes
<1> SUFFICES ASSUME NightlyInit PROVE NightlyTypes
  OBVIOUS
<1>1. TypeOK /\ StoresTypeOK
  BY TypeInit DEF NightlyInit, TypeOK
<1>2. local \in [Runs -> [Table -> Watermark]] /\ bucket \in [Table -> Watermark]
  BY FreshIs DEF NightlyInit
<1>3. IngestTypeOK
  BY <1>1, <1>2, NoRowsIs, IngestAssumption DEF NightlyInit, IngestTypeOK, RunPhase
<1>4. NightlyTypeOK
  BY <1>1, <1>3, StoresAssumption DEF NightlyInit, NightlyTypeOK, Outcomes
<1>5. \A t \in Table : Rows(t) = {}
  BY NoRowsIs DEF NightlyInit, Init, StoresInit, Rows
<1> QED  BY <1>2, <1>4, <1>5, FS_EmptySet DEF NightlyTypes

(* A retention pass only takes rows out of landing: the verified old ones. *)
LEMMA PassTakes ==
  ASSUME TypeOK, NEW p \in Passes, Start(p) \/ PassStep(p) \/ Crash(p)
  PROVE  /\ now' = now /\ iceberg' = iceberg
         /\ \A t \in Table :
              /\ Rows(t)' \subseteq Rows(t)
              /\ \A j \in Rows(t)' : landing'[t][j] = landing[t][j]
              /\ \A j \in Rows(t) \ Rows(t)' :
                   phase[p] = "delete" /\ j \in AgedRows(t, cutoff[p])
<1>1. CASE DeleteBatch(p)
  <2>0. PICK t \in Table : t = DELETE_ORDER[step[p]]
    BY TablesAreTable DEF TypeOK
  <2>1. PICK chunk \in Batches(verified[p]) :
          landing' = [landing EXCEPT ![t] =
                        Without(@, DeletableRows(t, chunk, cutoff[p]))]
    BY <1>1, <2>0 DEF DeleteBatch
  <2>2. PICK gone : gone = DeletableRows(t, chunk, cutoff[p])
    OBVIOUS
  <2>3. gone \subseteq AgedRows(t, cutoff[p])
    BY <2>2 DEF DeletableRows
  <2>4. landing'[t] = Without(landing[t], gone) /\ \A u \in Table \ {t} : landing'[u] = landing[u]
    BY <2>1, <2>2 DEF TypeOK, StoresTypeOK
  <2>5. /\ DOMAIN landing'[t] = DOMAIN landing[t] \ gone
        /\ \A j \in DOMAIN landing[t] \ gone : landing'[t][j] = landing[t][j]
    <3>1. PICK f : f = landing[t]
      OBVIOUS
    <3>2. /\ DOMAIN Without(f, gone) = DOMAIN f \ gone
          /\ \A j \in DOMAIN f \ gone : Without(f, gone)[j] = f[j]
      BY ONLY WithoutIs
    <3> QED  BY <2>4, <3>1, <3>2
  <2>6. now' = now /\ iceberg' = iceberg /\ phase[p] = "delete"
    BY <1>1 DEF DeleteBatch
  <2> QED  BY <2>3, <2>4, <2>5, <2>6 DEF Rows
<1>2. CASE \/ Start(p) \/ SelectOldJobIds(p) \/ CheckTracePlausibility(p)
           \/ ClassifyCandidates(p) \/ FinishTable(p) \/ Crash(p)
  <2>1. UNCHANGED storeVars
    BY <1>2 DEF Start, SelectOldJobIds, CheckTracePlausibility, ClassifyCandidates,
                FinishTable, Crash
  <2> QED  BY <2>1 DEF storeVars, Rows
<1> QED  BY <1>1, <1>2 DEF PassStep

(* Each step of the workflow is a step of one of its parts.                *)
RunPart(r) ==
  /\ StartRun(r) \/ RunStep(r) \/ Kill(r)
  /\ UNCHANGED retentionPart
  /\ \/ /\ workflow \in Outcomes /\ StartRun(r)
        /\ workflow' = "run-nightly" /\ started' = now
     \/ /\ workflow = "run-nightly" /\ RunStep(r) /\ UNCHANGED <<workflow, started>>
     \/ /\ workflow = "run-nightly" /\ Kill(r) /\ workflow' = "Failed"
        /\ UNCHANGED started

PassPart(p) ==
  /\ Start(p) \/ PassStep(p) \/ Crash(p)
  /\ UNCHANGED <<ingestPart, started>>
  /\ \/ /\ workflow = "run-nightly" /\ Start(p) /\ workflow' = "run-retention"
        /\ \E r \in Runs : at[r] = "done"
     \/ workflow = "run-retention" /\ PassStep(p) /\ UNCHANGED workflow
     \/ workflow = "run-retention" /\ Crash(p) /\ workflow' = "Failed"

(* The workflow goes on or ends after retention. *)
WorkflowPart ==
  /\ UNCHANGED <<storeVars, ingestPart, retentionPart, started>>
  /\ workflow' \in {"check-freshness", "Succeeded", "Failed"}
  /\ \/ workflow = "run-retention" /\ \E p \in Passes : phase[p] = "exit"
     \/ workflow = "check-freshness"

LEMMA NightlySteps ==
  ASSUME NightlyNext
  PROVE  \/ \E r \in Runs : RunPart(r)
         \/ \E p \in Passes : PassPart(p)
         \/ WorkflowPart
         \/ NightlyTick
         \/ Writers
<1>1. ASSUME NEW r \in Runs, StartWorkflow(r) \/ IngestTask(r) \/ IngestTaskFails(r)
      PROVE  RunPart(r)
  BY <1>1 DEF StartWorkflow, IngestTask, IngestTaskFails, RunPart
<1>2. ASSUME NEW r \in Runs, NEW p \in Passes, StartRetention(r, p)
      PROVE  PassPart(p)
  BY <1>2 DEF StartRetention, PassPart
<1>3. ASSUME NEW p \in Passes, RetentionTask(p) \/ RetentionTaskFails(p)
      PROVE  PassPart(p)
  BY <1>3 DEF RetentionTask, RetentionTaskFails, PassPart
<1>4. ASSUME NEW p \in Passes, FinishRetention(p)
      PROVE  WorkflowPart
  BY <1>4 DEF FinishRetention, WorkflowPart
<1>5. CheckFreshness => WorkflowPart
  BY DEF CheckFreshness, WorkflowPart
<1> QED  BY <1>1, <1>2, <1>3, <1>4, <1>5 DEF NightlyNext, Progress

LEMMA NightlyTypeStep == NightlyTypes /\ [NightlyNext]_nightlyVars => NightlyTypes'
<1> SUFFICES ASSUME NightlyTypes, [NightlyNext]_nightlyVars PROVE NightlyTypes'
  OBVIOUS
<1>0. /\ IngestTypeOK /\ TypeOK /\ StoresTypeOK
      /\ workflow \in Tasks \cup Outcomes /\ started \in 1..MaxTime
      /\ local \in [Runs -> [Table -> Watermark]] /\ bucket \in [Table -> Watermark]
      /\ \A t \in Table : IsFiniteSet(Rows(t))
  BY DEF NightlyTypes, NightlyTypeOK, TypeOK
<1>1. ASSUME StoresTypeOK', UNCHANGED ingestPart
      PROVE  /\ IngestTypeOK' /\ local' \in [Runs -> [Table -> Watermark]]
             /\ bucket' \in [Table -> Watermark]
  BY <1>0, <1>1 DEF IngestTypeOK, ingestPart, runVars
<1>2. ASSUME StoresTypeOK', UNCHANGED retentionPart
      PROVE  TypeOK'
  BY <1>0, <1>2 DEF TypeOK, retentionPart, passVars
<1>3. ASSUME NEW r \in Runs, RunPart(r) PROVE NightlyTypes'
  <2>1. /\ IngestTypeOK' /\ landing' = landing
        /\ local' \in [Runs -> [Table -> Watermark]] /\ bucket' \in [Table -> Watermark]
    BY <1>0, <1>3, RunType DEF RunPart
  <2>2. workflow' \in Tasks \cup Outcomes /\ started' \in 1..MaxTime
    BY <1>0, <1>3 DEF RunPart, StoresTypeOK, Tasks, Outcomes
  <2>3. TypeOK'
    BY <1>2, <1>3, <2>1 DEF RunPart, IngestTypeOK
  <2> QED  BY <1>0, <2>1, <2>2, <2>3 DEF NightlyTypes, NightlyTypeOK, Rows
<1>4. ASSUME NEW p \in Passes, PassPart(p) PROVE NightlyTypes'
  <2>1. TypeOK' /\ StoresTypeOK'
    BY <1>0, <1>4, PassStepType DEF PassPart, TypeOK
  <2>2. \A t \in Table : Rows(t)' \subseteq Rows(t)
    BY <1>0, <1>4, PassTakes DEF PassPart
  <2>3. \A t \in Table : IsFiniteSet(Rows(t)')
    BY <1>0, <2>2, FS_Subset
  <2>4. workflow' \in Tasks \cup Outcomes /\ started' \in 1..MaxTime
    BY <1>0, <1>4 DEF PassPart, Tasks, Outcomes
  <2>5. UNCHANGED ingestPart
    BY <1>4 DEF PassPart
  <2> QED  BY <1>1, <2>1, <2>3, <2>4, <2>5 DEF NightlyTypes, NightlyTypeOK
<1>5. CASE WorkflowPart
  BY <1>0, <1>1, <1>2, <1>5
  DEF WorkflowPart, storeVars, StoresTypeOK, NightlyTypes, NightlyTypeOK, Tasks, Outcomes, Rows
<1>6. CASE NightlyTick \/ Writers
  <2>1. Environment /\ UNCHANGED <<ingestPart, retentionPart, workflow, started>>
    BY <1>6 DEF NightlyTick, Writers, Environment
  <2>2. StoresTypeOK' /\ \A t \in Table : IsFiniteSet(Rows(t)')
    BY <1>0, <2>1, LandingType
  <2> QED  BY <1>0, <1>1, <1>2, <2>1, <2>2 DEF NightlyTypes, NightlyTypeOK
<1>7. CASE UNCHANGED nightlyVars
  <2>1. UNCHANGED <<storeVars, ingestPart, retentionPart, workflow, started>>
    BY <1>7 DEF nightlyVars, ingestPart, retentionPart
  <2>2. StoresTypeOK' /\ \A t \in Table : Rows(t)' = Rows(t)
    BY <1>0, <2>1 DEF storeVars, StoresTypeOK, Rows
  <2> QED  BY <1>0, <1>1, <1>2, <2>1, <2>2 DEF NightlyTypes, NightlyTypeOK
<1> QED  BY <1>3, <1>4, <1>5, <1>6, <1>7, NightlySteps

(* Ingestion, retention, the workflow and its clock keep their types,      *)
(* through killed tasks, aborted passes and missed nights.                 *)
THEOREM NightlyTypeCorrect == NightlySpec => []NightlyTypeOK
<1>1. NightlySpec => []NightlyTypes
  BY NightlyTypeInit, NightlyTypeStep, PTL DEF NightlySpec
<1>2. NightlyTypes => NightlyTypeOK
  BY DEF NightlyTypes
<1> QED  BY <1>1, <1>2, PTL

-----------------------------------------------------------------------------
(* The inductive invariant. *)

Aged == {"job_info", "trace"}

(* What the nights are: one pod per task, rows that land when they are     *)
(* stamped, no initial value above the first stamp, a deadline within the  *)
(* retention window.                                                       *)
OrderlyNights ==
  /\ OneRun /\ \A p, q \in Passes : p = q
  /\ MaxLag = 0 /\ CorruptStamps = {}
  /\ \A t \in Aged : InitialValue[t] <= 1
  /\ Deadline <= RetentionDays

(* The rows a table ever had, deleted ones in their last version.          *)
Known(t) == Upsert(iceberg[t], landing[t])

(* Every landing row with a stamp below c is in Iceberg as it is.          *)
CoveredBelow(c) ==
  \A t \in Aged : \A j \in Rows(t) :
    landing[t][j] < c => j \in Replicated(t) /\ iceberg[t][j] = landing[t][j]

Calendar ==
  /\ started <= now
  /\ workflow \in Tasks => now <= started + Deadline

(* Each task runs in its own part of the workflow. *)
Phases ==
  /\ \A r \in Runs : at[r] \in Running => workflow = "run-nightly"
  /\ workflow = "run-nightly" => \A r \in Runs : at[r] \in Running \cup {"done"}
  /\ \A p \in Passes : phase[p] \in Active => workflow = "run-retention"

StampsInPast == \A t \in Aged : \A j \in DOMAIN Known(t) : Known(t)[j] \in 1..now

(* The extraction of t is behind this run. *)
Extracted(r, t) ==
  \E i \in 1..3 : /\ SOURCES[i] = t
                  /\ i < source[r] \/ (i = source[r] /\ at[r] # "extract")

(* A running run: what its watermark passes is in Iceberg or in its hands, *)
(* and it has passed every row from before the night.                      *)
RunSafe(r, t) ==
  /\ DOMAIN InHand(r, t) \subseteq Rows(t)
  /\ Sound(Known(t), t, local[r][t])
  /\ Covers(Known(t), t, local[r][t], Upsert(iceberg[t], InHand(r, t)))
  /\ \A j \in DOMAIN Known(t) :
       PassedIn(Known(t), t, bucket[t], j) => PassedIn(Known(t), t, local[r][t], j)
  /\ Extracted(r, t) => \A j \in Rows(t) :
       landing[t][j] < started => PassedIn(Known(t), t, local[r][t], j)

BucketSafe(t) ==
  /\ Sound(Known(t), t, bucket[t])
  /\ Covers(Known(t), t, bucket[t], iceberg[t])

IngestSafe ==
  /\ \A t \in Aged : BucketSafe(t)
  /\ \A r \in Runs : at[r] \in Running => \A t \in Aged : RunSafe(r, t)
  /\ workflow = "run-nightly" => \A r \in Runs : at[r] = "done" => CoveredBelow(started)

(* A running pass looks only at rows that Iceberg has. *)
PassSafe(p) ==
  phase[p] \in Active =>
    /\ cutoff[p] <= now /\ CoveredBelow(cutoff[p])
    /\ \A t \in Aged : cand[p][t] \subseteq Replicated(t)

NightlyInv ==
  /\ NightlyTypes /\ Calendar /\ Phases /\ StampsInPast /\ IngestSafe
  /\ \A p \in Passes : PassSafe(p)
  /\ NothingUnverified

LEMMA AgedIsTable == Aged \subseteq Table /\ "mon_jdls" \notin Aged
BY DEF Aged, Table

LEMMA KnownIs ==
  ASSUME StoresTypeOK, NEW t \in Table
  PROVE  /\ Known(t) \in Contents
         /\ DOMAIN Known(t) = Rows(t) \cup Replicated(t)
         /\ \A j \in Rows(t) : Known(t)[j] = landing[t][j]
         /\ \A j \in Replicated(t) \ Rows(t) : Known(t)[j] = iceberg[t][j]
<1>1. PICK f \in Contents : f = landing[t]
  BY DEF StoresTypeOK
<1>2. PICK g \in Contents : g = iceberg[t]
  BY DEF StoresTypeOK
<1>3. /\ DOMAIN Upsert(g, f) = DOMAIN g \cup DOMAIN f
      /\ \A j \in DOMAIN f : Upsert(g, f)[j] = f[j]
      /\ \A j \in DOMAIN g \ DOMAIN f : Upsert(g, f)[j] = g[j]
      /\ Upsert(g, f) \in Contents
  BY UpsertIs
<1> QED  BY <1>1, <1>2, <1>3 DEF Known, Rows, Replicated

LEMMA KnownNext ==
  ASSUME StoresTypeOK', NEW t \in Table
  PROVE  /\ Known(t)' \in Contents
         /\ DOMAIN Known(t)' = Rows(t)' \cup Replicated(t)'
         /\ \A j \in Rows(t)' : Known(t)'[j] = landing'[t][j]
         /\ \A j \in Replicated(t)' \ Rows(t)' : Known(t)'[j] = iceberg'[t][j]
<1>1. PICK f \in Contents : f = landing'[t]
  BY DEF StoresTypeOK
<1>2. PICK g \in Contents : g = iceberg'[t]
  BY DEF StoresTypeOK
<1>3. /\ DOMAIN Upsert(g, f) = DOMAIN g \cup DOMAIN f
      /\ \A j \in DOMAIN f : Upsert(g, f)[j] = f[j]
      /\ \A j \in DOMAIN g \ DOMAIN f : Upsert(g, f)[j] = g[j]
      /\ Upsert(g, f) \in Contents
  BY UpsertIs
<1> QED  BY <1>1, <1>2, <1>3 DEF Known, Rows, Replicated

(* Two contents with the same rows are the same. *)
LEMMA SameContents ==
  ASSUME NEW f \in Contents, NEW g \in Contents, DOMAIN f = DOMAIN g,
         \A j \in DOMAIN f : f[j] = g[j]
  PROVE  f = g
BY ContentsIs

LEMMA NightlyInitInv == NightlyInit /\ OrderlyNights => NightlyInv
<1> SUFFICES ASSUME NightlyInit, OrderlyNights PROVE NightlyInv
  OBVIOUS
<1>1. NightlyTypes /\ StoresTypeOK
  BY NightlyTypeInit DEF NightlyTypes, NightlyTypeOK, TypeOK
<1>2. \A t \in Table : Rows(t) = {} /\ Replicated(t) = {}
  BY NoRowsIs DEF NightlyInit, Init, StoresInit, Rows, Replicated
<1>3. \A t \in Table : Known(t) \in Contents /\ DOMAIN Known(t) = {}
  BY <1>1, <1>2, KnownIs
<1>4. /\ now = 1 /\ started = 1 /\ workflow = "none" /\ bucket = Fresh
      /\ \A r \in Runs : at[r] = "idle"
      /\ \A p \in Passes : phase[p] = "idle" /\ kept[p] = {}
  BY DEF NightlyInit, Init, StoresInit
<1>5. \A t \in Aged : BucketSafe(t)
  BY <1>3, <1>4, AgedIsTable, FreshPassesNothing DEF BucketSafe, Covers
<1>6. IngestSafe
  BY <1>4, <1>5 DEF IngestSafe, Running
<1>7. Calendar /\ Phases /\ StampsInPast /\ NothingUnverified
  BY <1>3, <1>4, AgedIsTable
  DEF Calendar, Phases, StampsInPast, NothingUnverified, Tasks, Running, Active
<1>8. \A p \in Passes : PassSafe(p)
  BY <1>4 DEF PassSafe, Active
<1> QED  BY <1>1, <1>6, <1>7, <1>8 DEF NightlyInv

-----------------------------------------------------------------------------
(* Retention, and the rest of the workflow. *)

LEMMA InvTypes ==
  ASSUME NightlyInv
  PROVE  /\ StoresTypeOK /\ TypeOK /\ IngestTypeOK
         /\ now \in Nat /\ started \in Nat /\ Deadline \in Nat /\ RetentionDays \in Nat
         /\ \A t \in Table : \A j \in Rows(t) : landing[t][j] \in Nat
<1>1. StoresTypeOK /\ TypeOK /\ IngestTypeOK /\ started \in 1..MaxTime
  BY DEF NightlyInv, NightlyTypes, NightlyTypeOK, TypeOK
<1>2. now \in Nat /\ started \in Nat /\ Deadline \in Nat /\ RetentionDays \in Nat
  BY <1>1, StoresAssumption, NightlyAssumption, RetentionAssumption DEF StoresTypeOK
<1>3. ASSUME NEW t \in Table, NEW j \in Rows(t) PROVE landing[t][j] \in Nat
  <2>1. PICK f \in Contents : f = landing[t]
    BY <1>1 DEF StoresTypeOK
  <2>2. f[j] \in Stamp
    BY <2>1, ContentsIs DEF Rows
  <2>3. Stamp \subseteq Nat
    BY StoresAssumption DEF Stamp
  <2> QED  BY <2>1, <2>2, <2>3
<1> QED  BY <1>1, <1>2, <1>3

(* A pass deletes only rows that Iceberg has as they are. *)
LEMMA PassDeletesCurrent ==
  ASSUME NightlyInv, NEW p \in Passes, PassPart(p), NEW t \in Aged, NEW j \in Rows(t),
         j \notin Rows(t)'
  PROVE  j \in Replicated(t) /\ iceberg[t][j] = landing[t][j]
<1>1. phase[p] = "delete" /\ j \in AgedRows(t, cutoff[p])
  BY InvTypes, PassTakes, AgedIsTable DEF PassPart
<1>2. landing[t][j] < cutoff[p]
  BY <1>1, AgedIsTable DEF AgedRows, OlderThan
<1> QED  BY <1>1, <1>2 DEF NightlyInv, PassSafe, CoveredBelow, Active

LEMMA PassKeepsKnown ==
  ASSUME NightlyInv, NEW p \in Passes, PassPart(p), NEW t \in Aged
  PROVE  Known(t)' = Known(t)
<1>1. StoresTypeOK /\ StoresTypeOK' /\ t \in Table
  BY InvTypes, AgedIsTable, PassStepType DEF PassPart, TypeOK
<1>2. /\ iceberg' = iceberg /\ Rows(t)' \subseteq Rows(t)
      /\ \A j \in Rows(t)' : landing'[t][j] = landing[t][j]
  BY <1>1, InvTypes, PassTakes DEF PassPart
<1>3. \A j \in Rows(t) \ Rows(t)' : j \in Replicated(t) /\ iceberg[t][j] = landing[t][j]
  BY PassDeletesCurrent
<1>4. /\ Known(t) \in Contents /\ DOMAIN Known(t) = Rows(t) \cup Replicated(t)
      /\ \A j \in Rows(t) : Known(t)[j] = landing[t][j]
      /\ \A j \in Replicated(t) \ Rows(t) : Known(t)[j] = iceberg[t][j]
  BY <1>1, KnownIs
<1>5. /\ Known(t)' \in Contents /\ DOMAIN Known(t)' = Rows(t)' \cup Replicated(t)'
      /\ \A j \in Rows(t)' : Known(t)'[j] = landing'[t][j]
      /\ \A j \in Replicated(t)' \ Rows(t)' : Known(t)'[j] = iceberg'[t][j]
  BY <1>1, KnownNext
<1>6. Replicated(t)' = Replicated(t)
  BY <1>2 DEF Replicated
<1>7. DOMAIN Known(t)' = DOMAIN Known(t)
  BY <1>2, <1>3, <1>4, <1>5, <1>6
<1>8. ASSUME NEW j \in DOMAIN Known(t)' PROVE Known(t)'[j] = Known(t)[j]
  BY <1>2, <1>3, <1>4, <1>5, <1>6, <1>8
<1> QED  BY <1>4, <1>5, <1>7, <1>8, SameContents

(* Rows below a fixed cutoff stay covered while only rows leave landing.   *)
LEMMA CoveredBelowStays ==
  ASSUME NEW c, CoveredBelow(c), iceberg' = iceberg,
         \A t \in Aged : /\ Rows(t)' \subseteq Rows(t)
                         /\ \A j \in Rows(t)' : landing'[t][j] = landing[t][j]
  PROVE  CoveredBelow(c)'
BY DEF CoveredBelow, Replicated

LEMMA PassKeepsIngest ==
  ASSUME NightlyInv, OrderlyNights, NEW p \in Passes, PassPart(p)
  PROVE  Calendar' /\ Phases' /\ StampsInPast' /\ IngestSafe'
<1>1. /\ now' = now /\ iceberg' = iceberg /\ started' = started
      /\ UNCHANGED <<at, source, local, batch, bucket>>
  BY InvTypes, PassTakes DEF PassPart, ingestPart, runVars
<1>2. \A r \in Runs : at[r] \notin Running
  BY DEF PassPart, NightlyInv, Phases, OrderlyNights, OneRun, Running
<1>3. workflow' \in {"run-retention", "Failed"} /\ workflow \in Tasks
  BY DEF PassPart, Tasks
<1>4. Calendar'
  BY <1>1, <1>3 DEF NightlyInv, Calendar
<1>5. Phases'
  <2>1. ASSUME NEW q \in Passes, phase'[q] \in Active PROVE workflow' = "run-retention"
    <3>1. q = p
      BY DEF OrderlyNights
    <3>2. ~ Crash(p)
      BY <2>1, <3>1, InvTypes DEF Crash, Active, TypeOK
    <3> QED  BY <3>2 DEF PassPart
  <2> QED  BY <1>1, <1>2, <1>3, <2>1 DEF Phases
<1>6. StampsInPast'
  BY <1>1, PassKeepsKnown DEF NightlyInv, StampsInPast
<1>7. ASSUME NEW t \in Aged PROVE BucketSafe(t)'
  BY <1>1, <1>7, PassKeepsKnown DEF NightlyInv, IngestSafe, BucketSafe
<1>8. IngestSafe'
  BY <1>1, <1>2, <1>3, <1>7 DEF IngestSafe
<1> QED  BY <1>4, <1>5, <1>6, <1>8

(* A pass starts with a cutoff before the night whose rows are all in.     *)
LEMMA CutoffIsCovered ==
  ASSUME NightlyInv, OrderlyNights, NEW p \in Passes, PassPart(p), Start(p)
  PROVE  now - RetentionDays <= now /\ CoveredBelow(now - RetentionDays)
<1>0. /\ now \in Nat /\ started \in Nat /\ Deadline \in Nat /\ RetentionDays \in Nat
      /\ \A t \in Table : \A j \in Rows(t) : landing[t][j] \in Nat
  BY InvTypes
<1>1. phase[p] \notin Active
  BY DEF Start, Active
<1>2. workflow = "run-nightly" /\ CoveredBelow(started)
  <2>1. CASE workflow = "run-nightly" /\ \E r \in Runs : at[r] = "done"
    BY <2>1 DEF NightlyInv, IngestSafe
  <2>2. ASSUME PassStep(p) \/ Crash(p) PROVE FALSE
    BY <1>1, <2>2 DEF PassStep, Crash, SelectOldJobIds, CheckTracePlausibility,
                      ClassifyCandidates, DeleteBatch, FinishTable, Active
  <2> QED  BY <2>1, <2>2 DEF PassPart
<1>3. now - RetentionDays <= started
  BY <1>0, <1>2 DEF NightlyInv, Calendar, OrderlyNights, Tasks
<1>4. CoveredBelow(now - RetentionDays)
  BY <1>0, <1>2, <1>3, AgedIsTable DEF CoveredBelow
<1> QED  BY <1>0, <1>4

LEMMA PassKeepsPass ==
  ASSUME NightlyInv, OrderlyNights, NEW p \in Passes, PassPart(p)
  PROVE  PassSafe(p)' /\ kept'[p] \cap (Aged \X Jobs) = {}
<1>1. /\ now' = now /\ iceberg' = iceberg /\ TypeOK
      /\ \A t \in Aged : /\ Rows(t)' \subseteq Rows(t)
                         /\ \A j \in Rows(t)' : landing'[t][j] = landing[t][j]
  BY InvTypes, PassTakes, AgedIsTable DEF PassPart
<1>2. \A t \in Table : Replicated(t)' = Replicated(t)
  BY <1>1 DEF Replicated
<1>3. kept[p] \cap (Aged \X Jobs) = {}
  BY DEF NightlyInv, NothingUnverified, Aged
<1>4. PassSafe(p)
  BY DEF NightlyInv
<1>5. CASE Start(p)
  <2>1. /\ cutoff'[p] = now - RetentionDays /\ kept'[p] = {}
        /\ \A t \in Table : cand'[p][t] = {}
    BY <1>1, <1>5 DEF Start, TypeOK, NoCandidates
  <2>2. now - RetentionDays <= now /\ CoveredBelow(now - RetentionDays)
    BY <1>5, CutoffIsCovered
  <2>3. CoveredBelow(now - RetentionDays)'
    <3>1. PICK c : c = now - RetentionDays
      OBVIOUS
    <3>2. CoveredBelow(c)'
      BY <1>1, <2>2, <3>1, CoveredBelowStays
    <3> QED  BY <1>1, <3>1, <3>2
  <2>4. CoveredBelow(cutoff[p])'
    BY <1>1, <2>1, <2>3 DEF CoveredBelow
  <2> QED  BY <1>1, <2>1, <2>2, <2>4, AgedIsTable DEF PassSafe
<1>6. ASSUME PassStep(p) \/ Crash(p)
      PROVE  phase[p] \in Active /\ cutoff' = cutoff
  BY <1>6 DEF PassStep, Crash, SelectOldJobIds, CheckTracePlausibility,
              ClassifyCandidates, DeleteBatch, FinishTable, Active
<1>7. ASSUME PassStep(p) \/ Crash(p)
      PROVE  cutoff'[p] <= now' /\ CoveredBelow(cutoff[p])'
  <2>1. PICK c : c = cutoff[p]
    OBVIOUS
  <2>2. c <= now /\ CoveredBelow(c)
    BY <1>4, <1>6, <1>7, <2>1 DEF PassSafe
  <2>3. CoveredBelow(c)'
    BY <1>1, <2>2, CoveredBelowStays
  <2>4. c = cutoff'[p]
    BY <1>6, <1>7, <2>1
  <2> QED  BY <1>1, <2>2, <2>3, <2>4 DEF CoveredBelow
<1>8. ASSUME PassStep(p) \/ Crash(p), \A t \in Aged : cand'[p][t] \subseteq Replicated(t),
             kept'[p] \cap (Aged \X Jobs) = {}
      PROVE  PassSafe(p)' /\ kept'[p] \cap (Aged \X Jobs) = {}
  BY <1>2, <1>7, <1>8, AgedIsTable DEF PassSafe
<1>9. ASSUME PassStep(p) \/ Crash(p)
      PROVE  \A t \in Aged : cand[p][t] \subseteq Replicated(t)
  BY <1>4, <1>6, <1>9 DEF PassSafe
<1>10. CASE SelectOldJobIds(p)
  <2>0. PICK u \in Table : u = TABLES[step[p]]
    BY <1>1, TablesAreTable DEF TypeOK
  <2>1. /\ cand'[p][u] = AgedRows(u, cutoff[p]) /\ kept' = kept
        /\ \A t \in Table \ {u} : cand'[p][t] = cand[p][t]
    BY <1>1, <1>10, <2>0 DEF SelectOldJobIds, TypeOK
  <2>2. u \in Aged => AgedRows(u, cutoff[p]) \subseteq Replicated(u)
    BY <1>4, <1>6, <1>10, AgedIsTable
    DEF PassStep, PassSafe, AgedRows, OlderThan, CoveredBelow
  <2> QED  BY <1>3, <1>8, <1>9, <1>10, <2>1, <2>2, AgedIsTable DEF PassStep
<1>11. CASE ClassifyCandidates(p)
  <2>0. PICK u \in Table : u = DELETE_ORDER[step[p]]
    BY <1>1, TablesAreTable DEF TypeOK
  <2>1. /\ cand' = cand
        /\ kept'[p] = kept[p] \cup ({u} \X (cand[p][u] \ PresentJobIds(u, cand[p][u])))
    BY <1>1, <1>11, <2>0 DEF ClassifyCandidates, TypeOK
  <2>2. u \in Aged => cand[p][u] \ PresentJobIds(u, cand[p][u]) = {}
    BY <1>9, <1>11 DEF PresentJobIds, PassStep
  <2>3. kept'[p] \cap (Aged \X Jobs) = {}
    BY <1>3, <2>1, <2>2
  <2> QED  BY <1>8, <1>9, <1>11, <2>1, <2>3 DEF PassStep
<1>12. CASE CheckTracePlausibility(p) \/ DeleteBatch(p) \/ FinishTable(p)
  <2>1. cand' = cand /\ kept' = kept
    BY <1>12 DEF CheckTracePlausibility, DeleteBatch, FinishTable
  <2> QED  BY <1>3, <1>8, <1>9, <1>12, <2>1 DEF PassStep
<1>13. CASE Crash(p)
  <2>1. kept' = kept /\ \A t \in Table : cand'[p][t] = {}
    BY <1>1, <1>13 DEF Crash, TypeOK, NoCandidates
  <2> QED  BY <1>3, <1>8, <1>13, <2>1, AgedIsTable
<1> QED  BY <1>5, <1>10, <1>11, <1>12, <1>13 DEF PassPart, PassStep

-----------------------------------------------------------------------------
(* The writers, the clock and the workflow. *)

LEMMA WritersLand ==
  ASSUME NightlyInv, OrderlyNights, Writers
  PROVE  /\ UNCHANGED <<ingestPart, retentionPart, workflow, started>>
         /\ \E t \in Table, j \in Jobs, s \in Stamp :
              Land(t, j, s) /\ (t \in Aged => s = now /\ Newer(t, j, s))
<1>0. now \in 1..MaxTime /\ now \in Nat
  BY InvTypes DEF StoresTypeOK
<1>1. now \in Stamp /\ NoStamp \in Stamp
  BY <1>0, StoresAssumption DEF Stamp, NoStamp
<1>2. ASSUME NEW j \in Jobs, WriteJobInfo(j)
      PROVE  Land("job_info", j, now) /\ Newer("job_info", j, now)
  <2>1. PICK s \in (now - MaxLag)..now : Newer("job_info", j, s) /\ Land("job_info", j, s)
    BY <1>2 DEF WriteJobInfo
  <2>2. s = now
    BY <1>0, <2>1 DEF OrderlyNights
  <2> QED  BY <2>1, <2>2
<1>3. ASSUME NEW j \in Jobs, WriteTrace(j)
      PROVE  Land("trace", j, now) /\ Newer("trace", j, now)
  <2>1. PICK s \in ((now - MaxLag)..now) \cup CorruptStamps :
          /\ Newer("trace", j, s) \/ s \in CorruptStamps
          /\ Land("trace", j, s)
    BY <1>3 DEF WriteTrace
  <2>2. s \notin CorruptStamps /\ s = now
    BY <1>0, <2>1 DEF OrderlyNights
  <2> QED  BY <2>1, <2>2
<1>4. ASSUME NEW j \in Jobs, WriteMonJdls(j)
      PROVE  Land("mon_jdls", j, NoStamp)
  BY <1>4 DEF WriteMonJdls
<1> QED  BY <1>1, <1>2, <1>3, <1>4, AgedIsTable DEF Writers, Table

(* A row that lands is passed by no watermark; what is passed stays so.    *)
LEMMA LandedIsNotPassed ==
  ASSUME NightlyInv, NEW t \in Aged, NEW j \in Jobs, NEW s \in Stamp,
         Land(t, j, s), s = now, Newer(t, j, s)
  PROVE  /\ DOMAIN Known(t)' = DOMAIN Known(t) \cup {j} /\ Known(t)'[j] = now
         /\ \A k \in DOMAIN Known(t) \ {j} : Known(t)'[k] = Known(t)[k]
         /\ \A w \in Watermark : Sound(Known(t), t, w) =>
              /\ Sound(Known(t)', t, w)
              /\ ~ PassedIn(Known(t)', t, w, j)
              /\ \A k \in DOMAIN Known(t) \ {j} :
                   PassedIn(Known(t)', t, w, k) <=> PassedIn(Known(t), t, w, k)
<1>0. t \in Table /\ t # "mon_jdls"
  BY AgedIsTable
<1>1. StoresTypeOK /\ now \in Nat
  BY InvTypes
<1>2. /\ iceberg' = iceberg /\ Rows(t)' = Rows(t) \cup {j} /\ landing'[t][j] = s
      /\ \A k \in Rows(t) \ {j} : landing'[t][k] = landing[t][k]
      /\ StoresTypeOK'
  BY <1>0, <1>1, LandIs
<1>3. PICK f \in Contents :
        /\ f = Known(t) /\ DOMAIN f = Rows(t) \cup Replicated(t)
        /\ \A k \in Rows(t) : f[k] = landing[t][k]
        /\ \A k \in Replicated(t) \ Rows(t) : f[k] = iceberg[t][k]
  BY <1>0, <1>1, KnownIs
<1>4. PICK g \in Contents :
        /\ g = Known(t)' /\ DOMAIN g = Rows(t)' \cup Replicated(t)
        /\ \A k \in Rows(t)' : g[k] = landing'[t][k]
        /\ \A k \in Replicated(t) \ Rows(t)' : g[k] = iceberg[t][k]
  <2>1. /\ Known(t)' \in Contents
        /\ DOMAIN Known(t)' = Rows(t)' \cup Replicated(t)'
        /\ \A k \in Rows(t)' : Known(t)'[k] = landing'[t][k]
        /\ \A k \in Replicated(t)' \ Rows(t)' : Known(t)'[k] = iceberg'[t][k]
    BY <1>0, <1>2, KnownNext
  <2>2. Replicated(t)' = Replicated(t) /\ iceberg'[t] = iceberg[t]
    BY <1>2 DEF Replicated
  <2> QED  BY <2>1, <2>2
<1>5. DOMAIN g = DOMAIN f \cup {j} /\ g[j] = now /\ \A k \in DOMAIN f \ {j} : g[k] = f[k]
  BY <1>2, <1>3, <1>4
<1>6. \A k \in DOMAIN f : f[k] \in 1..now
  BY <1>3 DEF NightlyInv, StampsInPast
<1>7. j \in DOMAIN f => f[j] < now
  BY <1>3 DEF Newer
<1>8. \A w \in Watermark : Sound(f, t, w) =>
        /\ Sound(g, t, w) /\ ~ PassedIn(g, t, w, j)
        /\ \A k \in DOMAIN f \ {j} : PassedIn(g, t, w, k) <=> PassedIn(f, t, w, k)
  <2>1. \A k \in DOMAIN f : f[k] <= now
    BY <1>1, <1>6
  <2> QED  BY <1>0, <1>1, <1>5, <1>7, <2>1, OnTimeIsNotPassed
<1> QED  BY <1>3, <1>4, <1>5, <1>8

(* What a step of the writers leaves as it is, and what it adds.           *)
LEMMA WritersKeepRows ==
  ASSUME NightlyInv, OrderlyNights, Writers, NEW t \in Aged
  PROVE  /\ now' = now /\ iceberg' = iceberg /\ Rows(t) \subseteq Rows(t)'
         /\ \A k \in Rows(t)' : \/ /\ k \in Rows(t) /\ landing'[t][k] = landing[t][k]
                                   /\ k \in DOMAIN Known(t)' /\ Known(t)'[k] = Known(t)[k]
                                \/ landing'[t][k] = now
         /\ \A k \in DOMAIN Known(t)' :
              \/ k \in DOMAIN Known(t) /\ Known(t)'[k] = Known(t)[k]
              \/ Known(t)'[k] = now
         /\ \A w \in Watermark : Sound(Known(t), t, w) =>
              /\ Sound(Known(t)', t, w)
              /\ \A k \in DOMAIN Known(t)' : PassedIn(Known(t)', t, w, k) =>
                   /\ k \in DOMAIN Known(t) /\ Known(t)'[k] = Known(t)[k]
                   /\ PassedIn(Known(t), t, w, k)
              /\ \A k \in DOMAIN Known(t) :
                   Known(t)'[k] = Known(t)[k] /\ PassedIn(Known(t), t, w, k)
                     => PassedIn(Known(t)', t, w, k)
<1>1. PICK u \in Table, j \in Jobs, s \in Stamp :
        Land(u, j, s) /\ (u \in Aged => s = now /\ Newer(u, j, s))
  BY WritersLand
<1>2. /\ now' = now /\ iceberg' = iceberg
      /\ Rows(u)' = Rows(u) \cup {j} /\ landing'[u][j] = s
      /\ \A k \in Rows(u) \ {j} : landing'[u][k] = landing[u][k]
      /\ \A v \in Table \ {u} : landing'[v] = landing[v]
  BY <1>1, InvTypes, LandIs
<1>0. t \in Table /\ t # "mon_jdls"
  BY AgedIsTable
<1>3. /\ Rows(t) \subseteq DOMAIN Known(t)
      /\ \A k \in Rows(t) : Known(t)[k] = landing[t][k]
  BY <1>0, InvTypes, KnownIs
<1>4. /\ Rows(t)' \subseteq DOMAIN Known(t)'
      /\ \A k \in Rows(t)' : Known(t)'[k] = landing'[t][k]
  <2>1. StoresTypeOK'
    BY <1>1, InvTypes, LandIs
  <2> QED  BY <1>0, <2>1, KnownNext
<1>5. \A w : \A k \in DOMAIN Known(t) :
        Known(t)'[k] = Known(t)[k] /\ PassedIn(Known(t), t, w, k)
          => PassedIn(Known(t)', t, w, k)
  BY <1>0 DEF PassedIn, CursorIn
<1>6. CASE u = t
  <2>1. /\ DOMAIN Known(t)' = DOMAIN Known(t) \cup {j} /\ Known(t)'[j] = now
        /\ \A k \in DOMAIN Known(t) \ {j} : Known(t)'[k] = Known(t)[k]
        /\ \A w \in Watermark : Sound(Known(t), t, w) =>
             /\ Sound(Known(t)', t, w)
             /\ ~ PassedIn(Known(t)', t, w, j)
             /\ \A k \in DOMAIN Known(t) \ {j} :
                  PassedIn(Known(t)', t, w, k) <=> PassedIn(Known(t), t, w, k)
    BY <1>1, <1>6, LandedIsNotPassed
  <2>2. Rows(t)' = Rows(t) \cup {j} /\ landing'[t][j] = now
    BY <1>1, <1>2, <1>6
  <2>3. \A k \in Rows(t)' \ {j} : k \in Rows(t) /\ landing'[t][k] = landing[t][k]
    BY <1>2, <1>6, <2>2
  <2>4. \A k \in Rows(t)' \ {j} : k \in DOMAIN Known(t)' /\ Known(t)'[k] = Known(t)[k]
    BY <1>3, <1>4, <2>3
  <2> QED  BY <1>2, <1>5, <2>1, <2>2, <2>3, <2>4
<1>7. CASE u # t
  <2>1. landing'[t] = landing[t]
    BY <1>0, <1>2, <1>7
  <2>2. Known(t)' = Known(t) /\ Rows(t)' = Rows(t)
    BY <1>2, <2>1 DEF Known, Rows
  <2> QED  BY <1>2, <1>3, <2>1, <2>2
<1> QED  BY <1>6, <1>7

(* Below a time that has come, the writers uncover nothing. *)
LEMMA WritersKeepCovered ==
  ASSUME NightlyInv, OrderlyNights, Writers, NEW c \in Int, c <= now, CoveredBelow(c)
  PROVE  CoveredBelow(c)'
<1>1. now \in Nat
  BY InvTypes
<1>2. ASSUME NEW t \in Aged, NEW k \in Rows(t)', landing'[t][k] < c
      PROVE  k \in Replicated(t)' /\ iceberg'[t][k] = landing'[t][k]
  <2>1. /\ iceberg' = iceberg
        /\ \/ k \in Rows(t) /\ landing'[t][k] = landing[t][k]
           \/ landing'[t][k] = now
    BY WritersKeepRows
  <2>2. k \in Rows(t) /\ landing'[t][k] = landing[t][k]
    BY <1>1, <1>2, <2>1
  <2>3. k \in Replicated(t) /\ iceberg[t][k] = landing[t][k]
    BY <1>2, <2>2 DEF CoveredBelow
  <2> QED  BY <2>1, <2>2, <2>3 DEF Replicated
<1> QED  BY <1>2 DEF CoveredBelow

LEMMA WritersKeepRun ==
  ASSUME NightlyInv, OrderlyNights, Writers, NEW t \in Aged
  PROVE  /\ BucketSafe(t)'
         /\ \A r \in Runs : at[r] \in Running => RunSafe(r, t)'
<1>0. /\ UNCHANGED <<at, source, local, batch, bucket, started>>
      /\ now \in Nat /\ started \in Nat /\ started <= now /\ bucket[t] \in Watermark
      /\ \A r \in Runs : local[r][t] \in Watermark
  BY WritersLand, InvTypes, AgedIsTable
  DEF ingestPart, runVars, NightlyInv, Calendar, NightlyTypes
<1> DEFINE f == Known(t)
           g == Known(t)'
<1>1. /\ iceberg' = iceberg /\ Rows(t) \subseteq Rows(t)'
      /\ \A k \in Rows(t)' : \/ /\ k \in Rows(t) /\ landing'[t][k] = landing[t][k]
                                /\ k \in DOMAIN g /\ g[k] = f[k]
                             \/ landing'[t][k] = now
      /\ \A w \in Watermark : Sound(f, t, w) =>
           /\ Sound(g, t, w)
           /\ \A k \in DOMAIN g : PassedIn(g, t, w, k) =>
                k \in DOMAIN f /\ g[k] = f[k] /\ PassedIn(f, t, w, k)
           /\ \A k \in DOMAIN f : g[k] = f[k] /\ PassedIn(f, t, w, k) => PassedIn(g, t, w, k)
  BY WritersKeepRows
<1>2. Rows(t) \subseteq DOMAIN f
  BY InvTypes, AgedIsTable, KnownIs
<1>3. BucketSafe(t)'
  <2>1. Sound(f, t, bucket[t]) /\ Covers(f, t, bucket[t], iceberg[t])
    BY DEF NightlyInv, IngestSafe, BucketSafe
  <2> HIDE DEF f, g
  <2>2. Sound(g, t, bucket[t]) /\ Covers(g, t, bucket[t], iceberg[t])
    BY <1>0, <1>1, <2>1 DEF Covers
  <2> QED  BY <1>0, <1>1, <2>2 DEF BucketSafe, g
<1>4. ASSUME NEW r \in Runs, at[r] \in Running
      PROVE  RunSafe(r, t)'
  <2> DEFINE w == local[r][t]
  <2>1. /\ DOMAIN InHand(r, t) \subseteq Rows(t)
        /\ Sound(f, t, w) /\ Covers(f, t, w, Upsert(iceberg[t], InHand(r, t)))
        /\ \A j \in DOMAIN f : PassedIn(f, t, bucket[t], j) => PassedIn(f, t, w, j)
        /\ Extracted(r, t) => \A j \in Rows(t) :
             landing[t][j] < started => PassedIn(f, t, w, j)
        /\ Sound(f, t, bucket[t])
    BY <1>4 DEF NightlyInv, IngestSafe, RunSafe, BucketSafe
  <2>2. InHand(r, t)' = InHand(r, t) /\ Extracted(r, t)' = Extracted(r, t)
    BY <1>0 DEF InHand, Extracted
  <2> HIDE DEF f, g, w
  <2>3. PICK hand : hand = Upsert(iceberg[t], InHand(r, t))
    OBVIOUS
  <2>4. w \in Watermark
    BY <1>0 DEF w
  <2>5. Sound(g, t, w) /\ Covers(g, t, w, hand)
    BY <1>1, <2>1, <2>3, <2>4 DEF Covers
  <2>6. \A j \in DOMAIN g : PassedIn(g, t, bucket[t], j) => PassedIn(g, t, w, j)
    BY <1>0, <1>1, <2>1, <2>4
  <2>7. ASSUME Extracted(r, t), NEW j \in Rows(t)', landing'[t][j] < started
        PROVE  PassedIn(g, t, w, j)
    <3>1. j \in Rows(t) /\ landing'[t][j] = landing[t][j] /\ g[j] = f[j]
      BY <1>0, <1>1, <2>7
    <3> QED  BY <1>1, <1>2, <2>1, <2>4, <2>7, <3>1
  <2> QED  BY <1>0, <1>1, <2>1, <2>2, <2>3, <2>5, <2>6, <2>7 DEF RunSafe, g, w
<1> QED  BY <1>3, <1>4

LEMMA WritersKeep ==
  ASSUME NightlyInv, OrderlyNights, Writers
  PROVE  /\ Calendar' /\ Phases' /\ StampsInPast' /\ IngestSafe'
         /\ \A p \in Passes : PassSafe(p)'
         /\ NothingUnverified'
<1>0. UNCHANGED <<ingestPart, retentionPart, workflow, started>> /\ now' = now
  BY WritersLand DEF Land
<1>1. UNCHANGED <<at, phase, kept, cutoff, cand>>
  BY <1>0 DEF ingestPart, runVars, retentionPart, passVars
<1>2. /\ now \in Nat /\ started \in Nat /\ started <= now
      /\ \A p \in Passes : cutoff[p] \in Int
  BY InvTypes DEF NightlyInv, Calendar, TypeOK
<1>3. Calendar' /\ Phases' /\ NothingUnverified'
  BY <1>0, <1>1 DEF NightlyInv, Calendar, Phases, NothingUnverified
<1>4. ASSUME NEW t \in Aged, NEW k \in DOMAIN Known(t)'
      PROVE  Known(t)'[k] \in 1..now
  <2>1. \/ k \in DOMAIN Known(t) /\ Known(t)'[k] = Known(t)[k]
        \/ Known(t)'[k] = now
    BY <1>4, WritersKeepRows
  <2>2. now \in 1..now
    BY InvTypes DEF StoresTypeOK
  <2> QED  BY <2>1, <2>2 DEF NightlyInv, StampsInPast
<1>5. StampsInPast'
  BY <1>0, <1>4 DEF StampsInPast
<1>6. workflow = "run-nightly" => \A r \in Runs : at[r] = "done" => CoveredBelow(started)'
  BY <1>0, <1>2, WritersKeepCovered DEF NightlyInv, IngestSafe
<1>7. IngestSafe'
  BY <1>0, <1>1, <1>6, WritersKeepRun DEF IngestSafe
<1>8. ASSUME NEW p \in Passes PROVE PassSafe(p)'
  <2> SUFFICES ASSUME phase[p] \in Active PROVE PassSafe(p)'
    BY <1>1 DEF PassSafe
  <2>1. /\ cutoff[p] <= now /\ CoveredBelow(cutoff[p])
        /\ \A t \in Aged : cand[p][t] \subseteq Replicated(t)
    BY DEF NightlyInv, PassSafe
  <2>2. PICK c \in Int : c = cutoff[p]
    BY <1>2
  <2>3. CoveredBelow(c)'
    BY <2>1, <2>2, WritersKeepCovered
  <2>4. CoveredBelow(cutoff[p])'
    BY <1>1, <2>2, <2>3
  <2>5. iceberg' = iceberg
    BY WritersLand DEF Land
  <2>6. \A t \in Aged : cand'[p][t] \subseteq Replicated(t)'
    BY <1>1, <2>1, <2>5 DEF Replicated
  <2> QED  BY <1>0, <1>1, <2>1, <2>4, <2>6 DEF PassSafe
<1> QED  BY <1>3, <1>5, <1>7, <1>8

LEMMA TickKeeps ==
  ASSUME NightlyInv, NightlyTick
  PROVE  /\ Calendar' /\ Phases' /\ StampsInPast' /\ IngestSafe'
         /\ \A p \in Passes : PassSafe(p)'
         /\ NothingUnverified'
<1>0. /\ now' = now + 1 /\ UNCHANGED <<landing, iceberg, workflow, started>>
      /\ UNCHANGED <<at, source, local, batch, bucket, phase, kept, cutoff, cand>>
      /\ workflow \in Tasks => now < started + Deadline
  BY DEF NightlyTick, Tick, WithinDeadline, ingestPart, runVars, retentionPart, passVars
<1>1. /\ now \in Nat /\ started \in Nat /\ Deadline \in Nat
      /\ \A p \in Passes : cutoff[p] \in Int
  BY InvTypes DEF TypeOK
<1>2. Calendar' /\ Phases' /\ NothingUnverified'
  BY <1>0, <1>1 DEF NightlyInv, Calendar, Phases, NothingUnverified
<1>3. \A t \in Table : Known(t)' = Known(t) /\ Rows(t)' = Rows(t)
  BY <1>0 DEF Known, Rows
<1>4. StampsInPast'
  <2>1. \A n \in 1..now : n \in 1..(now + 1)
    BY <1>1
  <2> QED  BY <1>0, <1>3, <2>1, AgedIsTable DEF NightlyInv, StampsInPast
<1>5. IngestSafe'
  BY <1>0 DEF NightlyInv, IngestSafe, BucketSafe, RunSafe, CoveredBelow, Extracted,
              InHand, Known, Rows, Replicated
<1>6. \A p \in Passes : PassSafe(p)'
  BY <1>0, <1>1 DEF NightlyInv, PassSafe, CoveredBelow, Rows, Replicated
<1> QED  BY <1>2, <1>4, <1>5, <1>6

LEMMA WorkflowKeeps ==
  ASSUME NightlyInv, OrderlyNights, WorkflowPart
  PROVE  /\ Calendar' /\ Phases' /\ StampsInPast' /\ IngestSafe'
         /\ \A p \in Passes : PassSafe(p)'
         /\ NothingUnverified'
<1>0. /\ UNCHANGED <<now, landing, iceberg, started>>
      /\ UNCHANGED <<at, source, local, batch, bucket, phase, kept, cutoff, cand>>
  BY DEF WorkflowPart, storeVars, ingestPart, runVars, retentionPart, passVars
<1>1. /\ workflow \in {"run-retention", "check-freshness"}
      /\ workflow' \in {"check-freshness", "Succeeded", "Failed"}
  BY DEF WorkflowPart
<1>2. \A r \in Runs : at[r] \notin Running
  BY <1>1 DEF NightlyInv, Phases
<1>3. \A p \in Passes : phase[p] \notin Active
  <2>1. CASE workflow = "check-freshness"
    BY <2>1 DEF NightlyInv, Phases
  <2>2. CASE \E p \in Passes : phase[p] = "exit"
    BY <2>2 DEF OrderlyNights, Active
  <2> QED  BY <2>1, <2>2 DEF WorkflowPart
<1>4. Calendar' /\ Phases' /\ StampsInPast' /\ NothingUnverified'
  BY <1>0, <1>1, <1>2, <1>3
  DEF NightlyInv, Calendar, Phases, StampsInPast, NothingUnverified, Known, Tasks
<1>5. \A t \in Aged : BucketSafe(t)'
  BY <1>0 DEF NightlyInv, IngestSafe, BucketSafe, Known
<1>6. IngestSafe'
  BY <1>0, <1>1, <1>2, <1>5 DEF IngestSafe
<1>7. \A p \in Passes : PassSafe(p)'
  BY <1>0, <1>3 DEF PassSafe
<1> QED  BY <1>4, <1>6, <1>7

-----------------------------------------------------------------------------
(* The run. *)

(* What the invariant says of a run and a table. *)
LEMMA NightBefore ==
  ASSUME NightlyInv, NEW r \in Runs, NEW t \in Aged
  PROVE  /\ t \in Table /\ t # "mon_jdls" /\ Known(t) \in Contents
         /\ iceberg[t] \in Contents /\ batch[r] \in Contents
         /\ local[r][t] \in Watermark /\ bucket[t] \in Watermark
         /\ Rows(t) \subseteq DOMAIN Known(t) /\ IsFiniteSet(Rows(t))
         /\ \A j \in Rows(t) : Known(t)[j] = landing[t][j] /\ Known(t)[j] \in 1..now
         /\ Sound(Known(t), t, bucket[t]) /\ Covers(Known(t), t, bucket[t], iceberg[t])
         /\ at[r] \in Running =>
              /\ DOMAIN InHand(r, t) \subseteq Rows(t)
              /\ Sound(Known(t), t, local[r][t])
              /\ Covers(Known(t), t, local[r][t], Upsert(iceberg[t], InHand(r, t)))
              /\ \A j \in DOMAIN Known(t) :
                   PassedIn(Known(t), t, bucket[t], j) => PassedIn(Known(t), t, local[r][t], j)
              /\ Extracted(r, t) => \A j \in Rows(t) :
                   landing[t][j] < started => PassedIn(Known(t), t, local[r][t], j)
<1>1. t \in Table /\ t # "mon_jdls"
  BY AgedIsTable
<1>2. StoresTypeOK /\ IngestTypeOK
  BY InvTypes
<1>3. iceberg[t] \in Contents /\ batch[r] \in Contents
  BY <1>1, <1>2 DEF StoresTypeOK, IngestTypeOK
<1>4. local[r][t] \in Watermark /\ bucket[t] \in Watermark /\ IsFiniteSet(Rows(t))
  BY <1>1 DEF NightlyInv, NightlyTypes
<1>5. /\ Known(t) \in Contents /\ Rows(t) \subseteq DOMAIN Known(t)
      /\ \A j \in Rows(t) : Known(t)[j] = landing[t][j]
  BY <1>1, <1>2, KnownIs
<1>6. \A j \in DOMAIN Known(t) : Known(t)[j] \in 1..now
  BY DEF NightlyInv, StampsInPast
<1>7. Sound(Known(t), t, bucket[t]) /\ Covers(Known(t), t, bucket[t], iceberg[t])
  BY DEF NightlyInv, IngestSafe, BucketSafe
<1>8. at[r] \in Running => RunSafe(r, t)
  BY DEF NightlyInv, IngestSafe
<1> QED  BY <1>1, <1>3, <1>4, <1>5, <1>6, <1>7, <1>8 DEF RunSafe

(* What a step of the run has to leave behind. *)
RunLeaves(r) ==
  /\ now' = now /\ landing' = landing
  /\ \A t \in Aged : /\ Known(t)' = Known(t)
                     /\ Sound(Known(t), t, bucket'[t])
                     /\ Covers(Known(t), t, bucket'[t], iceberg'[t])
  /\ at'[r] \in Running => \A t \in Aged :
       /\ DOMAIN InHand(r, t)' \subseteq Rows(t)
       /\ Sound(Known(t), t, local'[r][t])
       /\ Covers(Known(t), t, local'[r][t], Upsert(iceberg'[t], InHand(r, t)'))
       /\ \A j \in DOMAIN Known(t) :
            PassedIn(Known(t), t, bucket'[t], j) => PassedIn(Known(t), t, local'[r][t], j)
       /\ Extracted(r, t)' => \A j \in Rows(t) :
            landing[t][j] < started' => PassedIn(Known(t), t, local'[r][t], j)
  /\ at'[r] = "done" => CoveredBelow(started)'

LEMMA RunTypes ==
  ASSUME NightlyInv
  PROVE  /\ at \in [Runs -> RunPhase] /\ source \in [Runs -> 1..3]
         /\ local \in [Runs -> [Table -> Watermark]] /\ batch \in [Runs -> Contents]
         /\ iceberg \in [Table -> Contents]
BY InvTypes DEF NightlyInv, NightlyTypes, IngestTypeOK, StoresTypeOK

LEMMA KnownStays ==
  ASSUME landing' = landing, iceberg' = iceberg
  PROVE  \A t \in Aged : Known(t)' = Known(t)
BY DEF Known

LEMMA StartRunLeaves ==
  ASSUME NightlyInv, NEW r \in Runs, StartRun(r), started' = now
  PROVE  RunLeaves(r)
<1>1. /\ UNCHANGED <<now, landing, iceberg, bucket>>
      /\ local'[r] = bucket /\ at'[r] = "extract" /\ source'[r] = 1
  BY RunTypes DEF StartRun, storeVars
<1>2. ASSUME NEW t \in Aged
      PROVE  /\ InHand(r, t)' = NoRows /\ ~Extracted(r, t)'
             /\ Covers(Known(t), t, bucket[t], Upsert(iceberg[t], NoRows))
  <2>1. Covers(Known(t), t, bucket[t], iceberg[t])
    BY <1>2, NightBefore
  <2>2. InHand(r, t)' = NoRows /\ ~Extracted(r, t)'
    BY <1>1 DEF InHand, Extracted
  <2> QED  BY <2>1, <2>2, UpsertOfNothing, NoRowsIs
<1>3. \A t \in Aged : Known(t)' = Known(t)
  BY <1>1, KnownStays
<1>4. \A t \in Aged :
        Sound(Known(t), t, bucket[t]) /\ Covers(Known(t), t, bucket[t], iceberg[t])
  BY NightBefore
<1> QED  BY <1>1, <1>2, <1>3, <1>4, NoRowsIs DEF RunLeaves

LEMMA KillLeaves ==
  ASSUME NightlyInv, NEW r \in Runs, Kill(r)
  PROVE  RunLeaves(r)
<1>1. /\ UNCHANGED <<now, landing, iceberg, bucket>> /\ at'[r] = "failed"
  BY RunTypes DEF Kill, storeVars
<1>2. \A t \in Aged : Known(t)' = Known(t)
  BY <1>1, KnownStays
<1>3. \A t \in Aged :
        Sound(Known(t), t, bucket[t]) /\ Covers(Known(t), t, bucket[t], iceberg[t])
  BY NightBefore
<1> QED  BY <1>1, <1>2, <1>3 DEF RunLeaves, Running

LEMMA ExtractLeaves ==
  ASSUME NightlyInv, OrderlyNights, NEW r \in Runs, Extract(r), started' = started
  PROVE  RunLeaves(r)
<1>0. PICK u \in Table : u = SOURCES[source[r]]
  BY RunTypes, SourcesAreTable
<1> DEFINE S == NewRows(u, local[r][u])
           v == Advance(u, local[r][u], S)
           rows == [j \in S |-> landing[u][j]]
<1>1. /\ UNCHANGED <<now, landing, iceberg, source, bucket>>
      /\ batch' = [batch EXCEPT ![r] = rows]
      /\ local' = [local EXCEPT ![r][u] = v]
      /\ at' = [at EXCEPT ![r] = "load"]
      /\ at[r] = "extract" /\ at[r] \in Running
  BY <1>0 DEF Extract, storeVars, Running
<1> HIDE DEF v, rows
<1>2. /\ local'[r][u] = v /\ \A t \in Table \ {u} : local'[r][t] = local[r][t]
      /\ at'[r] = "load" /\ batch'[r] = rows /\ SOURCES[source'[r]] = u
  BY <1>0, <1>1, RunTypes
<1>3. \A t \in Aged : Known(t)' = Known(t)
  BY <1>1, KnownStays
<1>4. \A t \in Aged :
        Sound(Known(t), t, bucket[t]) /\ Covers(Known(t), t, bucket[t], iceberg[t])
  BY NightBefore
<1> DEFINE f == Known(u)
           w == local[r][u]
<1>5. ASSUME u \in Aged
      PROVE  /\ DOMAIN rows \subseteq Rows(u)
             /\ Sound(f, u, v) /\ Covers(f, u, v, Upsert(iceberg[u], rows))
             /\ \A j \in DOMAIN f : PassedIn(f, u, w, j) => PassedIn(f, u, v, j)
             /\ \A j \in Rows(u) : PassedIn(f, u, v, j)
  <2>1. /\ StoresTypeOK /\ IsFiniteSet(Rows(u)) /\ w \in Watermark
        /\ f \in Contents /\ Rows(u) \subseteq DOMAIN f
        /\ \A j \in Rows(u) : f[j] = landing[u][j] /\ f[j] \in 1..now
        /\ Sound(f, u, w) /\ Covers(f, u, w, Upsert(iceberg[u], InHand(r, u)))
    BY <1>1, <1>5, NightBefore, InvTypes
  <2>2. Covers(f, u, w, iceberg[u])
    <3>1. InHand(r, u) = NoRows
      BY <1>1 DEF InHand
    <3> QED  BY <2>1, <3>1, UpsertOfNothing, NoRowsIs
  <2> HIDE DEF f, w
  <2>3. /\ v \in Watermark /\ Sound(f, u, v)
        /\ \A j \in DOMAIN f : PassedIn(f, u, w, j) => PassedIn(f, u, v, j)
        /\ \A j \in Rows(u) :
             /\ PassedIn(f, u, v, j) => PassedIn(f, u, w, j) \/ j \in S
             /\ CursorIn(f, u, j) >= InitialValue[u] => PassedIn(f, u, v, j)
    BY <2>1, AdvancePasses DEF v, w
  <2>4. DOMAIN rows \subseteq Rows(u)
    BY NewRowsAreRows DEF rows
  <2>5. rows = [j \in S |-> f[j]]
    BY <2>1, NewRowsAreRows DEF rows
  <2>6. \A j \in Rows(u) : PassedIn(f, u, v, j)
    <3>1. \A j \in Rows(u) : CursorIn(f, u, j) = f[j]
      BY <1>5, AgedIsTable DEF CursorIn
    <3>2. InitialValue[u] <= 1 /\ InitialValue[u] \in Nat /\ now \in Nat
      BY <1>5, InitialIsNat, InvTypes DEF OrderlyNights
    <3>3. \A j \in Rows(u) : f[j] >= InitialValue[u]
      BY <2>1, <3>2
    <3> QED  BY <2>3, <3>1, <3>3
  <2>7. ASSUME NEW j \in DOMAIN f, PassedIn(f, u, v, j)
        PROVE  PassedIn(f, u, w, j) \/ j \in S \/ (j \in DOMAIN iceberg[u] /\ iceberg[u][j] = f[j])
    <3>1. CASE j \in Rows(u)
      BY <2>3, <2>7, <3>1
    <3>2. CASE j \notin Rows(u)
      <4>1. /\ DOMAIN Known(u) = Rows(u) \cup Replicated(u)
            /\ \A k \in Replicated(u) \ Rows(u) : Known(u)[k] = iceberg[u][k]
        BY InvTypes, KnownIs
      <4> QED  BY <2>7, <3>2, <4>1 DEF f, Replicated
    <3> QED  BY <3>1, <3>2
  <2>8. Covers(f, u, v, Upsert(iceberg[u], rows))
    <3>1. PICK ice : ice = iceberg[u]
      OBVIOUS
    <3>2. \A j \in DOMAIN f : PassedIn(f, u, v, j) =>
            PassedIn(f, u, w, j) \/ j \in S \/ (j \in DOMAIN ice /\ ice[j] = f[j])
      BY <2>7, <3>1
    <3>3. Covers(f, u, w, ice)
      BY <2>2, <3>1
    <3> HIDE DEF S
    <3>4. Covers(f, u, v, Upsert(ice, [j \in S |-> f[j]]))
      BY <3>2, <3>3, ExtractCovers
    <3> QED  BY <2>5, <3>1, <3>4
  <2> QED  BY <2>3, <2>4, <2>6, <2>8
<1> HIDE DEF S
<1>6. ASSUME NEW t \in Aged
      PROVE  /\ DOMAIN InHand(r, t)' \subseteq Rows(t)
             /\ Sound(Known(t), t, local'[r][t])
             /\ Covers(Known(t), t, local'[r][t], Upsert(iceberg[t], InHand(r, t)'))
             /\ \A j \in DOMAIN Known(t) :
                  PassedIn(Known(t), t, bucket[t], j) => PassedIn(Known(t), t, local'[r][t], j)
             /\ Extracted(r, t)' => \A j \in Rows(t) :
                  landing[t][j] < started => PassedIn(Known(t), t, local'[r][t], j)
  <2>1. /\ t \in Table /\ Sound(Known(t), t, local[r][t])
        /\ Covers(Known(t), t, local[r][t], Upsert(iceberg[t], InHand(r, t)))
        /\ \A j \in DOMAIN Known(t) :
             PassedIn(Known(t), t, bucket[t], j) => PassedIn(Known(t), t, local[r][t], j)
        /\ Extracted(r, t) => \A j \in Rows(t) :
             landing[t][j] < started => PassedIn(Known(t), t, local[r][t], j)
    BY <1>1, <1>6, NightBefore
  <2>2. CASE t = u
    <3>1. InHand(r, t)' = rows /\ local'[r][t] = v
      BY <1>2, <2>2 DEF InHand
    <3> QED  BY <1>5, <1>6, <2>1, <2>2, <3>1
  <2>3. CASE t # u
    <3>1. InHand(r, t)' = NoRows /\ InHand(r, t) = NoRows /\ local'[r][t] = local[r][t]
      BY <1>1, <1>2, <2>1, <2>3 DEF InHand
    <3>2. Extracted(r, t)' => Extracted(r, t)
      BY <1>0, <1>1, <2>3 DEF Extracted
    <3> QED  BY <2>1, <3>1, <3>2, NoRowsIs
  <2> QED  BY <2>2, <2>3
<1>7. at'[r] # "done"
  BY <1>2
<1> QED  BY <1>1, <1>3, <1>4, <1>6, <1>7 DEF RunLeaves

LEMMA LoadLeaves ==
  ASSUME NightlyInv, NEW r \in Runs, LoadChunk(r), started' = started, StoresTypeOK'
  PROVE  RunLeaves(r)
<1>0. PICK u \in Table : u = SOURCES[source[r]]
  BY RunTypes, SourcesAreTable
<1>1. PICK S \in SUBSET DOMAIN batch[r] :
        /\ iceberg' = [iceberg EXCEPT ![u] = Upsert(@, [j \in S |-> batch[r][j]])]
        /\ batch' = [batch EXCEPT ![r] = Without(@, S)]
  BY <1>0 DEF LoadChunk
<1>2. /\ at[r] = "load" /\ at[r] \in Running
      /\ UNCHANGED <<now, landing, at, source, local, bucket>>
  BY DEF LoadChunk, Running
<1> DEFINE ice == iceberg[u]
           hand == batch[r]
           rows == [j \in S |-> hand[j]]
           ice2 == Upsert(ice, rows)
           hand2 == Without(hand, S)
<1>3. iceberg'[u] = ice2 /\ \A t \in Table \ {u} : iceberg'[t] = iceberg[t]
  BY <1>1, RunTypes
<1>4. InHand(r, u) = hand /\ InHand(r, u)' = hand2
  BY <1>0, <1>1, <1>2, RunTypes DEF InHand
<1>5. \A t \in Table \ {u} : InHand(r, t) = NoRows /\ InHand(r, t)' = NoRows
  BY <1>0, <1>2 DEF InHand
<1>6. S \in SUBSET DOMAIN hand /\ DOMAIN rows = S
  OBVIOUS
<1> HIDE DEF ice, hand
<1>7. ASSUME u \in Aged
      PROVE  /\ Known(u)' = Known(u) /\ DOMAIN hand2 \subseteq Rows(u)
             /\ Covers(Known(u), u, bucket[u], ice2)
             /\ Covers(Known(u), u, local[r][u], Upsert(ice2, hand2))
  <2>1. /\ DOMAIN hand \subseteq Rows(u) /\ Known(u) \in Contents
        /\ Covers(Known(u), u, bucket[u], ice)
        /\ Covers(Known(u), u, local[r][u], Upsert(ice, hand))
        /\ \A j \in DOMAIN Known(u) :
             PassedIn(Known(u), u, bucket[u], j) => PassedIn(Known(u), u, local[r][u], j)
    BY <1>2, <1>4, <1>7, NightBefore DEF ice
  <2>2. DOMAIN hand2 \subseteq Rows(u)
    <3>1. DOMAIN hand2 = DOMAIN hand \ S
      BY WithoutIs
    <3> QED  BY <2>1, <3>1
  <2>3. Covers(Known(u), u, bucket[u], ice2) /\ Covers(Known(u), u, local[r][u], Upsert(ice2, hand2))
    BY <1>6, <2>1, ChunkCovers
  <2>4. Known(u)' = Known(u)
    <3>1. /\ DOMAIN ice2 = DOMAIN ice \cup S
          /\ \A j \in DOMAIN ice \ S : ice2[j] = ice[j]
      <4> HIDE DEF rows
      <4>1. /\ DOMAIN Upsert(ice, rows) = DOMAIN ice \cup DOMAIN rows
            /\ \A j \in DOMAIN ice \ DOMAIN rows : Upsert(ice, rows)[j] = ice[j]
        BY UpsertIs
      <4> QED  BY <1>6, <4>1
    <3> HIDE DEF ice2
    <3>2. /\ DOMAIN Known(u) = Rows(u) \cup DOMAIN ice
          /\ \A j \in Rows(u) : Known(u)[j] = landing[u][j]
          /\ \A j \in DOMAIN ice \ Rows(u) : Known(u)[j] = ice[j]
      <4>1. /\ DOMAIN Known(u) = Rows(u) \cup Replicated(u)
            /\ \A j \in Rows(u) : Known(u)[j] = landing[u][j]
            /\ \A j \in Replicated(u) \ Rows(u) : Known(u)[j] = iceberg[u][j]
        BY InvTypes, KnownIs
      <4> QED  BY <4>1 DEF ice, Replicated
    <3>3. /\ Known(u)' \in Contents /\ DOMAIN Known(u)' = Rows(u) \cup DOMAIN ice2
          /\ \A j \in Rows(u) : Known(u)'[j] = landing[u][j]
          /\ \A j \in DOMAIN ice2 \ Rows(u) : Known(u)'[j] = ice2[j]
      <4>1. /\ Known(u)' \in Contents
            /\ DOMAIN Known(u)' = Rows(u)' \cup Replicated(u)'
            /\ \A j \in Rows(u)' : Known(u)'[j] = landing'[u][j]
            /\ \A j \in Replicated(u)' \ Rows(u)' : Known(u)'[j] = iceberg'[u][j]
        BY KnownNext
      <4>2. Rows(u)' = Rows(u) /\ Replicated(u)' = DOMAIN ice2 /\ landing'[u] = landing[u]
        BY <1>2, <1>3 DEF Rows, Replicated
      <4> QED  BY <1>3, <4>1, <4>2
    <3>4. S \subseteq Rows(u)
      BY <1>6, <2>1
    <3>5. DOMAIN Known(u)' = DOMAIN Known(u)
      BY <3>1, <3>2, <3>3, <3>4
    <3>6. ASSUME NEW j \in DOMAIN Known(u)' PROVE Known(u)'[j] = Known(u)[j]
      BY <3>1, <3>2, <3>3, <3>4, <3>6
    <3> QED  BY <2>1, <3>3, <3>5, <3>6, SameContents
  <2> QED  BY <2>2, <2>3, <2>4
<1> HIDE DEF rows, ice2, hand2
<1>8. ASSUME NEW t \in Aged
      PROVE  /\ Known(t)' = Known(t)
             /\ Sound(Known(t), t, bucket[t]) /\ Covers(Known(t), t, bucket[t], iceberg'[t])
             /\ DOMAIN InHand(r, t)' \subseteq Rows(t)
             /\ Sound(Known(t), t, local[r][t])
             /\ Covers(Known(t), t, local[r][t], Upsert(iceberg'[t], InHand(r, t)'))
             /\ \A j \in DOMAIN Known(t) :
                  PassedIn(Known(t), t, bucket[t], j) => PassedIn(Known(t), t, local[r][t], j)
             /\ Extracted(r, t)' => \A j \in Rows(t) :
                  landing[t][j] < started => PassedIn(Known(t), t, local[r][t], j)
  <2>1. /\ t \in Table /\ Sound(Known(t), t, bucket[t]) /\ Sound(Known(t), t, local[r][t])
        /\ Covers(Known(t), t, bucket[t], iceberg[t])
        /\ Covers(Known(t), t, local[r][t], Upsert(iceberg[t], InHand(r, t)))
        /\ \A j \in DOMAIN Known(t) :
             PassedIn(Known(t), t, bucket[t], j) => PassedIn(Known(t), t, local[r][t], j)
        /\ Extracted(r, t) => \A j \in Rows(t) :
             landing[t][j] < started => PassedIn(Known(t), t, local[r][t], j)
    BY <1>2, <1>8, NightBefore
  <2>2. Extracted(r, t)' = Extracted(r, t)
    BY <1>2 DEF Extracted
  <2>3. CASE t = u
    BY <1>3, <1>4, <1>7, <1>8, <2>1, <2>2, <2>3
  <2>4. CASE t # u
    <3>1. iceberg'[t] = iceberg[t] /\ InHand(r, t) = NoRows /\ InHand(r, t)' = NoRows
      BY <1>3, <1>5, <2>1, <2>4
    <3>2. Known(t)' = Known(t)
      BY <1>2, <3>1 DEF Known
    <3> QED  BY <2>1, <2>2, <3>1, <3>2, NoRowsIs
  <2> QED  BY <2>3, <2>4
<1>9. at'[r] # "done"
  BY <1>2
<1> QED  BY <1>2, <1>8, <1>9 DEF RunLeaves

LEMMA PersistLeaves ==
  ASSUME NightlyInv, NEW r \in Runs, Persist(r), started' = started
  PROVE  RunLeaves(r)
<1>1. /\ at[r] = "load" /\ at[r] \in Running /\ DOMAIN batch[r] = {}
      /\ UNCHANGED <<now, landing, iceberg, source, local>>
      /\ bucket' = local[r] /\ at'[r] = "persist"
  BY RunTypes DEF Persist, storeVars, Running
<1>2. \A t \in Aged : Known(t)' = Known(t)
  BY <1>1, KnownStays
<1>3. ASSUME NEW t \in Aged
      PROVE  /\ InHand(r, t)' = NoRows /\ Sound(Known(t), t, local[r][t])
             /\ Covers(Known(t), t, local[r][t], iceberg[t])
             /\ Covers(Known(t), t, local[r][t], Upsert(iceberg[t], NoRows))
             /\ Extracted(r, t)' => \A j \in Rows(t) :
                  landing[t][j] < started => PassedIn(Known(t), t, local[r][t], j)
  <2>1. /\ Sound(Known(t), t, local[r][t])
        /\ Covers(Known(t), t, local[r][t], Upsert(iceberg[t], InHand(r, t)))
        /\ Extracted(r, t) => \A j \in Rows(t) :
             landing[t][j] < started => PassedIn(Known(t), t, local[r][t], j)
    BY <1>1, <1>3, NightBefore
  <2>2. DOMAIN InHand(r, t) = {} /\ InHand(r, t)' = NoRows
    BY <1>1, NoRowsIs DEF InHand
  <2>3. Covers(Known(t), t, local[r][t], iceberg[t])
    BY <2>1, <2>2, UpsertOfNothing
  <2>4. Covers(Known(t), t, local[r][t], Upsert(iceberg[t], NoRows))
    BY <2>3, UpsertOfNothing, NoRowsIs
  <2>5. Extracted(r, t)' => Extracted(r, t)
    BY <1>1 DEF Extracted
  <2> QED  BY <2>1, <2>2, <2>3, <2>4, <2>5
<1> QED  BY <1>1, <1>2, <1>3, NoRowsIs DEF RunLeaves

LEMMA NextSourceLeaves ==
  ASSUME NightlyInv, NEW r \in Runs, NextSource(r), started' = started
  PROVE  RunLeaves(r)
<1>1. /\ at[r] = "persist" /\ at[r] \in Running
      /\ UNCHANGED <<now, landing, iceberg, local, bucket>>
      /\ \/ source'[r] = source[r] + 1 /\ at'[r] = "extract"
         \/ source[r] = 3 /\ at'[r] = "done"
      /\ source[r] \in 1..3
  BY RunTypes DEF NextSource, storeVars, Running
<1>2. \A t \in Aged : Known(t)' = Known(t)
  BY <1>1, KnownStays
<1>3. ASSUME NEW t \in Aged
      PROVE  /\ InHand(r, t) = NoRows /\ InHand(r, t)' = NoRows
             /\ Sound(Known(t), t, bucket[t]) /\ Covers(Known(t), t, bucket[t], iceberg[t])
             /\ Sound(Known(t), t, local[r][t])
             /\ Covers(Known(t), t, local[r][t], Upsert(iceberg[t], NoRows))
             /\ \A j \in DOMAIN Known(t) :
                  PassedIn(Known(t), t, bucket[t], j) => PassedIn(Known(t), t, local[r][t], j)
             /\ Extracted(r, t) => \A j \in Rows(t) :
                  landing[t][j] < started => PassedIn(Known(t), t, local[r][t], j)
  <2>1. InHand(r, t) = NoRows /\ InHand(r, t)' = NoRows
    BY <1>1 DEF InHand
  <2> QED  BY <1>1, <1>3, <2>1, NightBefore
<1>4. ASSUME NEW t \in Aged, at'[r] = "extract", Extracted(r, t)'
      PROVE  Extracted(r, t)
  <2>1. PICK i \in 1..3 : SOURCES[i] = t /\ i < source'[r]
    BY <1>4 DEF Extracted
  <2>2. i < source[r] \/ i = source[r]
    BY <1>1, <1>4, <2>1
  <2> QED  BY <1>1, <2>1, <2>2 DEF Extracted
<1>5. ASSUME at'[r] = "done" PROVE CoveredBelow(started)'
  <2>1. ASSUME NEW t \in Aged, NEW j \in Rows(t), landing[t][j] < started
        PROVE  j \in Replicated(t) /\ iceberg[t][j] = landing[t][j]
    <3>1. Extracted(r, t)
      <4>1. source[r] = 3 /\ (SOURCES[1] = t \/ SOURCES[2] = t)
        BY <1>1, <1>5, <2>1 DEF SOURCES, Aged
      <4> QED  BY <4>1 DEF Extracted
    <3>2. PassedIn(Known(t), t, local[r][t], j)
      BY <1>3, <2>1, <3>1
    <3>3. Covers(Known(t), t, local[r][t], iceberg[t])
      BY <1>3, UpsertOfNothing, NoRowsIs
    <3>4. j \in DOMAIN Known(t) /\ Known(t)[j] = landing[t][j]
      BY <2>1, NightBefore
    <3> QED  BY <3>2, <3>3, <3>4 DEF Covers, Replicated
  <2> QED  BY <1>1, <2>1 DEF CoveredBelow, Rows, Replicated
<1>6. at'[r] \in Running => at'[r] = "extract"
  BY <1>1 DEF Running
<1> QED  BY <1>1, <1>2, <1>3, <1>4, <1>5, <1>6, NoRowsIs DEF RunLeaves

(* With one run, the invariant follows from what its step leaves.          *)
LEMMA RunKeeps ==
  ASSUME NightlyInv, OrderlyNights, NEW r \in Runs, RunPart(r)
  PROVE  /\ Calendar' /\ Phases' /\ StampsInPast' /\ IngestSafe'
         /\ \A p \in Passes : PassSafe(p)'
         /\ NothingUnverified'
<1>0. \A q \in Runs : q = r
  BY DEF OrderlyNights, OneRun
<1>1. RunLeaves(r)
  <2>1. StoresTypeOK'
    BY InvTypes, RunType DEF RunPart, NightlyInv, NightlyTypes, IngestTypeOK
  <2>2. ASSUME RunStep(r), started' = started PROVE RunLeaves(r)
    BY <2>1, <2>2, ExtractLeaves, LoadLeaves, PersistLeaves, NextSourceLeaves DEF RunStep
  <2> QED  BY <2>2, StartRunLeaves, KillLeaves DEF RunPart
<1>2. /\ \/ /\ workflow' = "run-nightly" /\ at'[r] \in Running \cup {"done"}
            /\ started' = now \/ (started' = started /\ workflow = "run-nightly")
         \/ workflow' = "Failed" /\ at'[r] \notin Running /\ started' = started
      /\ workflow \in Outcomes \cup {"run-nightly"}
  <2>1. StartRun(r) => at'[r] = "extract"
    BY RunTypes DEF StartRun
  <2>2. RunStep(r) => at'[r] \in Running \cup {"done"}
    BY RunTypes DEF RunStep, Extract, LoadChunk, Persist, NextSource, Running
  <2>3. Kill(r) => at'[r] = "failed"
    BY RunTypes DEF Kill
  <2> QED  BY <2>1, <2>2, <2>3 DEF RunPart, Running
<1>3. UNCHANGED <<phase, kept, cutoff, cand>> /\ now' = now /\ landing' = landing
  BY <1>1 DEF RunPart, retentionPart, passVars, RunLeaves
<1>4. \A p \in Passes : phase[p] \notin Active
  BY <1>2 DEF NightlyInv, Phases, Outcomes
<1>5. Calendar'
  BY <1>2, <1>3, InvTypes DEF NightlyInv, Calendar, Tasks
<1>6. Phases'
  BY <1>0, <1>2, <1>3, <1>4 DEF Phases
<1>7. StampsInPast'
  BY <1>1, <1>3 DEF NightlyInv, StampsInPast, RunLeaves
<1>8. Rows("job_info")' = Rows("job_info") /\ \A t \in Aged : Rows(t)' = Rows(t)
  BY <1>3 DEF Rows
<1>9. IngestSafe'
  <2>1. ASSUME NEW t \in Aged PROVE BucketSafe(t)'
    BY <1>1, <2>1 DEF RunLeaves, BucketSafe
  <2>2. ASSUME NEW t \in Aged, at'[r] \in Running PROVE RunSafe(r, t)'
    BY <1>1, <1>3, <1>8, <2>2 DEF RunLeaves, RunSafe
  <2>3. at'[r] = "done" => CoveredBelow(started)'
    BY <1>1 DEF RunLeaves
  <2> QED  BY <1>0, <2>1, <2>2, <2>3 DEF IngestSafe
<1>10. (\A p \in Passes : PassSafe(p)') /\ NothingUnverified'
  BY <1>3, <1>4 DEF PassSafe, NightlyInv, NothingUnverified
<1> QED  BY <1>5, <1>6, <1>7, <1>9, <1>10

-----------------------------------------------------------------------------
(* The theorems. *)

LEMMA NightlyStep ==
  OrderlyNights /\ NightlyInv /\ [NightlyNext]_nightlyVars => NightlyInv'
<1> SUFFICES ASSUME OrderlyNights, NightlyInv, [NightlyNext]_nightlyVars PROVE NightlyInv'
  OBVIOUS
<1>0. NightlyTypes'
  BY NightlyTypeStep DEF NightlyInv
<1>1. ASSUME NEW p \in Passes, PassPart(p) PROVE NightlyInv'
  <2>1. \A q \in Passes : q = p
    BY DEF OrderlyNights
  <2>2. PassSafe(p)' /\ kept'[p] \cap (Aged \X Jobs) = {}
    BY <1>1, PassKeepsPass
  <2>3. \A q \in Passes : PassSafe(q)'
    BY <2>1, <2>2
  <2>4. NothingUnverified'
    BY <2>1, <2>2 DEF NothingUnverified, Aged
  <2> QED  BY <1>0, <1>1, <2>3, <2>4, PassKeepsIngest DEF NightlyInv
<1>2. CASE UNCHANGED nightlyVars
  <2>1. /\ UNCHANGED <<now, landing, iceberg, workflow, started>>
        /\ UNCHANGED <<at, source, local, batch, bucket, phase, kept, cutoff, cand>>
    BY <1>2 DEF nightlyVars, storeVars, runVars, passVars
  <2>2. Calendar' /\ Phases' /\ StampsInPast' /\ NothingUnverified'
    BY <2>1 DEF NightlyInv, Calendar, Phases, StampsInPast, NothingUnverified, Known
  <2>3. IngestSafe'
    BY <2>1 DEF NightlyInv, IngestSafe, BucketSafe, RunSafe, CoveredBelow, Extracted,
                InHand, Known, Rows, Replicated
  <2>4. \A p \in Passes : PassSafe(p)'
    BY <2>1 DEF NightlyInv, PassSafe, CoveredBelow, Rows, Replicated
  <2> QED  BY <1>0, <2>2, <2>3, <2>4 DEF NightlyInv
<1> QED
  BY <1>0, <1>1, <1>2, NightlySteps, RunKeeps, WorkflowKeeps, TickKeeps, WritersKeep
  DEF NightlyInv

LEMMA NightlyInvHolds == OrderlyNights /\ NightlySpec => []NightlyInv
<1> SUFFICES ASSUME OrderlyNights PROVE NightlySpec => []NightlyInv
  OBVIOUS
<1>1. NightlyInit => NightlyInv
  BY NightlyInitInv
<1>2. NightlyInv /\ [NightlyNext]_nightlyVars => NightlyInv'
  BY NightlyStep
<1> QED  BY <1>1, <1>2, PTL DEF NightlySpec

(* On orderly nights retention keeps no job_info or trace row unverified:  *)
(* it runs only after an ingestion that took every row from before the     *)
(* night, and its cutoff lies before the night, so a non-zero exit code    *)
(* always means a real gap, also after failed nights.                      *)
THEOREM NothingUnverifiedHolds == OrderlyNights /\ NightlySpec => []NothingUnverified
<1>1. NightlyInv => NothingUnverified
  BY DEF NightlyInv
<1> QED  BY <1>1, NightlyInvHolds, PTL

(* On orderly nights retention deletes a job_info or trace row only when   *)
(* Iceberg has it in the version that is deleted, although the code checks *)
(* the presence of the job_id alone.                                       *)
THEOREM NightlyDeletesOnlyCurrentHolds ==
  OrderlyNights /\ NightlySpec => NightlyDeletesOnlyCurrent
<1> SUFFICES ASSUME OrderlyNights PROVE NightlySpec => NightlyDeletesOnlyCurrent
  OBVIOUS
<1>1. NightlyInv /\ [NightlyNext]_nightlyVars => [OnlyCurrentLeave]_nightlyVars
  <2> SUFFICES ASSUME NightlyInv, NightlyNext PROVE OnlyCurrentLeave
    OBVIOUS
  <2>1. ASSUME NEW p \in Passes, PassPart(p) PROVE OnlyCurrentLeave
    BY <2>1, PassDeletesCurrent DEF OnlyCurrentLeave, Aged, Rows
  <2>2. ASSUME NEW r \in Runs, RunPart(r) PROVE OnlyCurrentLeave
    <3>1. landing' = landing
      BY <2>2, InvTypes, RunType DEF RunPart, NightlyInv, NightlyTypes
    <3> QED  BY <3>1 DEF OnlyCurrentLeave, Rows
  <2>3. CASE WorkflowPart \/ NightlyTick
    BY <2>3 DEF WorkflowPart, NightlyTick, Tick, storeVars, OnlyCurrentLeave, Rows
  <2>4. CASE Writers
    BY <2>4, WritersKeepRows DEF OnlyCurrentLeave, Aged, Rows
  <2> QED  BY <2>1, <2>2, <2>3, <2>4, NightlySteps
<1>2. NightlySpec => []NightlyInv
  BY NightlyInvHolds
<1> QED  BY <1>1, <1>2, PTL DEF NightlySpec, NightlyDeletesOnlyCurrent
=============================================================================
