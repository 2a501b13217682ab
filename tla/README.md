# TLA+ verification of datalake-v2

This directory models the control logic of datalake-v2: the jobs of
`ingest/src/alice_ingest` that copy monitoring rows from a landing PostgreSQL
database to Iceberg tables, delete them from landing afterwards and maintain the
tables, together with the Argo workflows that run them, the contract views and
the extraction that serve the data, and the reset. TLC checks small instances.
TLAPS proves, for instances of any size, every safety property that a run
checks: of the retention DELETE, the one irreversible operation, alone and in the
nightly workflow; of ingestion under kills and resets; of the Site Sonar scrape;
of the JDL parser, the schema it evolves and the views over it; of maintenance
and the freshness check; and of the training-data extraction. Liveness is
checked by TLC only.

Contents: [1 the system](#1-the-system) ·
[2 modules](#2-modules-and-their-correspondence-to-the-code) ·
[3 runs](#3-runs-bounds-and-results) · [4 fairness](#4-fairness) ·
[5 proofs](#5-what-is-proved) · [6 assumptions](#6-assumptions-about-what-is-external) ·
[7 not modelled](#7-not-modelled) · [8 plan](#8-plan)

## 1. The system

### Components

| Component | State it keeps | Operations | What makes it correct |
|---|---|---|---|
| Landing database (gen-1 writers, external) | tables job_info, trace, mon_jdls | insert, update; a JDL is inserted once | an update moves a row's age column forward |
| `pipeline.py` run-nightly | dlt state (watermark per table), local and in the bucket | three incremental extractions, upserts, state writes | the watermark never passes a row that is not in Iceberg; ingestion catches up |
| `retention.py` run-retention | in memory: cutoff, candidates, verified and kept ids | select candidates, plausibility guard, presence check, batched DELETE, exit code | no row leaves landing before it is replicated and out of the window; a clean exit means what it says |
| ingest-nightly workflow | workflow phase | DAG run-nightly, run-retention, check-freshness; Forbid; deadline | retention never meets rows that ingestion merely has not reached |
| `sitesonar.py` run-sitesonar | file high-water mark and row cursor, in dlt state | list, select, fetch, append | no dump is passed over but by a limit; duplicates come only from retries |
| `maintenance.py` run-maintenance, run-trino-maintenance | Iceberg snapshots and files | expire, optimize, expire, remove orphans, per table; overlap guard | never takes away data or files somebody needs |
| `maintenance.py` check-freshness | none | reads snapshot metadata of the core tables | says fresh exactly when data really arrived |
| `views.py`, `contract_columns.py` apply-views | contract views in Trino; the mapping in the image | drift check, CREATE OR REPLACE per table; regeneration of the mapping | no DDL after a failed check; exit 0 means all views; strict mode fails on drift |
| `views.py` TrinoClient (apply-views, run-trino-maintenance) | pages of a statement | POST, GET nextUri until none is left | a result is complete or an error |
| `jdl.py` | none | parse one JDL value | never drops a row, never stores a half-decoded one, never brings a second type for a column |
| `tools/extract_training_data.py` | Parquet files, manifest | resolve source, copy, snapshot id, per table | the manifest counts the rows of its files, and its snapshot is the file or what later loads made of it |
| `hack/reset-pipeline.sh` | deletes catalog tables and bucket objects | purge, drop, find, remove | success leaves no watermark without its table; a repeated reset recovers |
| CLI, configuration, charts, alerts | none of their own | | |

### Interactions

The jobs never call each other. They share four stores: the landing tables
(writers, ingest, retention), the Iceberg tables (ingest, retention's presence
check, maintenance, freshness, views, extraction), the dlt state in the bucket
(successive pods of one job, and any manual run) and the Workflow objects of the
Kubernetes API (overlap guard). Argo orders the tasks of one workflow and
`concurrencyPolicy: Forbid` keeps a CronWorkflow from overlapping itself. It
does not keep different CronWorkflows, or manual runs, apart.

### What is hard about it

* Retention reads in one statement and deletes in another, while rows are
  updated, ingested and retired by others, possibly by a second pass.
* A load is several commits and a state write, and a pod may die between any two.
* mon_jdls has no time column: its age is its parent's, and a parent may be
  young, old, retired or not there yet.
* Maintenance deletes files of tables that are being written and scanned.
* Two jobs keep a watermark over data published in an order they do not control.
* apply-views compares the columns of all tables, page by page, and then replaces
  the views one by one, while every load may add columns and a reset takes all.
* One JDL field may come with several JSON types, two spellings and two
  encodings; a column that is given a second type stops every later run.
* A reset removes tables and watermarks in many steps, each of which may fail,
  and does not look whether a run is active.
* An extraction reads source, data and snapshot id at three different moments.

PROJECT.json lists the hazards with their source lines and the properties
aimed at each.

## 2. Modules and their correspondence to the code

```
Handoff                     abstract: landing and lake never lose a row
   ^ implemented by
Stores <- Retention         retention.py                     <- RetentionProofs
Stores <- Ingest            pipeline.py run-nightly
          Ingest <- Reset   hack/reset-pipeline.sh beside it <- ResetProofs
          Ingest + Retention <- Nightly  ingest-cronworkflows.yaml
                                                             <- NightlyProofs
SiteSonar                   sitesonar.py                     <- SiteSonarProofs
Lake <- Maintenance         maintenance.py and its workflows <- MaintenanceProofs
Lake <- Extract             tools/extract_training_data.py   <- ExtractProofs
Jdl <- ContractViews        jdl.py; views.py, contract_columns.py
                                                             <- ViewsProofs
MaxProofs                   least and greatest elements, used by the proofs
MC<module>                  instances for TLC
```

**Stores.** `landing[t]` and `iceberg[t]` are functions from the job_ids with a
row to the stamp of that row. The stamp is the value of the table's age column,
in days, and since every update moves it forward it also names the version.
mon_jdls has no age column and carries `NoStamp`. `Upsert` is dlt's merge and
SQL's ON CONFLICT, `Without` is DELETE. The environment is the clock and the
gen-1 writers. `MaxLag` is how late a row may become visible, `OrderedLanding`
whether job_ids first appear in order, `CorruptStamps` the stamps of a writer
that uses the wrong epoch unit.

**Retention.** One process per pass, one action per SQL or catalog statement,
because every statement has a READ COMMITTED snapshot of its own:

| Action | Code |
|---|---|
| `Start` | `run`: the cutoff, computed once |
| `SelectOldJobIds` | `select_old_job_ids` of one table of `TABLES` |
| `CheckTracePlausibility` | the guard, before any table is touched |
| `ClassifyCandidates` | `present_job_ids` on one Iceberg snapshot, and the split |
| `DeleteBatch` | one DELETE with its re-asserted age predicate, and the commit |
| `FinishTable` | the next table of `_DELETE_ORDER`, or the exit code |
| `Crash` | exception, pod kill, deadline: committed batches stay |

The SQL predicates are `AgedRows` (candidates) and `DeletableRows` (what the
DELETE matches). The mon_jdls predicate keeps both branches, the parent's age
and the orphan below `MIN(job_id)`, with the `COALESCE(..., 0)` of an empty
job_info table. `Replicate` stands for ingestion.

**Handoff** is the abstract contract: rows arrive, are copied, and are retired
only when the lake has them. `ImplementsHandoff` is its instance in Retention
under the mapping `held` = rows in landing, `lake` = rows in Iceberg.

**Ingest.** A pod restores the dlt state (`StartRun`), then for each source
extracts above its watermark (`Extract`: closed range, rows already seen at
exactly the last value dropped by primary key), upserts in chunks (`LoadChunk`),
writes the state (`Persist`), and goes on (`NextSource`). `Kill` loses the pod
and keeps what was committed. A watermark is the last cursor value plus the ids
seen at it. The cursor is `last_update`, `laststatuschangetimestamp` or, for
mon_jdls, `job_id`; `InitialValue` is where it starts, the INGEST_INITIAL_*
overrides included. An override that does not parse ends the pod before it has
done anything.

**Nightly** composes Ingest and Retention over the same stores, so that the
presence check reads what the modelled ingestion really committed. It adds the
DAG (each task only after the one before succeeded), Forbid and
`activeDeadlineSeconds` (`WithinDeadline`). check-freshness is left open here
and modelled in Maintenance.

**SiteSonar.** A dump is named by its epoch and is the set of its well-formed
rows. `NewFiles` is the listing, the filter and `[:limit]`, most recent first; `todo`
is the set of the files it leaves, fetched from the most recent down.
`FetchFile` is one file's fetch with dlt's row cursor, `EndFetch` the advance of
the mark after the loop, `AppendChunk` one committed append, `Persist` the state
write. The site_sonar table counts copies of each row, since it is append-only.
`Limits` are the values of `--limit` and SITESONAR_LIMIT, `NoLimit` among them.
`leftOut` and `passedOver` are history: the dumps that the limit of this run, or
of a run that completed, kept from being fetched (`PassOver`).

**Lake** is an Iceberg namespace: per table the set of live snapshots, the id of
the current one, and the data files in storage; a file records the batches of
rows it holds and when it was written. **Maintenance** runs two workflows on it.
The nightly one uploads and commits files, scans a snapshot it pinned, and ends
with check-freshness. The order in which it visits tables is left open. The weekly one is
`PlanExpiry`/`CommitExpiry` (pyiceberg, one cutoff for all tables),
`CheckOverlap` (the guard), and per table `Optimize`/`CommitOptimize`,
`TrinoExpire`, `FindOrphans`/`DeleteOrphans`. All but `TrinoExpire` are split
where metadata is read and where it is acted on. Trino's expire_snapshots is one
step, which either takes the files that only expired snapshots had or leaves them
to remove_orphan_files: maintenance.py:133-140 found the second as deployed, and
the properties hold for both. `CommitOptimize` and
`CommitRows` are compare-and-swaps on the current snapshot and fail the task
when they lose. A batch of rows is here what one load wrote, whatever version later upserts give
its rows; Extract tells versions apart. check-freshness goes over all tables of
the model, which stand for `CORE_FRESHNESS_TABLES`. `GuardAnswers` lists what the
guard can go by: MAINTENANCE_FORCE, an unreachable API, and the API's answer for the namespace the client asks
about.

**Reset** composes Ingest with the reset pod. `StartReset` is the pod and its
`list_tables`; `PurgeTable` is `purge_table`; `DropNamespace` is refused while a
run has made a table again; `FindObjects` is `fs.find`, `RemoveObject` one
`fs.rm_file` or the exception that is noted; `FinishReset` is the exit code and
`ResetFails` every other exception. The dlt state and each table are one object
in the bucket. `dirty` and `overlapped` are history: they say from when on the
properties promise something again.

**Jdl** is `parse_jdl`. A text is the number of times it was escaped, its root
and its fields with their JSON types. `Decode` tries the text and then its
unescaped body, `MergeLpmCasing` joins the two spellings of LPMPassName and
keeps the first value that is not null (of a JSON key given twice `json.loads`
keeps the last value, and the model has just that one), `Canonical` turns every value into text,
and `Preserved` is what an unreadable row keeps. `FieldsIn` is the reference
definition: what a text says, read without the parser.

**ContractViews** has the mon_jdls table's schema and rows around apply-views:

| Action | Code |
|---|---|
| `Insert`, `LoadTable`, `LoadJdls` | writers; run-nightly with dlt's schema contract (columns evolve, `data_type` freeze), the rows `S` committed before it ends or is killed |
| `ResetPipeline` | a completed reset; the views live in another namespace and stay |
| `Regenerate` | "How to regenerate this mapping" of contract_columns.py, by an operator |
| `StartApply` | `run`, with or without `--strict`, and the mapping of the image |
| `PostShowColumns`, `PollNextUri` | `TrinoClient.run` of SHOW COLUMNS, and one GET of a page |
| `CheckDrift` | the report, and exit 2 before any DDL if a mapped column is missing |
| `CreateSchema`, `CreateView` | the DDL, one statement after the other; Trino rejects a view over a column that is gone by then |
| `StatementFails` | an error on any page, or HTTP; a statement Trino has executed stays executed |

A mapping, and in the same shape what a view selects, is a column or typed NULL
for each contract field and the set of columns passed through. `MappingFor` is
what the regeneration produces. `steady` is history: the columns of
mon_jdls_parsed that have been live ever since the run began.

**Extract** has extractions, one after the other, into one output directory:
`StartExtract`, then per table `ProbeContract`, `ProbeAlice`, `AskCatalog`
(`resolve_source` and `_fallback_reason`), `BindCopy` and `WriteFile` (COPY pins a
snapshot and then reads its files), `GetSnapshotId`, and at the end
`WriteManifest` (`build_manifest`, a dict keyed by table). `Fails` is any
exception: no new manifest, but files that may be overwritten and an older
manifest that stays. In the environment `Commit` is a nightly load: a merge by
primary key (`KeyOf`), which rewrites the files with an earlier version of the
row without that version. Compaction, expiry, purge and apply-views are in full
in Maintenance, Reset and ContractViews; here each is one step. A row count stands
for the row versions counted. Three fields of a result are history: `cause`, whether the
contract view was missing or could not be read when it was tried, and `holds` and
`since`, what the recorded snapshot holds and when it was committed.

Each property's mutant, a plausible wrong version of one definition, stands
next to that definition under a comment beginning with "mutant". PROJECT.json
pairs them with the properties they break.

## 3. Runs, bounds and results

| Run | Question | Instance |
|---|---|---|
| retention_parent | Delete order, orphan bound, exit code: a clean exit has collected its candidates, exit 0 means replicated, a JDL leaves only with its parent, a pass ends | 2 jobs, job_info and mon_jdls, 1 pass at a time, 3 days, 1 crash, ordered landing |
| retention_two_passes | Revival between SELECT and DELETE, beside another pass; an aborted pass has deleted nothing; only replicated rows leave; refinement of Handoff | 1 job, job_info and trace, corrupt stamps on both sides of the window, 2 overlapping passes, batches of 1 |
| reset | Kills between chunks, data and state, and sources, and resets that fail half-way and are repeated: the watermark covers what Iceberg lacks unless a reset is unfinished, ingestion catches up again | 2 jobs, job_info, 1 run at a time, 1 kill, 2 resets |
| nightly | The whole workflow: nothing unverified after a good ingest, only current versions deleted, landing is trimmed | 2 jobs, 4 days, 1 kill, 1 crash |
| sitesonar | No dump skipped but by a completed limited run, one extra copy per retry at most, the rest of the backlog drains | 3 dumps, rows sharing a timestamp across dumps, 2 kills, each run limited to one dump or not |
| maintenance | No batch lost, live snapshots readable, scans of active tables survive, freshness is exact | 1 table, 4 files, 4 time units, threshold 2 |
| views | What a row keeps of its JDL, whether a type conflict can arise, when views are touched, what exit 0, strict exit 0 and exit 2 promise | 2 jobs, 4 JDL texts, 2 contract fields of which the image nulls one, 1 reset, 1 regeneration |
| extract | What a manifest says of its files, of its snapshot and of a fallback, also when an earlier extraction has left files and a manifest | 2 extractions, 1 table named twice, 3 loads or compactions, of which the third load updates the row of the first, 3 time units, threshold 1 |

Why these bounds are enough for the questions asked. A conflict over a row needs
one row, and an ordering hazard (orphan bound, batches of one,
watermark ties) needs two. With `RetentionDays = 1` three days hold a row that
is written, ages out, and revives or is updated. Batches of size one make every
pair of rows fall on both sides of a commit. Two dumps are needed to pass one
over, and three let a mark stand between two others. Four files are two appends, their
compaction, and an append racing the compaction; four time units with threshold
2 let a snapshot and an orphan file outlive it. One table is enough for
maintenance since no statement reads two; going from table to table is
`NextTurn`, which the instance runs only as the step from the last table to the
next phase. In the views instance the four texts are the plain one, the escaped one with both
spellings (the first of them null) and a number where the plain one has a text,
one escaped twice and one that is no text: with two rows each pair of them meets
in one schema. One field is outside the contract and one is nulled in the
image's mapping, so that drift, the regenerated mapping and a reset change the
answer of the check. Extraction reads one table after the other
and compares nothing across tables; naming the one table twice makes the second
result replace the first in the manifest and overwrite its file. Its loads insert two
rows and update the first, so that a load between COPY and snapshot id may
replace what COPY read. Two extractions
suffice for a manifest and files left by another.
The Site Sonar runs choose their limit anew each time, which lets an unlimited
run follow a limited one that completed, or one that was killed.

Two passes are symmetric in retention_two_passes (`SYMMETRY`): jobs are ordered
and stay distinct, and the run checks no liveness, with which symmetry would be
unsound. CorruptStamps there are one before the plausible window and one beyond it.

The recorded snapshot of an extraction may be newer than its file, since it is
asked for after the COPY, and the loads are upserts. What holds, and is checked, is
that it is the file with later loads applied to it (`SnapshotFollowsFile`): every
row of the file is there in the same version or a newer one, and what the file
lacks was loaded after everything it has. Within the retention threshold it is not
expired (`RecordedSnapshotIsKept`). A purge in between excuses both. That the
snapshot has the very versions of the file, which reproducing the input would
need, does not hold (`snapshot_input` below).

The reason of a fallback is what the catalog lists after the contract schema could
not be read. `FallbackIsExplained` relates it to why that was: "not found" is
said only of a view that was missing, and "exists" of one that was missing only if
apply-views created it during the extraction. That exception is real: the view is
missing when it is tried, apply-views creates it, the catalog then lists it, and the
reason calls it "a duckdb-iceberg client limitation, not an ops mistake". The
docstring (lines 129-160) says that `resolve_source` tells these apart; it does so
only while no view is created between its two questions. This divergence can be
read off the order of the questions and has no run of its own.

The maintenance run uses the namespace the guard asks about, so that it can
defer. The deployed namespace only makes the guard proceed in more states, and
the instance has those steps too (unreachable API, force).

Four runs end in a violation on purpose. Each shows a place where the code
does something other than what a comment or docstring states:

| Run | What happens |
|---|---|
| stale_version | Presence is checked by job_id only: a row updated after its ingestion, not re-ingested, and grown old is deleted although its current version is nowhere else. In the nightly workflow this cannot happen while rows land on time (`NightlyDeletesOnlyCurrent` holds). |
| guard_namespace | The overlap guard asks about namespace `argo-workflows`; the workflows and the permission are in `datalake-orchestration`. It can never defer. |
| freshness_null | A stalled table whose appends were compacted and then expired has only a `replace` snapshot; formatting its age raises instead of reporting STALE. The exit status is non-zero either way. |
| snapshot_input | A load updates a row between the COPY and `get_snapshot_id`. The recorded snapshot has the new version only, so the file cannot be had from it, while docs/runbooks/ml-extraction.md section 5 takes the manifest for the answer to "can I reproduce this exact input later". |

That a completed limited scrape moves the mark over the dumps it left out is no
divergence: the limit bounds a probe, and
`test_limit_caps_the_new_files_not_the_full_listing` asserts it. `passedOver`
keeps account of exactly these dumps, and `SkippedAreProcessed` excuses no other.

A further divergence needs no run, since it can be read off the predicate:
retention.py:62-65 says that the LEFT JOIN treats an orphaned mon_jdls row as
eligible, while the orphan bound of the statement (lines 154-159) leaves out an
orphan above the oldest surviving job_info row until that row has gone. `JdlLeavesWithItsParent` checks the other direction.

Deadlock is checked in every run but those of Extract (extract, snapshot_input): schedules start the jobs
again, while extractions are started by hand and a bounded number of them ends.

## 4. Fairness

* `FairSpec` (Retention): weak fairness of `PassStep(p)` only. A running process
  keeps executing; its own next step stays enabled until it ends. Starting,
  crashing and writing are not promised.
* `ResetSpec`: weak fairness of a pod's steps and of starting a run-nightly,
  which is the nightly schedule (`FairIngestSpec` is the same without resets).
  Kills are bounded by `MaxKills`, which is to say that runs do not fail for
  ever. Resets are started by hand and are promised nothing; a reset that hangs leaves `dirty`
  true, and the property asks nothing then.
* `FairNightlySpec`: the schedule fires, started tasks keep executing, and the
  clock moves.
* `FairSonarSpec`: the schedule fires and a started pod keeps executing;
  publication of dumps is not promised, nor that a run is without a limit.
* Maintenance, ContractViews and Extract have safety properties only, and no fairness.

## 5. What is proved

The theorems hold for every value of the constants that the named assumptions
allow: any jobs, passes, runs, dumps, tables, texts, windows and bounds. The
table of each part gives the hypotheses a theorem has beyond those assumptions.
None of the properties is inductive as it stands. Each part names the invariant
its proofs establish; TLC has checked these invariants on the instances of
section 3, or on larger ones, before they were proved.

### Retention

`RetentionProofs`:

| Theorem | States | Hypotheses |
|---|---|---|
| `TypeCorrect`, `InvariantHolds` | `Spec => []TypeOK`, `Spec => []IInv` | |
| `DeletesOnlyReplicatedHolds` | no row leaves landing before its job_id is in Iceberg | |
| `DeletesOnlyOldHolds` | no job_info or trace row is deleted inside the window, revivals included | |
| `JdlLeavesWithItsParentHolds` | no JDL is deleted before its parent is old or can no longer land | `OrderedLanding` |
| `AbortDeletesNothingHolds` | a pass stopped by the guard has deleted nothing | |
| `ExitZeroMeansReplicatedHolds` | exit 0 only when every candidate was in Iceberg | |
| `CleanExitCollectsHolds` | a pass that exits 0 has left no candidate in reach of its DELETEs | `OnePass`, `RowsArePrompt` |
| `RetentionImplementsHandoff` | Retention refines Handoff | |
| `RetentionLosesNoRow` | no row is ever in neither store | |

`DeletesOnlyReplicated` needs to know, at a DELETE, that the ids of the batch
were found in Iceberg by an earlier step and that Iceberg only grows;
`DeletesOnlyOld` that the cutoff, computed at the start, is still a full window
behind the clock; `AbortDeletesNothing` that nothing has been deleted before the
guard; `ExitZeroMeansReplicated` that every candidate of every table already
classified is in Iceberg or counted as kept. `IInv` is `TypeOK` and, for every
pass, the conjunction of these parts (`VerifiedAreReplicated`, `CutoffIsPast`,
`GuardFirst`, `RunningHasNoResult`, `CandidatesAccounted`).

The argument: `StoresGrow` says that no step removes an id from Iceberg or turns
the clock back, so steps of the environment, of ingestion and of other passes
keep each part (`OtherPasses`); `OwnPassInv` goes through the actions of the
pass itself; `OnlyBatchesDelete` says that a landing row disappears only in a
`DeleteBatch`. The action properties then follow from the invariant before the
step and the predicate of the DELETE. The refinement maps a DELETE to `Retire`,
`Replicate` to `Copy`, a writer's insert to `Arrive`, all else to a stutter.

`CleanExitCollects` is the subtle one, because between the statements of a pass
writers revive rows, parents of orphans arrive and parents of JDLs are deleted.
Its invariant `CollectInv` says of every candidate a batch has handled
(`Handled`) that it is kept or `Collected`, and `Collected` is chosen so that
no step of anyone undoes it: a job_info or trace row is gone or has a stamp at
or above the cutoff; a JDL is gone, or has no old parent and some job_info row
at or below it with a young stamp, which outlives the pass and keeps the JDL
from being an orphan below every survivor. `Waiting` says
of the JDLs not handled yet that, when they have no parent, no job_info row at
or below them is old; it holds because mon_jdls is first in `_DELETE_ORDER`,
before this pass deletes parents (`JdlsAreNext`). `StoresMove` is
what a step does to the stores, whoever takes it. The hypotheses are both needed:
a second pass may retire the young row, and a row that lands with a stamp older
than the window may be a new candidate (`RowsArePrompt` is
`MaxLag <= RetentionDays` and no corrupt stamps).

### Ingestion and reset

`ResetProofs`:

| Theorem | States | Hypotheses |
|---|---|---|
| `ResetTypeCorrect` | `ResetSpec => []ResetTypeOK` | |
| `CleanSlateCoversHolds` | no persisted watermark passes a row that Iceberg lacks, unless a reset is under way, has failed, or ran beside a run | `OneRun`, `RowsLandOnTime` |

`CleanInv` relates five copies of what was ingested: landing, Iceberg, the rows
in hand, the watermark in the pod and the one in the bucket. A watermark is
`Sound` (some row is at or above it, so that a row landing later is not below),
the bucket is behind every running pod (`BucketBehind`), and what a watermark has
passed is in Iceberg in its current version, or in the hands of the pod
(`Covered`). Extraction moves rows into the hand and the watermark with them, a
chunk moves them to Iceberg, `Persist` writes the watermark when the hand is
empty, a kill drops hand and watermark together. `ResetInOrder` carries the
same through a reset: undisturbed and without a failed delete, it has removed the state or
still has it on its list.

### Site Sonar

`SiteSonarProofs`:

| Theorem | States | Hypotheses |
|---|---|---|
| `SonarTypeCorrect` | `SonarSpec => []SonarTypeOK` | |
| `SkippedAreProcessedHolds` | every row of a dump at or below the mark is in the table, unless a completed limited run left the dump out | |
| `DuplicatesOnlyByRetryHolds` | a row is in the table at most once more than runs have failed | |

`SInv`: the row cursor stands at rows of dumps up to the mark (`Marks`), the rows
of a run are from dumps above the mark it began with (`Underway`), and a row
whose dump is still to be fetched has at most one copy per failure (`Copies`).
`NoneLeftOut` adds that a dump the run has passed by has its rows in the table
or in hand, or is one that its limit, or that of an earlier run that completed,
left out. `Limits` may be any set of limits, so the theorem covers every sequence
of probes and full runs.

### JDL, schema and views

`ViewsProofs`:

| Theorem | States |
|---|---|
| `ViewsInvariant` | `ViewsSpec => []VInv` |
| `ViewsTypeCorrect` | `ViewsSpec => []ViewsTypeOK` |
| `SchemaFollowsDataHolds` | a column for every field of a loaded JDL, and no other |
| `FreezeNeverTripsHolds` | no load is rejected for a second type of a column |
| `RowsKeepTheirJdlHolds` | a loaded row has every set field of a readable JDL as text, or the unreadable original |
| `ViewsOnlyAfterCleanCheckHolds` | a view changes only when nothing was seen missing in any table |
| `ExitZeroAppliesAllHolds` | exit 0 means every view is the one of the mapping run |
| `StrictGateHolds` | after a strict exit 0 the JDL view has every jdl__ column live since the start |
| `GapCanBeClosedHolds` | the mapping regenerated from columns that have not changed since does not lead to exit 2 |

About the parser, three lemmas say all that is needed: `ReadableIsKept` (an object
escaped at most once yields exactly its set fields, as text, with one name for
the two spellings), `OthersArePreserved` (everything else is flagged and keeps
its original) and `JdlColumnsAreText` (the columns of a row are those of its set
fields, all of type text). That the first non-null spelling exists is the
well-foundedness of `<` on positions.

`VInv` adds to the types and `SchemaFollowsData`: every column of
mon_jdls_parsed has one type (`LiveTyped`), from which the freeze never trips;
the process reaches DDL only with nothing missing in what it has seen
(`CheckedFirst`); the views before the current one in TABLE_SPECS are already
those of the image (`AppliedInOrder`), which at the last table gives exit 0; and
a column live since the start has been seen or is in a page still to come
(`SteadySeen`), so that a strict run that exits 0 has compared it. Loads,
resets and regenerations change neither what the process has seen nor its image,
and `steady` only shrinks.

`GapCanBeClosed` needs the converse too (`GapInv`): a table has all the columns
it is declared with or does not exist (`TablesWhole`), everything of job_info and
trace is seen before the next table is asked for and nothing else is
(`SourcesSeen`), and until a reset what was seen of mon_jdls_parsed is still
there (`SeenIsLive`). Then a regenerated mapping neither misses a column
(`RegeneratedMissesNothing`) nor leaves one unmapped (`RegeneratedDoesNotDrift`).

### Maintenance and freshness

`MaintenanceProofs`:

| Theorem | States |
|---|---|
| `MaintenanceTypeCorrect` | `MaintenanceSpec => []MaintenanceTypeOK` |
| `SnapshotsStayReadable` | no file of a live snapshot is missing from storage |
| `ScanOfActiveTableHolds` | files are taken from under a pinned scan only on a table without data for longer than the threshold |
| `NoBatchIsLost` | no step takes a batch from the readers of the current snapshot |
| `FreshnessIsExactHolds` | check-freshness succeeds exactly when every table got data within `MaxAge` |

`MInv` says why the plans of statements in progress survive what others commit:
orphans planned for removal are older than the threshold and in no snapshot,
while a file that waits for its commit is younger, since its workflow has not
outlived its deadline (`OrphansPlan`, `UploadIsNew`, `Times`); what optimize is
about to commit holds all batches of the snapshot it replaces, if that is still
the current one (`OptimizePlan`); an expiry never names the current snapshot
(`ExpiryPlan`); and an append within the threshold still has its snapshot
(`Appends`), from which freshness follows. The deadline and `MaxAge` being no
longer than the threshold (`MaintenanceAssumption`) is where the proof breaks
without it.

### Extraction

`ExtractProofs`:

| Theorem | States |
|---|---|
| `ExtractTypeCorrect` | `ExtractSpec => []ExtractTypeOK` |
| `ManifestMatchesFilesHolds` | every table asked for has an entry, and it counts the rows of its file |
| `SnapshotFollowsFileHolds` | the recorded snapshot is the file with later loads applied to it |
| `RecordedSnapshotIsKeptHolds` | within the threshold of its commit the recorded snapshot is live and stored |
| `FallbackIsExplainedHolds` | the reason of a fallback agrees with the cause of the failed read, but for a view created during the extraction |

`EInv` follows one result from the COPY into the manifest. Loads are numbered in
commit order and no snapshot holds one yet to come (`Snaps`). Until a purge, the
current snapshot follows what was read (`InCurrent`, `Follows`): an upsert puts a
newer version in place of an older one, or adds what is newer than all of it. The
reason given so far agrees with the cause (`InWork`). A finished result describes
its file or a later result of the same table does (`Finished`), which is how a
table named twice comes out right, and the manifest has the last result of each
table (`Written`); an aborted later run leaves the manifest as it is and may
change the files, which is why the properties ask at `done`. `Progress` relates
the number of results to the place in `--tables`.

### The nightly workflow

`NightlyProofs` composes the retention and ingestion parts:

| Theorem | States | Hypotheses |
|---|---|---|
| `NightlyTypeCorrect` | `NightlySpec => []NightlyTypeOK` | |
| `NothingUnverifiedHolds` | retention keeps no job_info or trace row as unverified, also after failed nights | `OrderlyNights` |
| `NightlyDeletesOnlyCurrentHolds` | retention deletes a job_info or trace row only when Iceberg has that very version | `OrderlyNights` |

`OrderlyNights` is one pod per task, rows that land when they are stamped, no
INGEST_INITIAL_* value above the first stamp, and a deadline within the retention window. The second theorem is
what a single retention pass cannot promise (`stale_version`). Its
argument runs over both tasks. `Known(t)` is every row a table ever had,
deleted ones in their last version, so that soundness of a watermark does not
depend on what retention has deleted. `IngestSafe` is the reset argument over
`Known`, and adds that a run that is done has passed every row stamped before
the night began (`CoveredBelow(started)`). The deadline puts the
cutoff of the night's retention at or before that moment, so that the pass begins with
everything below its cutoff in Iceberg as it is, and writers that land rows at
the present time add nothing below it (`PassSafe`).

### Assumptions, and what is left to TLC

The proofs use the hypotheses in the tables and the named assumptions on the
constants, nothing else. Apart from the types of constants these are:

* `JdlAssumption`: dlt's naming convention maps no two field names of the
  vocabulary to one column.
* `ViewsAssumption`: the jdl__ names are distinct from the declared columns and
  from the landing columns of job_info and trace, and these have the columns the views name.
* `SiteSonarAssumption`: dumps are finite, no row is published twice, and no
  later dump has an older row.
* `MaintenanceAssumption`: nightly deadline and `MaxAge` are no longer than the
  retention threshold.

Every invariant and every safety action property of the passing runs is proved.
Checked by TLC only: liveness (`PassTerminates`, `CatchesUpAgain`,
`LandingIsTrimmed`, `BacklogDrains`), since fairness and ENABLED are outside
what TLAPS does. No recursive definition is used in a module that is proved
about.

## 6. Assumptions about what is external

dlt, PostgreSQL, Trino, Iceberg and the writers are not in the repository and
are modelled from how its code and runbooks use them.

* dlt: closed cursor range with deduplication at the last value; data before
  state; a failed run persists no state; an upsert or append may commit in parts.
* Rows land in cursor order (`MaxLag = 0`, no corrupt stamps) in the reset and nightly instances.
  A transaction that becomes visible after the watermark passed its stamp is not
  extracted; the code has no answer to it.
* One run at a time in Ingest. Two overlapping runs work from two copies of the
  state and may overwrite newer versions and persist an older watermark.
* `CleanSlateCovers` and `CatchesUpAgain` ask nothing while a reset is under way,
  after one that failed, or after one that overlapped a run-nightly, until a
  later reset ends well on its own. Such a run may persist a watermark over rows
  whose table the reset removes; the script leaves it to the operator.
* Trino evaluates SHOW COLUMNS once and serves its rows in pages, and accepts a
  view only if its columns exist at that moment. dlt adds a column for each new
  field and none for a null, and rejects a load with a second type.
* The nightly deadline is not longer than the retention window
  (`WithinDeadline` with `Deadline = RetentionDays` in the instance; hours
  against 14 days in the charts).
* Site Sonar publishes no row twice and, in a later dump, no row older than
  any of an earlier dump (`SiteSonarAssumption`). The row cursor would drop such a row.
* Iceberg commits are compare-and-swaps for OPTIMIZE and the nightly writer;
  snapshot expiry re-applies to the then current metadata. The nightly deadline
  and MaxAge are no longer than the retention threshold (`MaintenanceAssumption`).

## 7. Not modelled

* Log lines, counts that are only printed, DDL and SQL text, the identifier check
  of views.py: wording, without state.
* Arguments, credentials and the DuckDB setup of the extraction, the rest of the
  CLI and configuration: straight-line code with unit tests.
* hack/run-ingest-once.sh starts one pod with a task's command: what it runs is a
  run of the models at another time. hack/jdl_fixture_fields.py generates test data.
* Alert expressions, Helm templates, the kind environment and CI: declarative.
  Their deadlines, namespaces and concurrency policy are constants of the models.
* Two run-nightly at once (see 6), and late rows: the code has no answer to them.

## 8. Plan

Done: every module of section 2, its runs, and proofs of all the safety
properties the runs check, each with the inductive invariant it needs.

1. The composition as an implementation: Nightly refines Handoff too, without
   `OrderlyNights`. The steps of ingestion there load versions that may be older than
   landing's, so it needs a proof of its own; with it the other retention theorems carry over.
2. Two tables in the maintenance instance, if its state space can be cut down.
