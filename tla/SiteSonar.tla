----------------------------- MODULE SiteSonar -----------------------------
(***************************************************************************)
(* sitesonar.py run-sitesonar: scrape the Site Sonar dumps that are newer  *)
(* than the file-level high-water mark and append their rows to the        *)
(* Iceberg table site_sonar.                                               *)
(*                                                                         *)
(* Two cursors live in one dlt state: high_water_mark over file epochs,    *)
(* advanced by _iter_rows, and dlt's own incremental cursor over the rows' *)
(* last_updated.  Both reach the bucket only after the rows.  A file is    *)
(* named by its epoch; a row is <<hostname, last_updated>>.                *)
(***************************************************************************)
EXTENDS Integers, FiniteSetsExt

CONSTANTS
  Epochs,     \* the dumps that will be published, by file name epoch
  Hosts,
  Dump,       \* Dump[e]: the well-formed rows of the dump of epoch e
  Limits,     \* effective limits of the runs, --limit or SITESONAR_LIMIT
  MaxKills    \* bound on failed runs

(* No row is published twice, and a later dump holds no row older than one *)
(* of an earlier dump: the row cursor would drop it without a trace.       *)
ASSUME SiteSonarAssumption ==
  /\ Epochs \subseteq Nat \ {0}
  /\ IsFiniteSet(Epochs)
  /\ Dump \in [Epochs -> SUBSET (Hosts \X Nat)]
  /\ \A e \in Epochs : IsFiniteSet(Dump[e])
  /\ \A e, f \in Epochs : e < f =>
       \A r \in Dump[e], s \in Dump[f] : r # s /\ r[2] <= s[2]
  /\ Limits \subseteq Nat
  /\ MaxKills \in Nat

VARIABLES
  published,  \* the dumps the directory listing shows
  at,         \* where the run is
  todo,       \* new_files still to be fetched
  top,        \* max_epoch_fetched
  local,      \* the dlt state in the pod
  rows,       \* extracted rows that are not yet in the table
  sonar,      \* the site_sonar table: how many copies of each row
  bucket,     \* the dlt state in the bucket
  kills,      \* number of failed runs so far
  leftOut,    \* history: new dumps listed by the run, beyond its limit
  passedOver  \* history: dumps below the mark that a limit left out

sonarVars == <<published, at, todo, top, local, rows, sonar, bucket, kills,
               leftOut, passedOver>>

AllRows == UNION {Dump[e] : e \in Epochs}

(* The limit of a run that has none. *)
NoLimit == Cardinality(Epochs)

(* high_water_mark; the row cursor's last value, the rows seen at it.      *)
State == [high_water_mark : {0} \cup Epochs, last : Nat, edge : SUBSET AllRows]
Fresh == [high_water_mark |-> 0, last |-> 0, edge |-> {}]

SonarTypeOK ==
  /\ published \subseteq Epochs
  /\ at \in {"idle", "fetch", "load"}
  /\ todo \subseteq Epochs
  /\ top \in {0} \cup Epochs
  /\ local \in State
  /\ bucket \in State
  /\ rows \subseteq AllRows
  /\ sonar \in [AllRows -> Nat]
  /\ kills \in 0..MaxKills
  /\ leftOut \subseteq Epochs /\ passedOver \subseteq Epochs

SonarInit ==
  /\ published = {}
  /\ at = "idle"
  /\ todo = {}
  /\ top = 0
  /\ local = Fresh
  /\ rows = {}
  /\ sonar = [r \in AllRows |-> 0]
  /\ bucket = Fresh
  /\ kills = 0
  /\ leftOut = {} /\ passedOver = {}

-----------------------------------------------------------------------------
Updated(r) == r[2]

(* The source publishes a dump; its epoch is the time of its generation.   *)
Publish(e) ==
  /\ \A f \in published : f < e
  /\ published' = published \cup {e}
  /\ UNCHANGED <<at, todo, top, local, rows, sonar, bucket, kills, leftOut, passedOver>>

(* mutant: the comparison skips one epoch *)
NewerByTwo(S, mark) == {e \in S : e > mark + 1}
(* select_files_to_fetch: strictly above the mark. *)
SelectFilesToFetch(S, mark) == {e \in S : e > mark}

(* list_source_files sorts, new_files[:limit]: the n most recent.          *)
NewFiles(mark, n) ==
  LET all == SelectFilesToFetch(published, mark) IN
  {e \in all : Cardinality({f \in all : f > e}) < n}

(* mutant: the pod starts without the state of the bucket *)
StartRunAfresh(n) ==
  /\ at = "idle"
  /\ at' = "fetch"
  /\ local' = Fresh
  /\ todo' = NewFiles(0, n)
  /\ top' = 0
  /\ leftOut' = SelectFilesToFetch(published, 0) \ todo'
  /\ UNCHANGED <<published, rows, sonar, bucket, kills, passedOver>>

(* run, and the listing of _iter_rows: the state comes from the bucket.    *)
StartRun(n) ==
  /\ at = "idle"
  /\ at' = "fetch"
  /\ local' = bucket
  /\ todo' = NewFiles(bucket.high_water_mark, n)
  /\ top' = bucket.high_water_mark
  /\ leftOut' = SelectFilesToFetch(published, bucket.high_water_mark) \ todo'
  /\ UNCHANGED <<published, rows, sonar, bucket, kills, passedOver>>

(* The rows of a dump that dlt's incremental cursor lets through: at or    *)
(* above the value the run started from, minus those seen at it before.    *)
LetThrough(e) ==
  {r \in Dump[e] : Updated(r) >= bucket.last /\ r \notin bucket.edge}

(* The row cursor after the rows S. *)
Advance(w, S) ==
  LET last == Max({w.last} \cup {Updated(r) : r \in S})
      atLast == {r \in S : Updated(r) = last}
  IN  [w EXCEPT !.last = last,
                !.edge = IF last = w.last THEN @ \cup atLast ELSE atLast]

(* fetch_and_parse of the most recent file left, and its rows' way through *)
(* dlt.                                                                    *)
FetchFile ==
  /\ at = "fetch"
  /\ todo # {}
  /\ LET S == LetThrough(Max(todo)) IN
       /\ rows' = rows \cup S
       /\ local' = Advance(local, S)
  /\ todo' = todo \ {Max(todo)}
  /\ top' = Max({top, Max(todo)})
  /\ UNCHANGED <<published, at, sonar, bucket, kills, leftOut, passedOver>>

(* mutant: the mark is kept as an exclusive bound *)
EndFetchExclusive ==
  /\ at = "fetch"
  /\ todo = {}
  /\ at' = "load"
  /\ local' = [local EXCEPT !.high_water_mark = Max({@, top}) + 1]
  /\ UNCHANGED <<published, todo, top, rows, sonar, bucket, kills, leftOut, passedOver>>

(* The loop of _iter_rows is over: the mark moves in the resource state.   *)
EndFetch ==
  /\ at = "fetch"
  /\ todo = {}
  /\ at' = "load"
  /\ local' = [local EXCEPT !.high_water_mark = Max({@, top})]
  /\ UNCHANGED <<published, todo, top, rows, sonar, bucket, kills, leftOut, passedOver>>

(* One committed append of the load package.                               *)
AppendChunk ==
  /\ at = "load"
  /\ \E S \in (SUBSET rows) \ {{}} :
       /\ sonar' = [r \in AllRows |-> sonar[r] + IF r \in S THEN 1 ELSE 0]
       /\ rows' = rows \ S
  /\ UNCHANGED <<published, at, todo, top, local, bucket, kills, leftOut, passedOver>>

(* The dumps the run's limit left out and its mark has moved over.         *)
PassOver ==
  /\ passedOver' = passedOver \cup {e \in leftOut : e <= local.high_water_mark}
  /\ leftOut' = {}

(* mutant: the state is written with the first chunk *)
PersistEarly ==
  /\ at = "load"
  /\ bucket' = local
  /\ at' = IF rows = {} THEN "idle" ELSE "load"
  /\ PassOver
  /\ UNCHANGED <<published, todo, top, local, rows, sonar, kills>>

(* The package is complete; the state follows it. *)
Persist ==
  /\ at = "load"
  /\ rows = {}
  /\ bucket' = local
  /\ at' = "idle"
  /\ PassOver
  /\ UNCHANGED <<published, todo, top, local, rows, sonar, kills>>

(* An unreachable file, a frozen column type, a pod kill, the deadline:    *)
(* appended rows stay, the state of the run is lost.                       *)
Kill ==
  /\ at \in {"fetch", "load"}
  /\ kills < MaxKills
  /\ kills' = kills + 1
  /\ at' = "idle"
  /\ todo' = {}
  /\ top' = 0
  /\ local' = Fresh
  /\ rows' = {}
  /\ leftOut' = {}
  /\ UNCHANGED <<published, sonar, bucket, passedOver>>

Scrape ==
  \/ \E n \in Limits : StartRun(n)
  \/ FetchFile
  \/ EndFetch
  \/ AppendChunk
  \/ Persist

SonarNext ==
  \/ \E e \in Epochs : Publish(e)
  \/ Scrape
  \/ Kill

SonarSpec == SonarInit /\ [][SonarNext]_sonarVars

(* The CronWorkflow starts the next run, and a started pod keeps going.    *)
FairSonarSpec == SonarSpec /\ WF_sonarVars(Scrape)

-----------------------------------------------------------------------------
(* Properties.                                                             *)

(* A dump at or below the persisted mark, which no run will fetch again,   *)
(* has all its rows in the table: no failure between files, appends and    *)
(* state loses a dump ("skip already-processed archives across runs").     *)
(* The only dumps passed by are those that a run which was limited, and    *)
(* completed, listed and left out: --limit is a bound on a probe.          *)
SkippedAreProcessed ==
  \A e \in published \ passedOver : e <= bucket.high_water_mark =>
    \A r \in Dump[e] : sonar[r] > 0

(* A row is appended again only by a retry of a failed run: one more copy  *)
(* per failure at the most (docs/runbooks/ingestion-pipeline.md, weaker    *)
(* crash-retry semantics).                                                 *)
DuplicatesOnlyByRetry ==
  \A r \in AllRows : sonar[r] <= 1 + kills

(* Every published dump gets into the table, unless a limit passes it over.*)
BacklogDrains ==
  \A e \in Epochs :
    e \in published ~> e \in passedOver \/ \A r \in Dump[e] : sonar[r] > 0
=============================================================================
