-------------------------------- MODULE Lake --------------------------------
(***************************************************************************)
(* An Iceberg namespace at the level of snapshots and data files: what     *)
(* maintenance.py and the nightly writer do to it through pyiceberg and    *)
(* Trino.  Commits are optimistic: they name the current snapshot they     *)
(* started from and fail when another one has become current.              *)
(***************************************************************************)
EXTENDS Integers, Sequences, FiniteSetsExt

CONSTANTS
  TableOrder,   \* the tables of the namespace, sorted
  MaxTime,      \* bound of the clock
  MaxFiles      \* bound on data files ever written

ASSUME LakeAssumption ==
  /\ TableOrder \in Seq(Range(TableOrder)) /\ TableOrder # <<>>
  /\ MaxTime \in Nat \ {0}
  /\ MaxFiles \in Nat

VARIABLES
  now,
  snapshots,    \* per table: its live snapshots
  current,      \* per table: current-snapshot-id, 0 before the first commit
  storage,      \* per table: the data files in object storage
  nextFile,     \* the next file and snapshot id
  lastAppend    \* history: when each table last got data, 0 for never

lakeVars == <<now, snapshots, current, storage, nextFile, lastAppend>>

Tables == Range(TableOrder)
Time == 1..MaxTime
Id == 1..MaxFiles

(* A data file and the batches of rows it holds; a snapshot.  "append" is  *)
(* any operation that changes data, an overwrite or a delete as well.      *)
File == [id : Id, at : Time, holds : SUBSET Id]
Snapshot == [id : Id, op : {"append", "replace"}, at : Time, files : SUBSET File]

LakeTypeOK ==
  /\ now \in Time
  /\ snapshots \in [Tables -> SUBSET Snapshot]
  /\ current \in [Tables -> {0} \cup Id]
  /\ storage \in [Tables -> SUBSET File]
  /\ nextFile \in 1..(MaxFiles + 1)
  /\ lastAppend \in [Tables -> {0} \cup Time]

LakeInit ==
  /\ now = 1
  /\ snapshots = [t \in Tables |-> {}]
  /\ current = [t \in Tables |-> 0]
  /\ storage = [t \in Tables |-> {}]
  /\ nextFile = 1
  /\ lastAppend = [t \in Tables |-> 0]

CurrentFiles(t) == UNION {s.files : s \in {u \in snapshots[t] : u.id = current[t]}}

NewFile(holds) == [id |-> nextFile, at |-> now, holds |-> holds]

(* A file is written to storage before any snapshot refers to it.          *)
Upload(t, file) ==
  /\ nextFile <= MaxFiles
  /\ storage' = [storage EXCEPT ![t] = @ \cup {file}]
  /\ nextFile' = nextFile + 1

Commits(t, op, id, files) ==
  /\ snapshots' = [snapshots EXCEPT
                     ![t] = @ \cup {[id |-> id, op |-> op, at |-> now, files |-> files]}]
  /\ current' = [current EXCEPT ![t] = id]

(* Snapshots older than cut, the current one excepted.                     *)
Expirable(t, cut) == {s \in snapshots[t] : s.id # current[t] /\ s.at < cut}

Expire(t, doomed) ==
  /\ snapshots' = [snapshots EXCEPT ![t] = {s \in @ : s.id \notin doomed}]
  /\ UNCHANGED current

(* The batches a reader of the current snapshot really finds. *)
Readable(t) == UNION {f.holds : f \in CurrentFiles(t) \cap storage[t]}
=============================================================================
