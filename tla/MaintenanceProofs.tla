------------------------- MODULE MaintenanceProofs -------------------------
(***************************************************************************)
(* What maintenance never takes from the tables that the nightly workflow  *)
(* is writing and scanning at the same time: for any number of tables,     *)
(* files and days, and any retention threshold.                            *)
(***************************************************************************)
EXTENDS Maintenance, MaxProofs

-----------------------------------------------------------------------------
(* The tables in their order, and the pieces of a commit.                  *)

LEMMA TurnIsTable ==
  /\ TableOrder \in Seq(Tables) /\ Len(TableOrder) \in Nat \ {0}
  /\ DOMAIN TableOrder = 1..Len(TableOrder)
  /\ Head(TableOrder) \in Tables
  /\ \A i \in DOMAIN TableOrder : TableOrder[i] \in Tables
<1>1. TableOrder \in Seq(Tables) /\ TableOrder # <<>>
  BY LakeAssumption DEF Tables
<1>2. Len(TableOrder) \in Nat \ {0} /\ DOMAIN TableOrder = 1..Len(TableOrder)
  BY <1>1
<1>3. \A i \in DOMAIN TableOrder : TableOrder[i] \in Tables
  BY <1>1, <1>2
<1> QED  BY <1>1, <1>2, <1>3

LEMMA CurrentFilesAre ==
  ASSUME NEW t
  PROVE  \A f : f \in CurrentFiles(t) <=>
                  \E s \in snapshots[t] : s.id = current[t] /\ f \in s.files
BY DEF CurrentFiles

LEMMA FilesAreFiles ==
  ASSUME LakeTypeOK, NEW t \in Tables
  PROVE  CurrentFiles(t) \subseteq File /\ \A s \in snapshots[t] : s.files \subseteq File
<1>1. snapshots[t] \subseteq Snapshot
  BY DEF LakeTypeOK
<1>2. \A s \in snapshots[t] : s.files \subseteq File
  BY <1>1 DEF Snapshot
<1> QED  BY <1>2, CurrentFilesAre

(* The file that an upload writes, with an id no file had before. *)
LEMMA UploadIs ==
  ASSUME LakeTypeOK, NEW t \in Tables, NEW holds \in SUBSET Id,
         Upload(t, NewFile(holds))
  PROVE  /\ nextFile \in Id /\ nextFile' = nextFile + 1
         /\ nextFile' \in 1..(MaxFiles + 1)
         /\ NewFile(holds) \in File
         /\ NewFile(holds).id = nextFile /\ NewFile(holds).at = now
         /\ NewFile(holds).holds = holds
         /\ storage' \in [Tables -> SUBSET File]
         /\ storage'[t] = storage[t] \cup {NewFile(holds)}
         /\ \A u \in Tables \ {t} : storage'[u] = storage[u]
<1>1. nextFile \in Id /\ nextFile' = nextFile + 1 /\ nextFile' \in 1..(MaxFiles + 1)
  BY LakeAssumption DEF Upload, LakeTypeOK, Id
<1>2. now \in Time
  BY DEF LakeTypeOK
<1>3. /\ NewFile(holds) \in File /\ NewFile(holds).id = nextFile
      /\ NewFile(holds).at = now /\ NewFile(holds).holds = holds
  BY <1>1, <1>2 DEF NewFile, File
<1> DEFINE new == NewFile(holds)
<1> HIDE DEF new
<1>4. storage' = [storage EXCEPT ![t] = @ \cup {new}] /\ new \in File
  BY <1>3 DEF Upload, new
<1>5. storage' \in [Tables -> SUBSET File] /\ storage'[t] = storage[t] \cup {new}
      /\ \A u \in Tables \ {t} : storage'[u] = storage[u]
  BY <1>4 DEF LakeTypeOK
<1> QED  BY <1>1, <1>3, <1>5 DEF new

LEMMA CommitsIs ==
  ASSUME LakeTypeOK, NEW t \in Tables, NEW op \in {"append", "replace"}, NEW id \in Id,
         NEW files \in SUBSET File, Commits(t, op, id, files)
  PROVE  /\ snapshots' \in [Tables -> SUBSET Snapshot]
         /\ current' \in [Tables -> {0} \cup Id]
         /\ current'[t] = id /\ \A u \in Tables \ {t} : current'[u] = current[u]
         /\ \A u \in Tables \ {t} : snapshots'[u] = snapshots[u]
         /\ \E s \in Snapshot :
              /\ s.id = id /\ s.op = op /\ s.at = now /\ s.files = files
              /\ snapshots'[t] = snapshots[t] \cup {s}
<1> DEFINE s == [id |-> id, op |-> op, at |-> now, files |-> files]
<1>1. now \in Time
  BY DEF LakeTypeOK
<1>2. s \in Snapshot /\ s.id = id /\ s.op = op /\ s.at = now /\ s.files = files
  BY <1>1 DEF Snapshot
<1>3. snapshots' = [snapshots EXCEPT ![t] = @ \cup {s}]
  BY DEF Commits
<1>4. current' = [current EXCEPT ![t] = id]
  BY DEF Commits
<1> HIDE DEF s
<1>5. /\ snapshots' \in [Tables -> SUBSET Snapshot]
      /\ snapshots'[t] = snapshots[t] \cup {s}
      /\ \A u \in Tables \ {t} : snapshots'[u] = snapshots[u]
  BY <1>2, <1>3 DEF LakeTypeOK
<1>6. /\ current' \in [Tables -> {0} \cup Id]
      /\ current'[t] = id /\ \A u \in Tables \ {t} : current'[u] = current[u]
  BY <1>4 DEF LakeTypeOK
<1> QED  BY <1>2, <1>5, <1>6

LEMMA ExpireIs ==
  ASSUME LakeTypeOK, NEW t \in Tables, NEW doomed, Expire(t, doomed)
  PROVE  /\ snapshots' \in [Tables -> SUBSET Snapshot] /\ current' = current
         /\ snapshots'[t] = {s \in snapshots[t] : s.id \notin doomed}
         /\ \A u \in Tables \ {t} : snapshots'[u] = snapshots[u]
BY DEF LakeTypeOK, Expire

-----------------------------------------------------------------------------
(* Type correctness. *)

LEMMA MaintenanceTypeInit == MaintenanceInit => MaintenanceTypeOK
<1> SUFFICES ASSUME MaintenanceInit PROVE MaintenanceTypeOK
  OBVIOUS
<1> USE TurnIsTable DEF MaintenanceInit, LakeInit
<1>1. LakeTypeOK
  BY LakeAssumption DEF LakeTypeOK, Time
<1>2. 1 \in DOMAIN TableOrder /\ 1 \in Time
  BY LakeAssumption DEF Time
<1> QED  BY <1>1, <1>2 DEF MaintenanceTypeOK, Ended, Planned

(* The next table, or the first one. *)
LEMMA NextTurnIs ==
  ASSUME turn \in DOMAIN TableOrder, NEW this, NEW next, NextTurn(this, next)
  PROVE  turn' \in DOMAIN TableOrder /\ maint' \in {this, next}
BY TurnIsTable DEF NextTurn

LEMMA MaintenanceTypeStep ==
  MaintenanceTypeOK /\ [MaintenanceNext]_maintenanceVars => MaintenanceTypeOK'
<1> SUFFICES ASSUME MaintenanceTypeOK, [MaintenanceNext]_maintenanceVars
             PROVE  MaintenanceTypeOK'
  OBVIOUS
<1> USE TurnIsTable DEF MaintenanceTypeOK, LakeTypeOK, Ended, Planned
<1>1. LakeTypeOK /\ Turn \in Tables
  BY DEF Turn
<1>2. CASE SubmitNightly
  BY <1>2 DEF SubmitNightly, lakeVars, maintVars
<1>3. CASE RunNightly
  BY <1>3 DEF RunNightly, lakeVars, maintVars
<1>4. CASE LoadRows
  <2>1. PICK t \in todo :
          /\ Upload(t, NewFile({nextFile})) /\ upload' = {NewFile({nextFile})}
          /\ base' = current[t] /\ table' = t
    BY <1>4 DEF LoadRows
  <2>2. nextFile \in Id /\ t \in Tables
    BY <2>1 DEF Upload, Id
  <2>3. /\ nextFile' \in 1..(MaxFiles + 1) /\ storage' \in [Tables -> SUBSET File]
        /\ NewFile({nextFile}) \in File
    BY <1>1, <2>1, <2>2, UploadIs
  <2> QED  BY <1>4, <2>1, <2>2, <2>3 DEF LoadRows, maintVars
<1>5. CASE CommitRows
  <2>1. CASE base = current[table]
    <3>1. PICK f \in upload : Commits(table, "append", f.id, CurrentFiles(table) \cup upload)
      BY <1>5, <2>1 DEF CommitRows
    <3>2. CurrentFiles(table) \cup upload \in SUBSET File /\ f.id \in Id
      BY <1>1, <3>1, FilesAreFiles DEF File
    <3>3. snapshots' \in [Tables -> SUBSET Snapshot] /\ current' \in [Tables -> {0} \cup Id]
      BY <1>1, <3>1, <3>2, CommitsIs
    <3>4. lastAppend' \in [Tables -> {0} \cup Time]
      BY <1>5, <2>1 DEF CommitRows
    <3>5. task' \in {"load", "scan"} /\ todo' \subseteq Tables
      BY <1>5, <2>1 DEF CommitRows, After
    <3> QED  BY <1>5, <2>1, <3>3, <3>4, <3>5 DEF CommitRows, maintVars
  <2>2. CASE base # current[table]
    BY <1>5, <2>2 DEF CommitRows, maintVars
  <2> QED  BY <2>1, <2>2
<1>6. CASE NoNewRows
  BY <1>6 DEF NoNewRows, After, lakeVars, maintVars
<1>7. CASE PinSnapshot
  <2>1. PICK t \in todo : table' = t /\ pinned' = CurrentFiles(t)
    BY <1>7 DEF PinSnapshot
  <2>2. pinned' \subseteq File
    BY <1>1, <2>1, FilesAreFiles
  <2> QED  BY <1>7, <2>1, <2>2 DEF PinSnapshot, lakeVars, maintVars
<1>8. CASE ReadPinned
  BY <1>8 DEF ReadPinned, After, lakeVars, maintVars
<1>9. CASE CheckFreshness
  <2>1. freshness' \in {"raised", "ok", "stale"}
    BY <1>9 DEF CheckFreshness
  <2> QED  BY <1>9, <2>1 DEF CheckFreshness, lakeVars, maintVars
<1>10. CASE NightlyFails
  BY <1>10 DEF NightlyFails, lakeVars, maintVars
<1>11. CASE StartMaintenance
  BY <1>11, MaintenanceAssumption DEF StartMaintenance, lakeVars, nightlyVars, Time
<1>12. CASE PlanExpiry
  <2>1. \A s \in snapshots[Turn] : s.id \in Id
    BY <1>1 DEF Snapshot
  <2>2. plan' \subseteq Id
    BY <1>12, <2>1 DEF PlanExpiry, Expirable
  <2> QED  BY <1>12, <2>2 DEF PlanExpiry, lakeVars, nightlyVars
<1>13. CASE CommitExpiry
  <2>1. snapshots' \in [Tables -> SUBSET Snapshot] /\ current' = current
    BY <1>1, <1>13, ExpireIs DEF CommitExpiry
  <2>2. turn' \in DOMAIN TableOrder /\ maint' \in {"expire", "guard"}
    BY <1>13, NextTurnIs DEF CommitExpiry
  <2> QED  BY <1>13, <2>1, <2>2 DEF CommitExpiry, nightlyVars
<1>14. CASE CheckOverlap
  <2>1. maint' \in {"idle", "optimize"} /\ plan' = plan /\ plan = {}
    BY <1>14 DEF CheckOverlap
  <2> QED  BY <1>14, <2>1 DEF CheckOverlap, lakeVars, nightlyVars
<1>15. CASE Optimize
  <2>1. CASE Cardinality(CurrentFiles(Turn)) > 1
    <3> DEFINE holds == UNION {f.holds : f \in CurrentFiles(Turn)}
    <3>1. holds \in SUBSET Id
      <4>1. \A f \in CurrentFiles(Turn) : f.holds \in SUBSET Id
        BY <1>1, FilesAreFiles DEF File
      <4> QED  BY <4>1
    <3>2. /\ Upload(Turn, NewFile(holds)) /\ plan' = {NewFile(holds)}
          /\ mbase' = current[Turn] /\ maint' = "optimize-commit"
      BY <1>15, <2>1 DEF Optimize
    <3> HIDE DEF holds
    <3>3. /\ nextFile' \in 1..(MaxFiles + 1) /\ storage' \in [Tables -> SUBSET File]
          /\ NewFile(holds) \in File
      BY <1>1, <3>1, <3>2, UploadIs
    <3> QED  BY <1>1, <1>15, <3>2, <3>3 DEF Optimize, nightlyVars
  <2>2. CASE ~(Cardinality(CurrentFiles(Turn)) > 1)
    <3>1. maint' = "trino-expire" /\ UNCHANGED <<storage, nextFile, plan, mbase>> /\ plan = {}
      BY <1>15, <2>2 DEF Optimize
    <3> QED  BY <1>15, <3>1 DEF Optimize, nightlyVars
  <2> QED  BY <2>1, <2>2
<1>16. CASE CommitOptimize
  <2>1. CASE mbase = current[Turn]
    <3>1. PICK f \in plan : Commits(Turn, "replace", f.id, plan)
      BY <1>16, <2>1 DEF CommitOptimize
    <3>2. plan \in SUBSET File /\ f.id \in Id
      BY <1>16 DEF CommitOptimize, File
    <3>3. snapshots' \in [Tables -> SUBSET Snapshot] /\ current' \in [Tables -> {0} \cup Id]
      BY <1>1, <3>1, <3>2, CommitsIs
    <3> QED  BY <1>16, <2>1, <3>3 DEF CommitOptimize, nightlyVars
  <2>2. CASE mbase # current[Turn]
    BY <1>16, <2>2 DEF CommitOptimize, nightlyVars
  <2> QED  BY <2>1, <2>2
<1>17. CASE TrinoExpire
  <2> DEFINE gone == Expirable(Turn, TrinoCutoff)
             lost == (UNION {s.files : s \in gone}) \ Referenced(Turn, gone)
             doomed == {s.id : s \in gone}
  <2>1. PICK dropped \in {{}, lost} :
        /\ Expire(Turn, doomed)
        /\ storage' = [storage EXCEPT ![Turn] = @ \ dropped]
        /\ maint' = "orphans" /\ plan = {}
        /\ UNCHANGED <<now, nextFile, lastAppend, nightlyVars, turn, cutoff, plan, mbase>>
    BY <1>17 DEF TrinoExpire
  <2> HIDE DEF gone, lost, doomed
  <2>2. snapshots' \in [Tables -> SUBSET Snapshot] /\ current' = current
    BY <1>1, <2>1, ExpireIs
  <2>3. storage' \in [Tables -> SUBSET File]
    BY <1>1, <2>1
  <2> QED  BY <2>1, <2>2, <2>3 DEF nightlyVars
<1>18. CASE FindOrphans
  <2>1. plan' \subseteq File
    BY <1>1, <1>18 DEF FindOrphans
  <2> QED  BY <1>18, <2>1 DEF FindOrphans, lakeVars, nightlyVars
<1>19. CASE DeleteOrphans
  <2>1. storage' \in [Tables -> SUBSET File]
    BY <1>1, <1>19 DEF DeleteOrphans
  <2>2. turn' \in DOMAIN TableOrder /\ maint' \in {"optimize", "idle"}
    BY <1>19, NextTurnIs DEF DeleteOrphans
  <2> QED  BY <1>19, <2>1, <2>2 DEF DeleteOrphans, nightlyVars
<1>20. CASE MaintenanceFails
  BY <1>20 DEF MaintenanceFails, lakeVars, nightlyVars
<1>21. CASE PassTime
  <2>1. now' \in Time
    BY <1>21, LakeAssumption DEF PassTime, Time
  <2> QED  BY <1>21, <2>1 DEF PassTime, nightlyVars, maintVars
<1>22. CASE UNCHANGED maintenanceVars
  BY <1>22 DEF maintenanceVars, lakeVars, nightlyVars, maintVars
<1> QED  BY <1>2, <1>3, <1>4, <1>5, <1>6, <1>7, <1>8, <1>9, <1>10, <1>11, <1>12, <1>13,
            <1>14, <1>15, <1>16, <1>17, <1>18, <1>19, <1>20, <1>21, <1>22
         DEF MaintenanceNext

(* The lake, the workflow and the maintenance keep their types: in         *)
(* particular the turn stays within the tables, and what a statement has   *)
(* planned is forgotten once it is over.                                   *)
THEOREM MaintenanceTypeCorrect == MaintenanceSpec => []MaintenanceTypeOK
BY MaintenanceTypeInit, MaintenanceTypeStep, PTL DEF MaintenanceSpec
-----------------------------------------------------------------------------
(* The inductive invariant: what a statement in progress has planned, and  *)
(* a file that was written and not yet committed, stay apart from what the *)
(* other actors do meanwhile.                                              *)

(* Ids are never used again, and current-snapshot-id names one snapshot.   *)
IdsAreFresh ==
  /\ \A t \in Tables : \A s \in snapshots[t] :
       s.id < nextFile /\ \A f \in s.files : f.id < nextFile
  /\ \A t \in Tables : \A s, u \in snapshots[t] : s.id = u.id => s = u
  /\ \A t \in Tables : current[t] # 0 => \E s \in snapshots[t] : s.id = current[t]
  /\ mbase < nextFile

(* A file that waits for its commit is young, and no snapshot has it.      *)
UploadIsNew ==
  /\ upload # {} => nightly = "Running" /\ task = "commit"
  /\ upload \subseteq storage[table]
  /\ \A f \in upload :
       /\ startedAt <= f.at /\ f.id < nextFile /\ f.id # mbase
       /\ \A t \in Tables : \A s \in snapshots[t] : s.id # f.id /\ f \notin s.files
       /\ maint = "optimize-commit" => \A g \in plan : f.id # g.id

(* What optimize is about to commit holds all of the snapshot it replaces. *)
OptimizePlan ==
  maint = "optimize-commit" =>
    /\ plan \subseteq storage[Turn]
    /\ \A g \in plan :
         /\ g.id < nextFile
         /\ \A t \in Tables : \A s \in snapshots[t] : s.id # g.id
         /\ mbase = current[Turn] =>
              \A f \in CurrentFiles(Turn) : f.holds \subseteq g.holds

ExpiryPlan ==
  maint = "expire-commit" =>
    /\ current[Turn] \notin plan
    /\ \A i \in plan : \E s \in snapshots[Turn] : s.id = i
    /\ \A s \in snapshots[Turn] : s.id \in plan => s.at < cutoff

OrphansPlan ==
  maint = "orphans-delete" =>
    \A f \in plan :
      /\ f.at < now - RetentionThreshold
      /\ \A s \in snapshots[Turn] : f \notin s.files

(* The nightly workflow has not outlived its deadline.                     *)
Times ==
  /\ startedAt <= now
  /\ nightly \in {"Pending", "Running"} => now <= startedAt + Deadline
  /\ maint # "idle" => cutoff <= now - RetentionThreshold
  /\ \A t \in Tables : lastAppend[t] <= now

(* The snapshots against the history of what was really appended.          *)
Appends ==
  \A t \in Tables :
    /\ \A s \in snapshots[t] :
         /\ s.op = "append" => s.at <= lastAppend[t]
         /\ s.id = current[t] => s.at >= lastAppend[t]
    /\ lastAppend[t] > 0 /\ now - lastAppend[t] <= RetentionThreshold =>
         \E s \in snapshots[t] : s.op = "append" /\ s.at = lastAppend[t]

ScanIsPinned ==
  task = "read" /\ nightly \in {"Pending", "Running"} =>
    \/ pinned = {}
    \/ now - lastAppend[table] > RetentionThreshold
    \/ \E s \in snapshots[table] : s.files = pinned /\ s.at >= lastAppend[table]

MInv ==
  /\ MaintenanceTypeOK
  /\ SnapshotsReadable /\ IdsAreFresh
  /\ UploadIsNew /\ ScanIsPinned
  /\ OptimizePlan /\ ExpiryPlan /\ OrphansPlan
  /\ Times /\ Appends

(* The numbers in the state are numbers. *)
LEMMA NumbersAre ==
  ASSUME MaintenanceTypeOK
  PROVE  /\ now \in Nat /\ startedAt \in Nat /\ nextFile \in Nat /\ mbase \in Nat
         /\ cutoff \in Int /\ RetentionThreshold \in Nat /\ Deadline \in Nat
         /\ MaxAge \in Nat /\ Deadline <= RetentionThreshold /\ MaxAge <= RetentionThreshold
         /\ \A t \in Tables : lastAppend[t] \in Nat /\ current[t] \in Nat
         /\ \A t \in Tables : \A s \in snapshots[t] :
              s.id \in Nat \ {0} /\ s.at \in Nat /\ s.op \in {"append", "replace"}
         /\ \A f \in upload : f.id \in Nat \ {0} /\ f.at \in Nat
         /\ Turn \in Tables /\ table \in Tables
<1>1. Id \subseteq Nat \ {0} /\ Time \subseteq Nat
  BY LakeAssumption DEF Id, Time
<1>2. \A t \in Tables : \A s \in snapshots[t] : s \in Snapshot
  BY DEF MaintenanceTypeOK, LakeTypeOK
<1>3. \A t \in Tables : \A s \in snapshots[t] :
        s.id \in Nat \ {0} /\ s.at \in Nat /\ s.op \in {"append", "replace"}
  BY <1>1, <1>2 DEF Snapshot
<1>4. \A f \in upload : f.id \in Nat \ {0} /\ f.at \in Nat
  BY <1>1 DEF MaintenanceTypeOK, File
<1>5. Turn \in Tables /\ table \in Tables
  BY TurnIsTable DEF MaintenanceTypeOK, Turn
<1>6. now \in Nat /\ startedAt \in Nat /\ mbase \in Nat /\ cutoff \in Int
  BY <1>1 DEF MaintenanceTypeOK, LakeTypeOK
<1>7. nextFile \in Nat
  BY LakeAssumption DEF MaintenanceTypeOK, LakeTypeOK
<1>8. \A t \in Tables : lastAppend[t] \in Nat /\ current[t] \in Nat
  <2>1. {0} \cup Time \subseteq Nat /\ {0} \cup Id \subseteq Nat
    BY <1>1
  <2>2. lastAppend \in [Tables -> {0} \cup Time] /\ current \in [Tables -> {0} \cup Id]
    BY DEF MaintenanceTypeOK, LakeTypeOK
  <2>3. lastAppend \in [Tables -> Nat] /\ current \in [Tables -> Nat]
    BY <2>1, <2>2
  <2> QED  BY <2>3
<1> QED  BY <1>3, <1>4, <1>5, <1>6, <1>7, <1>8, MaintenanceAssumption

(* The current snapshot is the only one with its id. *)
LEMMA CurrentIs ==
  ASSUME IdsAreFresh, NEW t \in Tables, NEW s \in snapshots[t], s.id = current[t]
  PROVE  CurrentFiles(t) = s.files
<1>1. \A u \in snapshots[t] : u.id = current[t] => u = s
  BY DEF IdsAreFresh
<1>2. {u \in snapshots[t] : u.id = current[t]} = {s}
  BY <1>1
<1> QED  BY <1>2 DEF CurrentFiles

LEMMA MInvInit == MaintenanceInit => MInv
<1> SUFFICES ASSUME MaintenanceInit PROVE MInv
  OBVIOUS
<1>1. MaintenanceTypeOK
  BY MaintenanceTypeInit
<1> USE DEF MaintenanceInit, LakeInit
<1>2. \A t \in Tables : snapshots[t] = {} /\ current[t] = 0 /\ lastAppend[t] = 0
  OBVIOUS
<1>3. SnapshotsReadable /\ IdsAreFresh /\ Appends
  BY <1>2 DEF SnapshotsReadable, IdsAreFresh, Appends
<1>4. UploadIsNew /\ ScanIsPinned /\ OptimizePlan /\ ExpiryPlan /\ OrphansPlan
  BY DEF UploadIsNew, ScanIsPinned, OptimizePlan, ExpiryPlan, OrphansPlan
<1>5. Times
  BY <1>2 DEF Times
<1> QED  BY <1>1, <1>3, <1>4, <1>5 DEF MInv

(* Steps of the nightly workflow that leave the lake alone. *)
LEMMA NightlyKeeps ==
  ASSUME MInv, MaintenanceTypeOK',
         SubmitNightly \/ RunNightly \/ NoNewRows \/ PinSnapshot \/ ReadPinned
           \/ CheckFreshness \/ NightlyFails
  PROVE  MInv'
<1>0. /\ MaintenanceTypeOK /\ IdsAreFresh /\ UploadIsNew /\ ScanIsPinned
      /\ OptimizePlan /\ Times /\ Appends
  BY DEF MInv
<1>1. UNCHANGED <<lakeVars, maintVars>>
  BY DEF SubmitNightly, RunNightly, NoNewRows, PinSnapshot, ReadPinned, CheckFreshness,
         NightlyFails
<1>2. /\ SnapshotsReadable' /\ IdsAreFresh' /\ Appends'
      /\ OptimizePlan' /\ ExpiryPlan' /\ OrphansPlan'
  BY <1>1 DEF MInv, lakeVars, maintVars, SnapshotsReadable, IdsAreFresh, Appends,
              OptimizePlan, ExpiryPlan, OrphansPlan, Turn, CurrentFiles
<1>3. ASSUME SubmitNightly \/ NightlyFails PROVE UploadIsNew' /\ ScanIsPinned' /\ Times'
  <2>1. UploadIsNew' /\ upload' = {}
    BY <1>1, <1>3 DEF SubmitNightly, NightlyFails, UploadIsNew, lakeVars
  <2>2. ScanIsPinned'
    BY <1>3 DEF SubmitNightly, NightlyFails, ScanIsPinned
  <2>3. Times'
    <3>1. /\ now' = now /\ lastAppend' = lastAppend /\ maint' = maint /\ cutoff' = cutoff
          /\ startedAt' = now \/ (startedAt' = startedAt /\ nightly' = "Failed")
      BY <1>1, <1>3 DEF SubmitNightly, NightlyFails, lakeVars, maintVars
    <3>2. now <= now /\ now <= now + Deadline
      BY <1>0, NumbersAre
    <3> QED  BY <1>0, <3>1, <3>2 DEF Times
  <2> QED  BY <2>1, <2>2, <2>3
<1>4. ASSUME RunNightly \/ CheckFreshness PROVE UploadIsNew' /\ ScanIsPinned' /\ Times'
  <2>1. UploadIsNew' /\ upload' \subseteq upload
    <3>1. /\ upload' = upload /\ table' = table /\ task' = task /\ startedAt' = startedAt
          /\ nightly' = "Running" \/ task # "commit"
      BY <1>4 DEF RunNightly, CheckFreshness
    <3> QED  BY <1>0, <1>1, <3>1 DEF UploadIsNew, lakeVars, maintVars
  <2>2. ScanIsPinned'
    <3>1. CASE RunNightly
      <4>1. task' = task /\ pinned' = pinned /\ table' = table /\ nightly = "Pending"
        BY <3>1 DEF RunNightly
      <4> QED  BY <1>0, <1>1, <4>1 DEF ScanIsPinned, lakeVars
    <3>2. CASE CheckFreshness
      BY <3>2 DEF CheckFreshness, ScanIsPinned
    <3> QED  BY <1>4, <3>1, <3>2
  <2>3. Times'
    <3>1. /\ now' = now /\ lastAppend' = lastAppend /\ maint' = maint /\ cutoff' = cutoff
          /\ startedAt' = startedAt /\ nightly \in {"Pending", "Running"}
      BY <1>1, <1>4 DEF RunNightly, CheckFreshness, lakeVars, maintVars
    <3> QED  BY <1>0, <3>1 DEF Times
  <2> QED  BY <2>1, <2>2, <2>3
<1>5. ASSUME NoNewRows \/ PinSnapshot \/ ReadPinned
      PROVE  UploadIsNew' /\ ScanIsPinned' /\ Times'
  <2>1. /\ upload = {} /\ upload' = upload
        /\ nightly' \in {"Running", "Failed"} /\ nightly = "Running" /\ startedAt' = startedAt
    BY <1>0, <1>5 DEF NoNewRows, PinSnapshot, ReadPinned, UploadIsNew
  <2>2. UploadIsNew'
    BY <2>1 DEF UploadIsNew
  <2>3. ScanIsPinned'
    <3>1. CASE NoNewRows \/ ReadPinned
      BY <3>1 DEF NoNewRows, ReadPinned, After, ScanIsPinned
    <3>2. CASE PinSnapshot
      <4>1. PICK t \in todo : table' = t /\ pinned' = CurrentFiles(t)
        BY <3>2 DEF PinSnapshot
      <4>2. t \in Tables
        BY <1>0, <4>1 DEF MaintenanceTypeOK
      <4>3. CASE current[t] = 0
        <5>1. \A s \in snapshots[t] : s.id # 0
          BY <1>0, <4>2, NumbersAre
        <5>2. CurrentFiles(t) = {}
          BY <4>3, <5>1, CurrentFilesAre
        <5> QED  BY <4>1, <5>2 DEF ScanIsPinned
      <4>4. CASE current[t] # 0
        <5>1. PICK s \in snapshots[t] : s.id = current[t]
          BY <1>0, <4>2, <4>4 DEF IdsAreFresh
        <5>2. CurrentFiles(t) = s.files
          BY <1>0, <4>2, <5>1, CurrentIs
        <5>3. s.at >= lastAppend[t]
          BY <1>0, <4>2, <5>1 DEF Appends
        <5> QED  BY <1>1, <4>1, <5>1, <5>2, <5>3 DEF ScanIsPinned, lakeVars
      <4> QED  BY <4>3, <4>4
    <3> QED  BY <1>5, <3>1, <3>2
  <2>4. Times'
    <3>1. now' = now /\ lastAppend' = lastAppend /\ maint' = maint /\ cutoff' = cutoff
      BY <1>1 DEF lakeVars, maintVars
    <3> QED  BY <1>0, <2>1, <3>1 DEF Times
  <2> QED  BY <2>1, <2>2, <2>3, <2>4
<1>6. UploadIsNew' /\ ScanIsPinned' /\ Times'
  BY <1>3, <1>4, <1>5
<1> QED  BY <1>2, <1>6 DEF MInv

(* Steps of the maintenance that leave the lake alone. *)
LEMMA PlansKeep ==
  ASSUME MInv, MaintenanceTypeOK',
         StartMaintenance \/ PlanExpiry \/ CheckOverlap \/ FindOrphans \/ MaintenanceFails
  PROVE  MInv'
<1>0. /\ MaintenanceTypeOK /\ IdsAreFresh /\ UploadIsNew /\ OptimizePlan /\ Times
  BY DEF MInv
<1>1. UNCHANGED <<lakeVars, nightlyVars>>
  BY DEF StartMaintenance, PlanExpiry, CheckOverlap, FindOrphans, MaintenanceFails
<1>2. SnapshotsReadable' /\ ScanIsPinned' /\ Appends'
  BY <1>1 DEF MInv, lakeVars, nightlyVars, SnapshotsReadable, ScanIsPinned, Appends
<1>3. /\ mbase' = mbase \/ mbase' = 0
      /\ maint' \notin {"optimize-commit"}
      /\ PlanExpiry \/ maint' # "expire-commit"
      /\ FindOrphans \/ maint' # "orphans-delete"
  BY DEF StartMaintenance, PlanExpiry, CheckOverlap, FindOrphans, MaintenanceFails
<1>4. IdsAreFresh'
  <2>1. 0 < nextFile
    BY <1>0 DEF MaintenanceTypeOK, LakeTypeOK
  <2> QED  BY <1>0, <1>1, <1>3, <2>1 DEF IdsAreFresh, lakeVars
<1>5. UploadIsNew'
  <2>1. \A f \in upload : f.id # 0
    BY <1>0, NumbersAre
  <2> QED  BY <1>0, <1>1, <1>3, <2>1 DEF UploadIsNew, lakeVars, nightlyVars
<1>6. OptimizePlan'
  BY <1>3 DEF OptimizePlan
<1>7. ExpiryPlan'
  <2>1. CASE PlanExpiry
    <3>1. /\ plan' = {s.id : s \in Expirable(Turn, cutoff)} /\ turn' = turn /\ cutoff' = cutoff
      BY <2>1 DEF PlanExpiry
    <3>2. /\ current[Turn] \notin plan'
          /\ \A i \in plan' : \E s \in snapshots[Turn] : s.id = i
      BY <3>1 DEF Expirable
    <3>3. \A s \in snapshots[Turn] : s.id \in plan' => s.at < cutoff
      <4>1. \A s, u \in snapshots[Turn] : s.id = u.id => s = u
        BY <1>0, NumbersAre DEF IdsAreFresh
      <4> QED  BY <3>1, <4>1 DEF Expirable
    <3> QED  BY <1>1, <3>1, <3>2, <3>3 DEF ExpiryPlan, Turn, lakeVars
  <2>2. CASE maint' # "expire-commit"
    BY <2>2 DEF ExpiryPlan
  <2> QED  BY <1>3, <2>1, <2>2
<1>8. OrphansPlan'
  <2>1. CASE FindOrphans
    BY <1>1, <2>1 DEF FindOrphans, TrinoCutoff, Referenced, OrphansPlan, Turn, lakeVars
  <2>2. CASE maint' # "orphans-delete"
    BY <2>2 DEF OrphansPlan
  <2> QED  BY <1>3, <2>1, <2>2
<1>9. Times'
  <2>1. UNCHANGED <<now, startedAt, nightly, lastAppend>>
    BY <1>1 DEF lakeVars, nightlyVars
  <2>2. maint' # "idle" => cutoff' <= now - RetentionThreshold
    <3>1. CASE StartMaintenance
      BY <1>0, <3>1, NumbersAre DEF StartMaintenance
    <3>2. CASE PlanExpiry \/ CheckOverlap \/ FindOrphans \/ MaintenanceFails
      <4>1. cutoff' = cutoff /\ (maint' # "idle" => maint # "idle")
        BY <3>2 DEF PlanExpiry, CheckOverlap, FindOrphans, MaintenanceFails
      <4> QED  BY <1>0, <4>1 DEF Times
    <3> QED  BY <3>1, <3>2
  <2> QED  BY <1>0, <2>1, <2>2 DEF Times
<1> QED  BY <1>2, <1>4, <1>5, <1>6, <1>7, <1>8, <1>9 DEF MInv

(* A file is written, and no snapshot has it yet. *)
LEMMA LoadRowsKeeps == ASSUME MInv, MaintenanceTypeOK', LoadRows PROVE MInv'
<1>0. /\ MaintenanceTypeOK /\ LakeTypeOK /\ IdsAreFresh /\ UploadIsNew /\ ScanIsPinned
      /\ OptimizePlan /\ Times
  BY DEF MInv, MaintenanceTypeOK
<1> DEFINE new == NewFile({nextFile})
<1>1. PICK t \in todo : Upload(t, new) /\ upload' = {new} /\ table' = t
  BY DEF LoadRows
<1>2. /\ nightly = "Running" /\ task = "load" /\ task' = "commit"
      /\ UNCHANGED <<now, snapshots, current, lastAppend, nightly, startedAt, maintVars>>
  BY DEF LoadRows
<1>3. t \in Tables /\ nextFile \in Id
  BY <1>0, <1>1 DEF MaintenanceTypeOK, Upload, Id, LakeTypeOK
<1>4. /\ nextFile' = nextFile + 1 /\ new.id = nextFile /\ new.at = now
      /\ storage'[t] = storage[t] \cup {new}
      /\ \A u \in Tables \ {t} : storage'[u] = storage[u]
  BY <1>0, <1>1, <1>3, UploadIs
<1> HIDE DEF new
<1>5. \A u \in Tables : storage[u] \subseteq storage'[u]
  BY <1>4
<1>6. SnapshotsReadable'
  BY <1>2, <1>5 DEF MInv, SnapshotsReadable
<1>7. IdsAreFresh'
  <2>1. \A i : i \in Int /\ i < nextFile => i < nextFile'
    BY <1>0, <1>4, NumbersAre
  <2>2. \A u \in Tables : \A s \in snapshots[u] : s.id \in Int /\ \A f \in s.files : f.id \in Int
    <3>1. \A u \in Tables : \A s \in snapshots[u] : s.files \subseteq File
      BY <1>0, FilesAreFiles
    <3>2. \A f \in File : f.id \in Int
      BY DEF File, Id
    <3> QED  BY <1>0, <3>1, <3>2, NumbersAre
  <2>3. mbase \in Int
    BY <1>0, NumbersAre
  <2> QED  BY <1>0, <1>2, <2>1, <2>2, <2>3 DEF IdsAreFresh, maintVars
<1>8. UploadIsNew'
  <2>1. /\ startedAt <= new.at /\ new.id < nextFile' /\ new.id # mbase
        /\ \A u \in Tables : \A s \in snapshots[u] : s.id # new.id /\ new \notin s.files
    <3>1. mbase # nextFile /\ startedAt <= now /\ nextFile < nextFile + 1
      BY <1>0, NumbersAre DEF IdsAreFresh, Times
    <3>2. \A u \in Tables : \A s \in snapshots[u] : s.id # nextFile
      BY <1>0, NumbersAre DEF IdsAreFresh
    <3>3. \A u \in Tables : \A s \in snapshots[u] : \A f \in s.files : f.id # nextFile
      BY <1>0, NumbersAre DEF IdsAreFresh
    <3> QED  BY <1>4, <3>1, <3>2, <3>3
  <2>2. maint = "optimize-commit" => \A g \in plan : new.id # g.id
    BY <1>0, <1>4, NumbersAre DEF OptimizePlan
  <2>3. new \in storage'[t]
    BY <1>4
  <2> QED  BY <1>1, <1>2, <2>1, <2>2, <2>3 DEF UploadIsNew, maintVars
<1>9. ScanIsPinned'
  BY <1>2 DEF ScanIsPinned
<1>10. OptimizePlan'
  <2>1. Turn \in Tables /\ Turn' = Turn
    BY <1>0, <1>2, NumbersAre DEF Turn, maintVars
  <2>2. \A g \in plan : maint = "optimize-commit" => g.id < nextFile'
    <3>1. plan \subseteq File \/ maint # "optimize-commit"
      BY <1>0 DEF MaintenanceTypeOK, Planned
    <3>2. \A g \in File : g.id \in Int
      BY DEF File, Id
    <3> QED  BY <1>0, <1>4, <3>1, <3>2, NumbersAre DEF OptimizePlan
  <2>3. CurrentFiles(Turn)' = CurrentFiles(Turn)
    BY <1>2 DEF CurrentFiles, Turn, maintVars
  <2>4. UNCHANGED <<maint, plan, mbase, current, snapshots>>
    BY <1>2 DEF maintVars
  <2> QED  BY <1>0, <1>5, <2>1, <2>2, <2>3, <2>4 DEF OptimizePlan
<1>11. ExpiryPlan' /\ OrphansPlan' /\ Times' /\ Appends'
  BY <1>2 DEF MInv, ExpiryPlan, OrphansPlan, Times, Appends, Turn, maintVars
<1> QED  BY <1>6, <1>7, <1>8, <1>9, <1>10, <1>11 DEF MInv

(* The compacted file, or nothing to compact. *)
LEMMA OptimizeKeeps == ASSUME MInv, MaintenanceTypeOK', Optimize PROVE MInv'
<1>0. /\ MaintenanceTypeOK /\ LakeTypeOK /\ IdsAreFresh /\ UploadIsNew /\ Times
      /\ Turn \in Tables
  BY NumbersAre DEF MInv, MaintenanceTypeOK
<1> DEFINE holds == UNION {f.holds : f \in CurrentFiles(Turn)}
           new == NewFile(holds)
<1>1. UNCHANGED <<now, snapshots, current, lastAppend, nightlyVars, turn, cutoff>>
      /\ maint = "optimize"
  BY DEF Optimize
<1>2. Turn' = Turn /\ CurrentFiles(Turn)' = CurrentFiles(Turn)
  BY <1>1 DEF Turn, CurrentFiles
<1>3. ExpiryPlan' /\ OrphansPlan' /\ maint' # "idle"
  BY <1>1 DEF Optimize, ExpiryPlan, OrphansPlan
<1>4. Times' /\ Appends' /\ ScanIsPinned'
  <2>1. Times'
    BY <1>0, <1>1, <1>3 DEF Times, nightlyVars
  <2> QED  BY <1>1, <2>1 DEF MInv, Appends, ScanIsPinned, nightlyVars
<1>5. CASE Cardinality(CurrentFiles(Turn)) > 1
  <2>1. /\ Upload(Turn, new) /\ plan' = {new}
        /\ mbase' = current[Turn] /\ maint' = "optimize-commit"
    BY <1>5 DEF Optimize
  <2>2. holds \in SUBSET Id
    <3>1. \A f \in CurrentFiles(Turn) : f.holds \in SUBSET Id
      BY <1>0, FilesAreFiles DEF File
    <3> QED  BY <3>1
  <2>3. \A f \in CurrentFiles(Turn) : f.holds \subseteq holds
    OBVIOUS
  <2> HIDE DEF holds
  <2>4. /\ nextFile' = nextFile + 1 /\ new.id = nextFile /\ new.holds = holds
        /\ storage'[Turn] = storage[Turn] \cup {new}
        /\ \A u \in Tables \ {Turn} : storage'[u] = storage[u]
    BY <1>0, <2>1, <2>2, UploadIs
  <2> HIDE DEF new
  <2>5. \A u \in Tables : storage[u] \subseteq storage'[u]
    BY <2>4
  <2>6. SnapshotsReadable'
    BY <1>1, <2>5 DEF MInv, SnapshotsReadable
  <2>7. \A i : i \in Int /\ i < nextFile => i < nextFile' /\ i # new.id
    BY <1>0, <2>4, NumbersAre
  <2>8. \A u \in Tables : \A s \in snapshots[u] :
          s.id \in Int /\ s.id < nextFile /\ \A f \in s.files : f.id \in Int /\ f.id < nextFile
    <3>1. \A u \in Tables : \A s \in snapshots[u] : s.files \subseteq File
      BY <1>0, FilesAreFiles
    <3>2. \A f \in File : f.id \in Int
      BY DEF File, Id
    <3> QED  BY <1>0, <3>1, <3>2, NumbersAre DEF IdsAreFresh
  <2>9. current[Turn] \in Int /\ current[Turn] < nextFile
    <3>1. current[Turn] \in Nat /\ nextFile \in Nat /\ nextFile > 0
      BY <1>0, NumbersAre DEF LakeTypeOK
    <3> QED  BY <1>0, <2>8, <3>1 DEF IdsAreFresh
  <2>10. IdsAreFresh'
    <3>1. mbase' < nextFile'
      BY <2>1, <2>7, <2>9
    <3>2. \A u \in Tables : \A s \in snapshots[u] :
            s.id < nextFile' /\ \A f \in s.files : f.id < nextFile'
      BY <2>7, <2>8
    <3> QED  BY <1>0, <1>1, <3>1, <3>2 DEF IdsAreFresh
  <2>11. UploadIsNew'
    <3>1. \A f \in upload : f.id \in Int /\ f.id < nextFile /\ f.id # 0
      BY <1>0, NumbersAre DEF UploadIsNew
    <3>2. \A f \in upload : f.id < nextFile' /\ f.id # new.id
      BY <2>7, <3>1
    <3>3. \A f \in upload : f.id # current[Turn]
      BY <1>0, <3>1 DEF UploadIsNew, IdsAreFresh
    <3>4. upload \subseteq storage'[table]
      BY <1>0, <2>5, NumbersAre DEF UploadIsNew
    <3> QED  BY <1>0, <1>1, <2>1, <3>2, <3>3, <3>4 DEF UploadIsNew, nightlyVars
  <2>12. OptimizePlan'
    <3>1. new \in storage'[Turn] /\ new.id < nextFile'
      BY <1>0, <2>4, NumbersAre
    <3>2. \A u \in Tables : \A s \in snapshots[u] : s.id # new.id
      BY <2>7, <2>8
    <3> QED  BY <1>1, <1>2, <2>1, <2>3, <2>4, <3>1, <3>2 DEF OptimizePlan
  <2> QED  BY <1>3, <1>4, <2>6, <2>10, <2>11, <2>12 DEF MInv
<1>6. CASE ~(Cardinality(CurrentFiles(Turn)) > 1)
  <2>1. maint' = "trino-expire" /\ UNCHANGED <<storage, nextFile, plan, mbase>>
    BY <1>6 DEF Optimize
  <2>2. SnapshotsReadable' /\ IdsAreFresh' /\ UploadIsNew' /\ OptimizePlan'
    BY <1>1, <2>1 DEF MInv, SnapshotsReadable, IdsAreFresh, UploadIsNew, OptimizePlan,
                      nightlyVars
  <2> QED  BY <1>3, <1>4, <2>2 DEF MInv
<1> QED  BY <1>5, <1>6

(* A snapshot s with a new id becomes the current one of table t.          *)
LEMMA NewCurrent ==
  ASSUME MInv, NEW t \in Tables, NEW s \in Snapshot,
         s.at = now, s.id < nextFile, \A f \in s.files : f.id < nextFile,
         \A u \in Tables : \A r \in snapshots[u] : r.id # s.id,
         s.files \subseteq storage[t],
         snapshots'[t] = snapshots[t] \cup {s}, current'[t] = s.id,
         \A u \in Tables \ {t} : snapshots'[u] = snapshots[u] /\ current'[u] = current[u],
         UNCHANGED <<now, storage, nextFile>>,
         mbase' = mbase \/ mbase' = 0,
         \A u \in Tables \ {t} : lastAppend'[u] = lastAppend[u],
         \/ s.op = "append" /\ lastAppend'[t] = now
         \/ s.op = "replace" /\ lastAppend'[t] = lastAppend[t]
  PROVE  /\ SnapshotsReadable' /\ IdsAreFresh' /\ Appends'
         /\ \A u \in Tables : lastAppend'[u] <= now
         /\ CurrentFiles(t)' = s.files
<1>0. /\ MaintenanceTypeOK /\ LakeTypeOK /\ SnapshotsReadable /\ IdsAreFresh /\ Times
      /\ Appends
  BY DEF MInv, MaintenanceTypeOK
<1>1. SnapshotsReadable'
  BY <1>0 DEF SnapshotsReadable
<1>2. IdsAreFresh'
  <2>1. 0 < nextFile
    BY <1>0 DEF LakeTypeOK
  <2>2. \A u \in Tables : \A r \in snapshots'[u] :
          r.id < nextFile /\ \A f \in r.files : f.id < nextFile
    BY <1>0 DEF IdsAreFresh
  <2>3. \A u \in Tables : \A r, q \in snapshots'[u] : r.id = q.id => r = q
    BY <1>0 DEF IdsAreFresh
  <2>4. \A u \in Tables : current'[u] # 0 => \E r \in snapshots'[u] : r.id = current'[u]
    BY <1>0 DEF IdsAreFresh
  <2> QED  BY <1>0, <2>1, <2>2, <2>3, <2>4 DEF IdsAreFresh
<1>3. \A u \in Tables : lastAppend[u] <= now /\ lastAppend'[u] <= now
                        /\ lastAppend[u] <= lastAppend'[u]
  BY <1>0, NumbersAre DEF Times
<1>4. Appends'
  <2>1. ASSUME NEW u \in Tables, u # t
        PROVE  /\ \A r \in snapshots'[u] :
                    /\ r.op = "append" => r.at <= lastAppend'[u]
                    /\ r.id = current'[u] => r.at >= lastAppend'[u]
               /\ lastAppend'[u] > 0 /\ now - lastAppend'[u] <= RetentionThreshold =>
                    \E r \in snapshots'[u] : r.op = "append" /\ r.at = lastAppend'[u]
    BY <1>0, <2>1 DEF Appends
  <2>2. \A r \in snapshots'[t] :
          /\ r.op = "append" => r.at <= lastAppend'[t]
          /\ r.id = current'[t] => r.at >= lastAppend'[t]
    <3>1. \A r \in snapshots[t] : r.op = "append" => r.at <= lastAppend'[t]
      <4>1. \A r \in snapshots[t] : r.op = "append" => r.at <= lastAppend[t]
        BY <1>0 DEF Appends
      <4>2. lastAppend'[t] \in Nat /\ lastAppend[t] \in Nat
            /\ \A r \in snapshots[t] : r.at \in Nat
        BY <1>0, NumbersAre
      <4> QED  BY <1>3, <4>1, <4>2
    <3>2. s.op = "append" => s.at <= lastAppend'[t]
      BY <1>0, NumbersAre
    <3>3. s.at >= lastAppend'[t]
      BY <1>3, <1>0, NumbersAre
    <3> QED  BY <3>1, <3>2, <3>3
  <2>3. lastAppend'[t] > 0 /\ now - lastAppend'[t] <= RetentionThreshold =>
          \E r \in snapshots'[t] : r.op = "append" /\ r.at = lastAppend'[t]
    <3>1. CASE s.op = "append" /\ lastAppend'[t] = now
      BY <3>1
    <3>2. CASE lastAppend'[t] = lastAppend[t]
      BY <1>0, <3>2 DEF Appends
    <3> QED  BY <3>1, <3>2
  <2> QED  BY <2>1, <2>2, <2>3 DEF Appends
<1>5. CurrentFiles(t)' = s.files
  <2>1. {u \in snapshots'[t] : u.id = current'[t]} = {s}
    OBVIOUS
  <2> QED  BY <2>1 DEF CurrentFiles
<1> QED  BY <1>1, <1>2, <1>3, <1>4, <1>5

(* The upsert commits while maintenance may be between plan and commit.    *)
LEMMA CommitRowsKeeps == ASSUME MInv, MaintenanceTypeOK', CommitRows PROVE MInv'
<1>0. /\ MaintenanceTypeOK /\ LakeTypeOK /\ SnapshotsReadable /\ IdsAreFresh /\ UploadIsNew
      /\ OptimizePlan /\ ExpiryPlan /\ OrphansPlan /\ Times /\ Turn \in Tables
  BY NumbersAre DEF MInv, MaintenanceTypeOK
<1>1. /\ upload' = {} /\ nightly = "Running" /\ task = "commit"
      /\ UNCHANGED <<now, storage, nextFile, table, pinned, startedAt, maintVars>>
  BY DEF CommitRows
<1>2. UploadIsNew'
  BY <1>1 DEF UploadIsNew
<1>3. PICK t \in Tables : t = table
  BY <1>0, NumbersAre
<1>4. CASE base = current[table]
  <2>1. PICK f \in upload : Commits(t, "append", f.id, CurrentFiles(t) \cup upload)
    BY <1>3, <1>4 DEF CommitRows
  <2>2. /\ lastAppend' = [lastAppend EXCEPT ![t] = now] /\ nightly' = nightly
        /\ task' \in {"load", "scan"}
    BY <1>3, <1>4 DEF CommitRows, After
  <2>3. f.id \in Id /\ CurrentFiles(t) \cup upload \in SUBSET File
    BY <1>0, FilesAreFiles DEF MaintenanceTypeOK, File
  <2>4. PICK s \in Snapshot :
          /\ s.id = f.id /\ s.op = "append" /\ s.at = now
          /\ s.files = CurrentFiles(t) \cup upload
          /\ snapshots'[t] = snapshots[t] \cup {s}
          /\ current'[t] = f.id
          /\ \A u \in Tables \ {t} : snapshots'[u] = snapshots[u] /\ current'[u] = current[u]
    BY <1>0, <2>1, <2>3, CommitsIs
  <2>5. \A g \in upload :
          /\ g.id < nextFile /\ g.id # mbase /\ startedAt <= g.at /\ g \in storage[t]
          /\ \A u \in Tables : \A r \in snapshots[u] : r.id # g.id
          /\ maint = "optimize-commit" => \A h \in plan : g.id # h.id
    BY <1>0, <1>3 DEF UploadIsNew
  <2>6. \A g \in CurrentFiles(t) : \E r \in snapshots[t] : g \in r.files
    BY CurrentFilesAre
  <2>7. \A g \in s.files : g.id < nextFile /\ g \in storage[t]
    BY <1>0, <2>4, <2>5, <2>6 DEF IdsAreFresh, SnapshotsReadable
  <2>8. /\ lastAppend'[t] = now /\ \A u \in Tables \ {t} : lastAppend'[u] = lastAppend[u]
        /\ mbase' = mbase
    BY <1>0, <1>1, <2>2 DEF LakeTypeOK, maintVars
  <2>9. /\ SnapshotsReadable' /\ IdsAreFresh' /\ Appends'
        /\ \A u \in Tables : lastAppend'[u] <= now
    BY <1>1, <2>4, <2>5, <2>7, <2>8, NewCurrent
  <2>10. Times'
    <3>1. UNCHANGED <<now, startedAt, nightly, maint, cutoff>>
      BY <1>1, <2>2 DEF maintVars
    <3> QED  BY <1>0, <2>9, <3>1 DEF Times
  <2>11. ScanIsPinned'
    BY <2>2 DEF ScanIsPinned
  <2>12. UNCHANGED <<maint, turn, plan, mbase, cutoff>> /\ Turn' = Turn
    BY <1>1 DEF maintVars, Turn
  <2>13. OptimizePlan'
    <3>1. Turn # t => CurrentFiles(Turn)' = CurrentFiles(Turn)
      BY <1>0, <2>4, <2>12 DEF CurrentFiles
    <3>2. Turn = t => current'[Turn] # mbase
      BY <2>4, <2>5
    <3>3. maint = "optimize-commit" =>
            \A g \in plan : \A u \in Tables : \A r \in snapshots'[u] : r.id # g.id
      BY <1>0, <2>4, <2>5 DEF OptimizePlan
    <3>4. \A g : g \in CurrentFiles(Turn)' => g \in CurrentFiles(Turn) \/ Turn = t
      BY <3>1
    <3> QED  BY <1>0, <1>1, <2>4, <2>12, <3>2, <3>3, <3>4 DEF OptimizePlan
  <2>14. ExpiryPlan'
    <3>1. CASE Turn = t /\ maint = "expire-commit"
      <4>1. f.id \notin plan
        BY <1>0, <2>5, <3>1 DEF ExpiryPlan
      <4> QED  BY <1>0, <2>4, <2>12, <3>1, <4>1 DEF ExpiryPlan
    <3>2. CASE Turn # t \/ maint # "expire-commit"
      BY <1>0, <2>4, <2>12, <3>2 DEF ExpiryPlan
    <3> QED  BY <3>1, <3>2
  <2>15. OrphansPlan'
    <3>1. CASE Turn = t /\ maint = "orphans-delete"
      <4>1. \A g \in upload : g \notin plan
        <5>1. ASSUME NEW g \in upload, g \in plan PROVE FALSE
          <6>1. g.at < now - RetentionThreshold
            BY <1>0, <3>1, <5>1 DEF OrphansPlan
          <6>2. now <= startedAt + Deadline /\ startedAt <= g.at
            BY <1>0, <1>1, <2>5 DEF Times
          <6> QED  BY <1>0, <6>1, <6>2, NumbersAre
        <5> QED  BY <5>1
      <4>2. \A g \in CurrentFiles(t) : g \notin plan
        BY <1>0, <2>6, <3>1 DEF OrphansPlan
      <4> QED  BY <1>0, <1>1, <2>4, <2>12, <3>1, <4>1, <4>2 DEF OrphansPlan
    <3>2. CASE Turn # t \/ maint # "orphans-delete"
      BY <1>0, <1>1, <2>4, <2>12, <3>2 DEF OrphansPlan
    <3> QED  BY <3>1, <3>2
  <2> QED  BY <1>2, <2>9, <2>10, <2>11, <2>13, <2>14, <2>15 DEF MInv
<1>5. CASE base # current[table]
  <2>1. nightly' = "Failed" /\ UNCHANGED <<snapshots, current, lastAppend, task>>
    BY <1>5 DEF CommitRows
  <2>2. /\ SnapshotsReadable' /\ IdsAreFresh' /\ Appends'
        /\ OptimizePlan' /\ ExpiryPlan' /\ OrphansPlan'
    BY <1>1, <2>1 DEF MInv, maintVars, SnapshotsReadable, IdsAreFresh, Appends,
                      OptimizePlan, ExpiryPlan, OrphansPlan, Turn, CurrentFiles
  <2>3. Times' /\ ScanIsPinned'
    BY <1>0, <1>1, <2>1 DEF Times, ScanIsPinned, maintVars
  <2> QED  BY <1>2, <2>2, <2>3 DEF MInv
<1> QED  BY <1>4, <1>5

(* The compare-and-swap of optimize. *)
LEMMA CommitOptimizeKeeps == ASSUME MInv, MaintenanceTypeOK', CommitOptimize PROVE MInv'
<1>0. /\ MaintenanceTypeOK /\ LakeTypeOK /\ SnapshotsReadable /\ IdsAreFresh /\ UploadIsNew
      /\ OptimizePlan /\ Times /\ ScanIsPinned /\ Turn \in Tables
  BY NumbersAre DEF MInv, MaintenanceTypeOK
<1>1. /\ maint = "optimize-commit" /\ maint' \in {"trino-expire", "idle"}
      /\ plan' = {} /\ mbase' = 0
      /\ UNCHANGED <<now, storage, nextFile, lastAppend, nightlyVars, turn, cutoff>>
  BY DEF CommitOptimize
<1>2. OptimizePlan' /\ ExpiryPlan' /\ OrphansPlan'
  BY <1>1 DEF OptimizePlan, ExpiryPlan, OrphansPlan
<1>3. Times'
  BY <1>0, <1>1 DEF Times, nightlyVars
<1>4. CASE mbase = current[Turn]
  <2>0. PICK t \in Tables : t = Turn
    BY <1>0
  <2>1. PICK f \in plan : Commits(t, "replace", f.id, plan)
    BY <1>4, <2>0 DEF CommitOptimize
  <2>2. f.id \in Id /\ plan \in SUBSET File
    BY <1>0, <1>1 DEF MaintenanceTypeOK, File, Planned
  <2>3. PICK s \in Snapshot :
          /\ s.id = f.id /\ s.op = "replace" /\ s.at = now /\ s.files = plan
          /\ snapshots'[t] = snapshots[t] \cup {s}
          /\ current'[t] = f.id
          /\ \A u \in Tables \ {t} : snapshots'[u] = snapshots[u] /\ current'[u] = current[u]
    BY <1>0, <2>1, <2>2, CommitsIs
  <2>4. \A g \in plan :
          /\ g.id < nextFile /\ g \in storage[t]
          /\ \A u \in Tables : \A r \in snapshots[u] : r.id # g.id
    BY <1>0, <1>1, <2>0 DEF OptimizePlan
  <2>5. SnapshotsReadable' /\ IdsAreFresh' /\ Appends'
    BY <1>1, <2>3, <2>4, NewCurrent
  <2>6. UploadIsNew'
    <3>1. \A g \in upload : g.id # 0 /\ g.id # f.id /\ g \notin plan
      BY <1>0, <1>1, NumbersAre DEF UploadIsNew
    <3> QED  BY <1>0, <1>1, <2>3, <3>1 DEF UploadIsNew, nightlyVars
  <2>7. ScanIsPinned'
    <3>1. \A u \in Tables : snapshots[u] \subseteq snapshots'[u]
      BY <2>3
    <3> QED  BY <1>0, <1>1, <3>1, NumbersAre DEF ScanIsPinned, nightlyVars
  <2> QED  BY <1>2, <1>3, <2>5, <2>6, <2>7 DEF MInv
<1>5. CASE mbase # current[Turn]
  <2>1. UNCHANGED <<snapshots, current>>
    BY <1>5 DEF CommitOptimize
  <2>2. SnapshotsReadable' /\ Appends' /\ ScanIsPinned'
    BY <1>1, <2>1 DEF MInv, SnapshotsReadable, Appends, ScanIsPinned, nightlyVars
  <2>3. IdsAreFresh'
    <3>1. 0 < nextFile
      BY <1>0 DEF LakeTypeOK
    <3> QED  BY <1>0, <1>1, <2>1, <3>1 DEF IdsAreFresh
  <2>4. UploadIsNew'
    <3>1. \A g \in upload : g.id # 0
      BY <1>0, NumbersAre
    <3> QED  BY <1>0, <1>1, <2>1, <3>1 DEF UploadIsNew, nightlyVars
  <2> QED  BY <1>2, <1>3, <2>2, <2>3, <2>4 DEF MInv
<1> QED  BY <1>4, <1>5

(* Old snapshots of table t are expired, the current one excepted, and     *)
(* storage keeps the files of the others.                                  *)
LEMMA ExpiryKeeps ==
  ASSUME MInv, MaintenanceTypeOK', NEW t \in Tables, NEW doomed, Expire(t, doomed),
         current[t] \notin doomed,
         \A s \in snapshots[t] : s.id \in doomed => s.at < now - RetentionThreshold,
         UNCHANGED <<now, nextFile, lastAppend, nightlyVars, mbase, cutoff>>,
         \A u \in Tables : \A s \in snapshots'[u] : s.files \subseteq storage'[u],
         upload \subseteq storage'[table],
         maint # "idle", maint' \notin Planned
  PROVE  MInv'
<1>0. /\ MaintenanceTypeOK /\ LakeTypeOK /\ SnapshotsReadable /\ IdsAreFresh /\ UploadIsNew
      /\ Times /\ Appends /\ ScanIsPinned
  BY DEF MInv, MaintenanceTypeOK
<1>1. /\ current' = current
      /\ snapshots'[t] = {s \in snapshots[t] : s.id \notin doomed}
      /\ \A u \in Tables \ {t} : snapshots'[u] = snapshots[u]
  BY <1>0, ExpireIs
<1>2. \A u \in Tables : /\ snapshots'[u] \subseteq snapshots[u]
                        /\ \A s \in snapshots[u] :
                             s \in snapshots'[u] \/ s.at < now - RetentionThreshold
                        /\ \A s \in snapshots[u] : s.id = current[u] => s \in snapshots'[u]
  BY <1>1
<1>3. SnapshotsReadable' /\ OptimizePlan' /\ ExpiryPlan' /\ OrphansPlan'
  BY DEF SnapshotsReadable, OptimizePlan, ExpiryPlan, OrphansPlan, Planned
<1>4. IdsAreFresh'
  BY <1>0, <1>1, <1>2 DEF IdsAreFresh
<1>5. UploadIsNew'
  BY <1>0, <1>2 DEF UploadIsNew, nightlyVars, Planned
<1>6. Times'
  BY <1>0 DEF Times, nightlyVars
<1>7. \A u \in Tables : \A s \in snapshots[u] :
        s.at >= lastAppend[u] /\ now - lastAppend[u] <= RetentionThreshold => s \in snapshots'[u]
  <2>1. ASSUME NEW u \in Tables, NEW s \in snapshots[u],
               s.at >= lastAppend[u], now - lastAppend[u] <= RetentionThreshold
        PROVE  ~ (s.at < now - RetentionThreshold)
    BY <1>0, <2>1, NumbersAre
  <2> QED  BY <1>2, <2>1
<1>8. Appends'
  <2>1. \A u \in Tables : \A s \in snapshots[u] :
          s.at = lastAppend[u] => s.at >= lastAppend[u]
    BY <1>0, NumbersAre
  <2> QED  BY <1>0, <1>1, <1>2, <1>7, <2>1 DEF Appends
<1>9. ScanIsPinned'
  <2> SUFFICES ASSUME task = "read", nightly \in {"Pending", "Running"}, pinned # {},
                      ~ (now - lastAppend[table] > RetentionThreshold)
               PROVE  \E s \in snapshots'[table] : s.files = pinned /\ s.at >= lastAppend[table]
    BY DEF ScanIsPinned, nightlyVars
  <2>1. PICK s \in snapshots[table] : s.files = pinned /\ s.at >= lastAppend[table]
    BY <1>0 DEF ScanIsPinned
  <2>2. now - lastAppend[table] <= RetentionThreshold /\ table \in Tables
    BY <1>0, NumbersAre
  <2> QED  BY <1>7, <2>1, <2>2
<1> QED  BY <1>3, <1>4, <1>5, <1>6, <1>8, <1>9 DEF MInv

LEMMA CommitExpiryKeeps == ASSUME MInv, MaintenanceTypeOK', CommitExpiry PROVE MInv'
<1>0. /\ MaintenanceTypeOK /\ LakeTypeOK /\ SnapshotsReadable /\ UploadIsNew /\ ExpiryPlan
      /\ Times
  BY DEF MInv, MaintenanceTypeOK
<1>1. PICK t \in Tables : t = Turn
  BY <1>0, NumbersAre
<1>2. /\ maint = "expire-commit" /\ Expire(t, plan)
      /\ UNCHANGED <<now, storage, nextFile, lastAppend, nightlyVars, cutoff, mbase>>
      /\ maint' \in {"expire", "guard"}
  <2>1. maint' \in {"expire", "guard"}
    BY <1>0, NextTurnIs DEF CommitExpiry, MaintenanceTypeOK
  <2> QED  BY <1>1, <2>1 DEF CommitExpiry
<1>3. current[t] \notin plan
  BY <1>0, <1>1, <1>2 DEF ExpiryPlan
<1>4. \A s \in snapshots[t] : s.id \in plan => s.at < now - RetentionThreshold
  <2>1. \A s \in snapshots[t] : s.id \in plan => s.at < cutoff
    BY <1>0, <1>1, <1>2 DEF ExpiryPlan
  <2>2. cutoff <= now - RetentionThreshold
    BY <1>0, <1>2 DEF Times
  <2> QED  BY <1>0, <2>1, <2>2, NumbersAre
<1>5. \A u \in Tables : snapshots'[u] \subseteq snapshots[u]
  BY <1>0, <1>2, ExpireIs
<1>6. \A u \in Tables : \A s \in snapshots'[u] : s.files \subseteq storage'[u]
  BY <1>0, <1>2, <1>5 DEF SnapshotsReadable
<1>7. upload \subseteq storage'[table]
  BY <1>0, <1>2 DEF UploadIsNew
<1>8. maint' \notin Planned /\ maint # "idle"
  BY <1>2 DEF Planned
<1> QED  BY <1>2, <1>3, <1>4, <1>6, <1>7, <1>8, ExpiryKeeps

LEMMA TrinoExpireKeeps == ASSUME MInv, MaintenanceTypeOK', TrinoExpire PROVE MInv'
<1>0. /\ MaintenanceTypeOK /\ LakeTypeOK /\ SnapshotsReadable /\ IdsAreFresh /\ UploadIsNew
  BY DEF MInv, MaintenanceTypeOK
<1>1. PICK t \in Tables : t = Turn
  BY <1>0, NumbersAre
<1> DEFINE gone == Expirable(t, TrinoCutoff)
           lost == (UNION {s.files : s \in gone}) \ Referenced(t, gone)
           doomed == {s.id : s \in gone}
<1>2. PICK dropped \in {{}, lost} :
      /\ Expire(t, doomed) /\ storage' = [storage EXCEPT ![t] = @ \ dropped]
      /\ maint = "trino-expire" /\ maint' = "orphans"
      /\ UNCHANGED <<now, nextFile, lastAppend, nightlyVars, turn, cutoff, plan, mbase>>
  BY <1>1 DEF TrinoExpire
<1>3. /\ gone \subseteq snapshots[t]
      /\ \A s \in gone : s.id # current[t] /\ s.at < now - RetentionThreshold
  BY DEF Expirable, TrinoCutoff
<1>4. \A s \in snapshots[t] : s.id \in doomed => s \in gone
  <2>1. \A s, u \in snapshots[t] : s.id = u.id => s = u
    BY <1>0 DEF IdsAreFresh
  <2> QED  BY <1>3, <2>1
<1>5. /\ \A s \in snapshots[t] \ gone : s.files \cap dropped = {}
      /\ \A f \in dropped : \E s \in snapshots[t] : f \in s.files
  <2> HIDE DEF gone
  <2>1. \A f : f \in lost =>
          /\ \E s \in gone : f \in s.files
          /\ ~ \E s \in snapshots[t] \ gone : f \in s.files
    BY Zenon DEF Referenced
  <2> HIDE DEF lost
  <2>2. \A f : f \in dropped =>
          /\ \E s \in gone : f \in s.files
          /\ ~ \E s \in snapshots[t] \ gone : f \in s.files
    BY <2>1
  <2> QED  BY <1>3, <2>2
<1>6. current[t] \notin doomed
  BY <1>3
<1> HIDE DEF gone, lost, doomed
<1>7. storage'[t] = storage[t] \ dropped /\ \A u \in Tables \ {t} : storage'[u] = storage[u]
  BY <1>0, <1>2 DEF LakeTypeOK
<1>8. /\ snapshots'[t] = {s \in snapshots[t] : s.id \notin doomed}
      /\ \A u \in Tables \ {t} : snapshots'[u] = snapshots[u]
  BY <1>0, <1>2, ExpireIs
<1>9. \A s \in gone : s.id \in doomed
  BY DEF doomed
<1>10. \A u \in Tables : \A s \in snapshots'[u] : s.files \subseteq storage'[u]
  <2>1. \A s \in snapshots'[t] : s \in snapshots[t] \ gone
    BY <1>8, <1>9
  <2>2. \A s \in snapshots'[t] : s.files \subseteq storage'[t]
    BY <1>0, <1>5, <1>7, <2>1 DEF SnapshotsReadable
  <2>3. \A u \in Tables \ {t} : \A s \in snapshots'[u] : s.files \subseteq storage'[u]
    BY <1>0, <1>7, <1>8 DEF SnapshotsReadable
  <2> QED  BY <2>2, <2>3
<1>11. upload \subseteq storage'[table]
  <2>1. upload \cap dropped = {}
    BY <1>0, <1>5 DEF UploadIsNew
  <2>2. table \in Tables /\ upload \subseteq storage[table]
    BY <1>0, NumbersAre DEF UploadIsNew
  <2> QED  BY <1>7, <2>1, <2>2
<1>12. \A s \in snapshots[t] : s.id \in doomed => s.at < now - RetentionThreshold
  BY <1>3, <1>4
<1>13. maint' \notin Planned /\ maint # "idle"
  BY <1>2 DEF Planned
<1> QED  BY <1>2, <1>6, <1>10, <1>11, <1>12, <1>13, ExpiryKeeps

(* The orphans were unreferenced when they were found, and still are.      *)
LEMMA DeleteOrphansKeeps == ASSUME MInv, MaintenanceTypeOK', DeleteOrphans PROVE MInv'
<1>0. /\ MaintenanceTypeOK /\ LakeTypeOK /\ SnapshotsReadable /\ IdsAreFresh /\ UploadIsNew
      /\ OrphansPlan /\ Times
  BY DEF MInv, MaintenanceTypeOK
<1>1. PICK t \in Tables : t = Turn
  BY <1>0, NumbersAre
<1>2. /\ maint = "orphans-delete" /\ maint' \in {"optimize", "idle"}
      /\ storage' = [storage EXCEPT ![t] = @ \ plan]
      /\ UNCHANGED <<now, snapshots, current, nextFile, lastAppend, nightlyVars, cutoff, mbase>>
  <2>1. maint' \in {"optimize", "idle"}
    BY <1>0, NextTurnIs DEF DeleteOrphans, MaintenanceTypeOK
  <2> QED  BY <1>1, <2>1 DEF DeleteOrphans
<1>3. storage'[t] = storage[t] \ plan /\ \A u \in Tables \ {t} : storage'[u] = storage[u]
  BY <1>0, <1>2 DEF LakeTypeOK
<1>4. \A f \in plan : f.at < now - RetentionThreshold /\ \A s \in snapshots[t] : f \notin s.files
  BY <1>0, <1>1, <1>2 DEF OrphansPlan
<1>5. SnapshotsReadable'
  BY <1>0, <1>2, <1>3, <1>4 DEF SnapshotsReadable
<1>6. UploadIsNew'
  <2>1. \A f \in upload : f \notin plan
    <3>1. ASSUME NEW f \in upload, f \in plan PROVE FALSE
      <4>1. startedAt <= f.at /\ now <= startedAt + Deadline
        BY <1>0, <3>1 DEF UploadIsNew, Times
      <4> QED  BY <1>0, <1>4, <3>1, <4>1, NumbersAre
    <3> QED  BY <3>1
  <2>2. upload \subseteq storage'[table]
    BY <1>0, <1>3, <2>1, NumbersAre DEF UploadIsNew
  <2> QED  BY <1>0, <1>2, <2>2 DEF UploadIsNew, nightlyVars
<1>7. IdsAreFresh' /\ Appends' /\ ScanIsPinned'
  BY <1>2 DEF MInv, IdsAreFresh, Appends, ScanIsPinned, nightlyVars
<1>8. OptimizePlan' /\ ExpiryPlan' /\ OrphansPlan'
  BY <1>2 DEF OptimizePlan, ExpiryPlan, OrphansPlan
<1>9. Times'
  BY <1>0, <1>2 DEF Times, nightlyVars
<1> QED  BY <1>5, <1>6, <1>7, <1>8, <1>9 DEF MInv

LEMMA PassTimeKeeps == ASSUME MInv, MaintenanceTypeOK', PassTime PROVE MInv'
<1>0. /\ MaintenanceTypeOK /\ LakeTypeOK /\ Times /\ Appends /\ OrphansPlan /\ ScanIsPinned
      /\ table \in Tables
  BY NumbersAre DEF MInv, MaintenanceTypeOK
<1>1. /\ now' = now + 1
      /\ nightly \in {"Pending", "Running"} => now < startedAt + Deadline
      /\ UNCHANGED <<snapshots, current, storage, nextFile, lastAppend, nightlyVars, maintVars>>
  BY DEF PassTime
<1>2. SnapshotsReadable' /\ IdsAreFresh' /\ UploadIsNew' /\ OptimizePlan' /\ ExpiryPlan'
  BY <1>1 DEF MInv, nightlyVars, maintVars, SnapshotsReadable, IdsAreFresh, UploadIsNew,
              OptimizePlan, ExpiryPlan, Turn, CurrentFiles
<1>3. \A x \in Int : x <= now => x <= now'
  BY <1>0, <1>1, NumbersAre
<1>4. Times'
  <2>1. startedAt <= now' /\ \A t \in Tables : lastAppend[t] <= now'
    BY <1>0, <1>3, NumbersAre DEF Times
  <2>2. nightly \in {"Pending", "Running"} => now' <= startedAt + Deadline
    BY <1>0, <1>1, NumbersAre
  <2>3. maint # "idle" => cutoff <= now' - RetentionThreshold
    BY <1>0, <1>1, NumbersAre DEF Times
  <2> QED  BY <1>1, <2>1, <2>2, <2>3 DEF Times, nightlyVars, maintVars
<1>5. \A t \in Tables :
        now' - lastAppend[t] <= RetentionThreshold => now - lastAppend[t] <= RetentionThreshold
  BY <1>0, <1>1, NumbersAre
<1>6. Appends'
  BY <1>0, <1>1, <1>5 DEF Appends
<1>7. ScanIsPinned'
  <2>1. now - lastAppend[table] > RetentionThreshold => now' - lastAppend[table] > RetentionThreshold
    BY <1>0, <1>1, NumbersAre
  <2> QED  BY <1>0, <1>1, <2>1 DEF ScanIsPinned, nightlyVars
<1>8. OrphansPlan'
  <2>1. maint = "orphans-delete" => \A f \in plan : f.at < now' - RetentionThreshold
    <3>1. maint = "orphans-delete" => \A f \in plan : f.at \in Int /\ f.at < now - RetentionThreshold
      <4>1. \A f \in File : f.at \in Int
        BY DEF File, Time
      <4> QED  BY <1>0, <4>1 DEF OrphansPlan, MaintenanceTypeOK, Planned
    <3> QED  BY <1>0, <1>1, <3>1, NumbersAre
  <2> QED  BY <1>0, <1>1, <2>1 DEF OrphansPlan, Turn, maintVars
<1> QED  BY <1>2, <1>4, <1>6, <1>7, <1>8 DEF MInv

LEMMA MInvStep == MInv /\ [MaintenanceNext]_maintenanceVars => MInv'
<1> SUFFICES ASSUME MInv, [MaintenanceNext]_maintenanceVars PROVE MInv'
  OBVIOUS
<1>1. MaintenanceTypeOK'
  BY MaintenanceTypeStep DEF MInv
<1>2. CASE UNCHANGED maintenanceVars
  BY <1>1, <1>2 DEF maintenanceVars, lakeVars, nightlyVars, maintVars, MInv,
       SnapshotsReadable, IdsAreFresh, UploadIsNew, ScanIsPinned, OptimizePlan, ExpiryPlan,
       OrphansPlan, Times, Appends, Turn, CurrentFiles
<1> QED  BY <1>1, <1>2, NightlyKeeps, PlansKeep, LoadRowsKeeps, OptimizeKeeps,
            CommitRowsKeeps, CommitOptimizeKeeps, CommitExpiryKeeps, TrinoExpireKeeps,
            DeleteOrphansKeeps, PassTimeKeeps
         DEF MaintenanceNext

LEMMA MInvHolds == MaintenanceSpec => []MInv
BY MInvInit, MInvStep, PTL DEF MaintenanceSpec

-----------------------------------------------------------------------------
(* Every live snapshot keeps all its data files in storage, whatever       *)
(* maintenance deletes while a commit of the nightly writer is in flight.  *)
THEOREM SnapshotsStayReadable == MaintenanceSpec => []SnapshotsReadable
BY MInvHolds, PTL DEF MInv

LEMMA ScanSurvives == MInv => ScanOfActiveTableSurvives
<1> SUFFICES ASSUME MInv, task = "read", nightly = "Running", ~(pinned \subseteq storage[table])
             PROVE  now - lastAppend[table] > RetentionThreshold
  BY DEF ScanOfActiveTableSurvives
<1>1. ScanIsPinned /\ SnapshotsReadable /\ table \in Tables
  BY NumbersAre DEF MInv
<1>2. \A s \in snapshots[table] : s.files # pinned
  BY <1>1 DEF SnapshotsReadable
<1> QED  BY <1>1, <1>2 DEF ScanIsPinned

(* A presence scan that was overtaken by maintenance finds its files gone  *)
(* only on a table without new data for longer than the threshold.         *)
THEOREM ScanOfActiveTableHolds == MaintenanceSpec => []ScanOfActiveTableSurvives
BY MInvHolds, ScanSurvives, PTL

(* What a reader of the current snapshot finds. *)
LEMMA ReadableIs ==
  ASSUME NEW t, CurrentFiles(t) \subseteq storage[t]
  PROVE  \A b : b \in Readable(t) <=> \E f \in CurrentFiles(t) : b \in f.holds
BY DEF Readable

LEMMA CurrentIsStored ==
  ASSUME SnapshotsReadable, NEW t \in Tables
  PROVE  CurrentFiles(t) \subseteq storage[t]
BY CurrentFilesAre DEF SnapshotsReadable

(* The rows that are readable after a step in the files before it.         *)
LEMMA BatchesKept ==
  ASSUME SnapshotsReadable, SnapshotsReadable', NEW t \in Tables,
         \A f \in CurrentFiles(t) : \E g \in CurrentFiles(t)' : f.holds \subseteq g.holds
  PROVE  Readable(t) \subseteq Readable(t)'
<1>1. \A b : b \in Readable(t) <=> \E f \in CurrentFiles(t) : b \in f.holds
  BY CurrentIsStored, ReadableIs
<1>2. CurrentFiles(t)' \subseteq storage'[t]
  BY DEF CurrentFiles, SnapshotsReadable
<1>3. \A b : b \in Readable(t)' <=> \E f \in CurrentFiles(t)' : b \in f.holds
  BY <1>2 DEF Readable
<1> QED  BY <1>1, <1>3

LEMMA NoBatchLostStep ==
  ASSUME MInv, MInv', [MaintenanceNext]_maintenanceVars, NEW t \in Tables
  PROVE  Readable(t) \subseteq Readable(t)'
<1>0. /\ MaintenanceTypeOK /\ LakeTypeOK /\ SnapshotsReadable /\ IdsAreFresh
      /\ OptimizePlan /\ ExpiryPlan /\ UploadIsNew /\ SnapshotsReadable' /\ IdsAreFresh'
  BY DEF MInv, MaintenanceTypeOK
<1>1. SUFFICES \A f \in CurrentFiles(t) : \E g \in CurrentFiles(t)' : f.holds \subseteq g.holds
  BY <1>0, BatchesKept
<1>2. ASSUME UNCHANGED <<snapshots, current>>
      PROVE  \A f \in CurrentFiles(t) : f \in CurrentFiles(t)'
  BY <1>2 DEF CurrentFiles
<1>3. ASSUME current' = current,
             \A s \in snapshots[t] : s.id = current[t] => s \in snapshots'[t]
      PROVE  \A f \in CurrentFiles(t) : f \in CurrentFiles(t)'
  BY <1>3 DEF CurrentFiles
<1>4. CASE CommitRows
  <2>1. CASE base = current[table]
    <3>1. PICK f \in upload : Commits(table, "append", f.id, CurrentFiles(table) \cup upload)
      BY <1>4, <2>1 DEF CommitRows
    <3>2. PICK u \in Tables : u = table
      BY <1>0, NumbersAre
    <3> DEFINE files == CurrentFiles(u) \cup upload
    <3>3. files \in SUBSET File /\ f.id \in Id
      BY <1>0, <3>1, FilesAreFiles DEF File, MaintenanceTypeOK
    <3>4. Commits(u, "append", f.id, files)
      BY <3>1, <3>2
    <3>5. CurrentFiles(u) \subseteq files
      OBVIOUS
    <3> HIDE DEF files
    <3>6. /\ current'[u] = f.id
          /\ \A v \in Tables \ {u} : current'[v] = current[v] /\ snapshots'[v] = snapshots[v]
          /\ \E s \in snapshots'[u] : s.id = f.id /\ s.files = files
      BY <1>0, <3>3, <3>4, CommitsIs
    <3>7. \A g \in files : g \in CurrentFiles(u)'
      BY <3>6 DEF CurrentFiles
    <3>8. \A v \in Tables \ {u} : CurrentFiles(v)' = CurrentFiles(v)
      BY <3>6 DEF CurrentFiles
    <3> QED  BY <3>5, <3>7, <3>8
  <2>2. CASE base # current[table]
    BY <1>2, <1>4, <2>2 DEF CommitRows
  <2> QED  BY <2>1, <2>2
<1>5. CASE CommitOptimize
  <2>1. CASE mbase = current[Turn]
    <3>1. PICK u \in Tables : u = Turn
      BY <1>0, NumbersAre
    <3>2. PICK f \in plan : Commits(u, "replace", f.id, plan)
      BY <1>5, <2>1, <3>1 DEF CommitOptimize
    <3>3. plan \in SUBSET File /\ f.id \in Id
      BY <1>0, <1>5, <3>2 DEF CommitOptimize, File, MaintenanceTypeOK, Planned
    <3>4. \A g \in CurrentFiles(u) : g.holds \subseteq f.holds
      BY <1>0, <1>5, <2>1, <3>1, <3>2 DEF OptimizePlan, CommitOptimize
    <3>5. /\ current'[u] = f.id
          /\ \A v \in Tables \ {u} : current'[v] = current[v] /\ snapshots'[v] = snapshots[v]
          /\ \E s \in snapshots'[u] : s.id = f.id /\ s.files = plan
      BY <1>0, <3>2, <3>3, CommitsIs
    <3>6. f \in CurrentFiles(u)'
      BY <3>2, <3>5 DEF CurrentFiles
    <3>7. \A v \in Tables \ {u} : CurrentFiles(v)' = CurrentFiles(v)
      BY <3>5 DEF CurrentFiles
    <3> QED  BY <3>4, <3>6, <3>7
  <2>2. CASE mbase # current[Turn]
    BY <1>2, <1>5, <2>2 DEF CommitOptimize
  <2> QED  BY <2>1, <2>2
<1>6. CASE CommitExpiry
  <2>1. PICK u \in Tables : u = Turn
    BY <1>0, NumbersAre
  <2>2. Expire(u, plan) /\ current[u] \notin plan
    BY <1>0, <1>6, <2>1 DEF CommitExpiry, ExpiryPlan
  <2>3. \A s \in snapshots[t] : s.id = current[t] => s \in snapshots'[t]
    BY <1>0, <2>2, ExpireIs
  <2> QED  BY <1>0, <1>3, <2>2, <2>3, ExpireIs
<1>7. CASE TrinoExpire
  <2>1. PICK u \in Tables : u = Turn
    BY <1>0, NumbersAre
  <2> DEFINE doomed == {s.id : s \in Expirable(u, TrinoCutoff)}
  <2>2. Expire(u, doomed)
    BY <1>7, <2>1 DEF TrinoExpire
  <2>3. current[u] \notin doomed
    BY DEF Expirable
  <2> HIDE DEF doomed
  <2>4. \A s \in snapshots[t] : s.id = current[t] => s \in snapshots'[t]
    BY <1>0, <2>2, <2>3, ExpireIs
  <2> QED  BY <1>0, <1>3, <2>2, <2>4, ExpireIs
<1>8. ASSUME ~(CommitRows \/ CommitOptimize \/ CommitExpiry \/ TrinoExpire)
      PROVE  UNCHANGED <<snapshots, current>>
  BY <1>8 DEF MaintenanceNext, SubmitNightly, RunNightly, LoadRows, NoNewRows, PinSnapshot,
       ReadPinned, CheckFreshness, NightlyFails, StartMaintenance, PlanExpiry, CheckOverlap,
       Optimize, FindOrphans, DeleteOrphans, MaintenanceFails, PassTime, maintenanceVars,
       lakeVars
<1> QED  BY <1>2, <1>4, <1>5, <1>6, <1>7, <1>8

(* No step loses a batch that a reader of the current snapshot could see:  *)
(* not compaction, not expiry, not orphan removal, nor any race of these   *)
(* with the nightly writer.                                                *)
THEOREM NoBatchIsLost == MaintenanceSpec => NoBatchLost
<1>1. MInv /\ MInv' /\ [MaintenanceNext]_maintenanceVars
        => [\A t \in Tables : Readable(t) \subseteq Readable(t)']_maintenanceVars
  BY NoBatchLostStep
<1> QED  BY <1>1, MInvHolds, PTL DEF MaintenanceSpec, NoBatchLost

LEMMA StaleIs ==
  ASSUME MInv, NEW t \in Tables
  PROVE  ~IsStale(t) <=> lastAppend[t] > 0 /\ now - lastAppend[t] <= MaxAge
<1>0. /\ MaintenanceTypeOK /\ Appends /\ Times /\ lastAppend[t] \in Nat
      /\ \A s \in snapshots[t] : s.at \in Nat /\ s.at > 0 /\ s.op \in {"append", "replace"}
  <2>1. \A s \in snapshots[t] : s \in Snapshot
    BY DEF MInv, MaintenanceTypeOK, LakeTypeOK
  <2>2. \A s \in snapshots[t] : s.at \in Nat /\ s.at > 0
    BY <2>1 DEF Snapshot, Time
  <2> QED  BY <2>2, NumbersAre DEF MInv
<1>1. \A s \in snapshots[t] : s \in DataSnapshots(t) <=> s.op = "append"
  BY <1>0 DEF DataSnapshots
<1> DEFINE times == {s.at : s \in DataSnapshots(t)}
<1>2. /\ DataSnapshots(t) \subseteq snapshots[t]
      /\ \A s \in DataSnapshots(t) : s.at <= lastAppend[t]
  BY <1>0, <1>1 DEF Appends, DataSnapshots
<1>3. IsStale(t) <=> DataSnapshots(t) = {} \/ now - Max(times) > MaxAge
  BY DEF IsStale
<1>4. ASSUME DataSnapshots(t) # {}
      PROVE  /\ \E s \in DataSnapshots(t) : Max(times) = s.at
             /\ \A s \in DataSnapshots(t) : s.at <= Max(times)
  <2>1. times \in SUBSET Nat /\ times # {} /\ \A x \in times : x <= lastAppend[t]
    BY <1>0, <1>2, <1>4
  <2>2. Max(times) \in times /\ \A x \in times : x <= Max(times)
    BY <1>0, <2>1, MaxOfBounded
  <2> QED  BY <2>2
<1> HIDE DEF times
<1>5. ASSUME ~IsStale(t) PROVE lastAppend[t] > 0 /\ now - lastAppend[t] <= MaxAge
  <2>1. PICK s \in DataSnapshots(t) : Max(times) = s.at
    BY <1>3, <1>4, <1>5
  <2>2. ~(now - s.at > MaxAge) /\ s.at \in Nat /\ s.at > 0 /\ s.at <= lastAppend[t]
    BY <1>0, <1>2, <1>3, <1>5, <2>1
  <2> QED  BY <1>0, <2>2, NumbersAre
<1>6. ASSUME lastAppend[t] > 0, now - lastAppend[t] <= MaxAge PROVE ~IsStale(t)
  <2>1. now - lastAppend[t] <= RetentionThreshold
    BY <1>0, <1>6, NumbersAre
  <2>2. PICK s \in snapshots[t] : s.op = "append" /\ s.at = lastAppend[t]
    BY <1>0, <1>6, <2>1 DEF Appends
  <2>3. s \in DataSnapshots(t)
    BY <1>1, <2>2
  <2>4. PICK u \in DataSnapshots(t) : Max(times) = u.at
    BY <1>4, <2>3
  <2>5. lastAppend[t] <= Max(times) /\ Max(times) \in Nat
    BY <1>0, <1>2, <1>4, <2>2, <2>3, <2>4
  <2>6. ~(now - Max(times) > MaxAge)
    BY <1>0, <1>6, <2>5, NumbersAre
  <2> QED  BY <1>3, <2>3, <2>6
<1> QED  BY <1>5, <1>6

(* The nightly workflow ends well exactly when every table really got data *)
(* within the allowed age: maintenance neither hides an old table behind a *)
(* young compaction snapshot nor expires the append that proves it fresh.  *)
THEOREM FreshnessIsExactHolds == MaintenanceSpec => FreshnessIsExact
<1> DEFINE Fresh == \A t \in Tables : lastAppend[t] > 0 /\ now - lastAppend[t] <= MaxAge
<1>1. ASSUME MInv, CheckFreshness PROVE nightly' = "Succeeded" <=> Fresh
  <2>1. Fresh <=> \A t \in Tables : ~IsStale(t)
    BY <1>1, StaleIs
  <2>2. \A t \in Tables : HasNoTimestamp(t) => IsStale(t)
    BY DEF HasNoTimestamp, IsStale
  <2> HIDE DEF Fresh
  <2>3. freshness' = "ok" <=> Fresh
    BY <1>1, <2>1, <2>2 DEF CheckFreshness
  <2>4. nightly' = IF freshness' = "ok" THEN "Succeeded" ELSE "Failed"
    BY <1>1 DEF CheckFreshness
  <2> QED  BY <2>3, <2>4
<1>2. MInv /\ [MaintenanceNext]_maintenanceVars
        => [CheckFreshness => (nightly' = "Succeeded" <=> Fresh)]_maintenanceVars
  BY <1>1
<1> QED  BY <1>2, MInvHolds, PTL DEF MaintenanceSpec, FreshnessIsExact
=============================================================================
