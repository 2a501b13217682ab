---------------------------- MODULE ExtractProofs ----------------------------
(***************************************************************************)
(* What the manifest of an extraction says, against the files it wrote and *)
(* the tables that go on changing under it: for any tables asked for, any  *)
(* number of commits and any retention threshold.                          *)
(***************************************************************************)
EXTENDS Extract, MaxProofs

-----------------------------------------------------------------------------
(* The pieces of a commit to the lake.                                     *)

LEMMA CurrentFilesAre ==
  ASSUME NEW t
  PROVE  \A f : f \in CurrentFiles(t) <=>
                  \E s \in snapshots[t] : s.id = current[t] /\ f \in s.files
BY DEF CurrentFiles

LEMMA FilesAreFiles ==
  ASSUME LakeTypeOK, NEW t \in Tables
  PROVE  CurrentFiles(t) \subseteq File /\ \A s \in snapshots[t] : s.files \subseteq File
<1>1. snapshots[t] \subseteq Snapshot
  BY DEF LakeTypeOK
<1>2. \A s \in snapshots[t] : s.files \subseteq File
  BY <1>1 DEF Snapshot
<1> QED  BY <1>2, CurrentFilesAre

LEMMA UploadIs ==
  ASSUME LakeTypeOK, NEW t \in Tables, NEW holds \in SUBSET Id,
         Upload(t, NewFile(holds))
  PROVE  /\ nextFile \in Id /\ nextFile' = nextFile + 1
         /\ nextFile' \in 1..(MaxFiles + 1)
         /\ NewFile(holds) \in File
         /\ NewFile(holds).id = nextFile /\ NewFile(holds).at = now
         /\ NewFile(holds).holds = holds
         /\ storage' \in [Tables -> SUBSET File]
         /\ storage'[t] = storage[t] \cup {NewFile(holds)}
         /\ \A u \in Tables \ {t} : storage'[u] = storage[u]
<1>1. nextFile \in Id /\ nextFile' = nextFile + 1 /\ nextFile' \in 1..(MaxFiles + 1)
  BY LakeAssumption DEF Upload, LakeTypeOK, Id
<1>2. now \in Time
  BY DEF LakeTypeOK
<1>3. /\ NewFile(holds) \in File /\ NewFile(holds).id = nextFile
      /\ NewFile(holds).at = now /\ NewFile(holds).holds = holds
  BY <1>1, <1>2 DEF NewFile, File
<1> DEFINE new == NewFile(holds)
<1> HIDE DEF new
<1>4. storage' = [storage EXCEPT ![t] = @ \cup {new}] /\ new \in File
  BY <1>3 DEF Upload, new
<1>5. storage' \in [Tables -> SUBSET File] /\ storage'[t] = storage[t] \cup {new}
      /\ \A u \in Tables \ {t} : storage'[u] = storage[u]
  BY <1>4 DEF LakeTypeOK
<1> QED  BY <1>1, <1>3, <1>5 DEF new

LEMMA CommitsIs ==
  ASSUME LakeTypeOK, NEW t \in Tables, NEW op \in {"append", "replace"}, NEW id \in Id,
         NEW files \in SUBSET File, Commits(t, op, id, files)
  PROVE  /\ snapshots' \in [Tables -> SUBSET Snapshot]
         /\ current' \in [Tables -> {0} \cup Id]
         /\ current'[t] = id /\ \A u \in Tables \ {t} : current'[u] = current[u]
         /\ \A u \in Tables \ {t} : snapshots'[u] = snapshots[u]
         /\ \E s \in Snapshot :
              /\ s.id = id /\ s.op = op /\ s.at = now /\ s.files = files
              /\ snapshots'[t] = snapshots[t] \cup {s}
<1> DEFINE s == [id |-> id, op |-> op, at |-> now, files |-> files]
<1>1. now \in Time
  BY DEF LakeTypeOK
<1>2. s \in Snapshot /\ s.id = id /\ s.op = op /\ s.at = now /\ s.files = files
  BY <1>1 DEF Snapshot
<1>3. snapshots' = [snapshots EXCEPT ![t] = @ \cup {s}]
  BY DEF Commits
<1>4. current' = [current EXCEPT ![t] = id]
  BY DEF Commits
<1> HIDE DEF s
<1>5. /\ snapshots' \in [Tables -> SUBSET Snapshot]
      /\ snapshots'[t] = snapshots[t] \cup {s}
      /\ \A u \in Tables \ {t} : snapshots'[u] = snapshots[u]
  BY <1>2, <1>3 DEF LakeTypeOK
<1>6. /\ current' \in [Tables -> {0} \cup Id]
      /\ current'[t] = id /\ \A u \in Tables \ {t} : current'[u] = current[u]
  BY <1>4 DEF LakeTypeOK
<1> QED  BY <1>2, <1>5, <1>6

LEMMA ExpireIs ==
  ASSUME LakeTypeOK, NEW t \in Tables, NEW doomed, Expire(t, doomed)
  PROVE  /\ snapshots' \in [Tables -> SUBSET Snapshot] /\ current' = current
         /\ snapshots'[t] = {s \in snapshots[t] : s.id \notin doomed}
         /\ \A u \in Tables \ {t} : snapshots'[u] = snapshots[u]
BY DEF LakeTypeOK, Expire

LEMMA AskedIs ==
  /\ ExtractTables \in Seq(Tables) /\ Len(ExtractTables) \in Nat \ {0}
  /\ DOMAIN ExtractTables = 1..Len(ExtractTables)
  /\ \A i \in DOMAIN ExtractTables : ExtractTables[i] \in Tables
  /\ Range(ExtractTables) \subseteq Tables
  /\ \A t : t \in Range(ExtractTables) <=> \E i \in DOMAIN ExtractTables : ExtractTables[i] = t
<1>1. ExtractTables \in Seq(Tables) /\ ExtractTables # <<>>
  BY ExtractAssumption
<1>2. Len(ExtractTables) \in Nat \ {0} /\ DOMAIN ExtractTables = 1..Len(ExtractTables)
  BY <1>1
<1>3. \A i \in DOMAIN ExtractTables : ExtractTables[i] \in Tables
  BY <1>1, <1>2
<1>4. \A t : t \in Range(ExtractTables) <=> \E i \in DOMAIN ExtractTables : ExtractTables[i] = t
  BY DEF Range
<1> QED  BY <1>1, <1>2, <1>3, <1>4

-----------------------------------------------------------------------------
(* Type correctness. *)

LEMMA NoResultIs == NoResult \in TableResult
BY DEF NoResult, TableResult

LEMMA SourceIs ==
  ASSUME NEW r \in TableResult, NEW x \in {"contract", "alice"}
  PROVE  [r EXCEPT !.schema = x] \in TableResult
BY DEF TableResult

LEMMA CauseIs ==
  ASSUME NEW r \in TableResult, NEW x \in {"missing", "unreadable"}
  PROVE  [r EXCEPT !.cause = x] \in TableResult
BY DEF TableResult

LEMMA ReasonIs ==
  ASSUME NEW r \in TableResult, NEW x \in {"exists", "not found", "undetermined"}
  PROVE  [r EXCEPT !.reason = x] \in TableResult
BY DEF TableResult

LEMMA CopiedIs ==
  ASSUME NEW r \in TableResult, NEW x \in SUBSET Id
  PROVE  [r EXCEPT !.rows = x] \in TableResult
BY DEF TableResult

LEMMA RecordedIs ==
  ASSUME NEW r \in TableResult, NEW y \in SUBSET Id, NEW h \in SUBSET Id, NEW i \in Id,
         NEW n \in Time
  PROVE  [r EXCEPT !.rows = y, !.snapshot = i, !.since = n, !.holds = h] \in TableResult
BY DEF TableResult

LEMMA ExtractTypeInit == ExtractInit => ExtractTypeOK
<1> SUFFICES ASSUME ExtractInit PROVE ExtractTypeOK
  OBVIOUS
<1> USE DEF ExtractInit, LakeInit
<1>1. LakeTypeOK
  BY LakeAssumption DEF LakeTypeOK, Time
<1>2. 1 \in DOMAIN ExtractTables /\ NoResult \in TableResult
  BY AskedIs, NoResultIs
<1>3. results \in Seq(TableResult) /\ DOMAIN manifest = {} /\ runs \in 0..MaxRuns
  BY ExtractAssumption
<1> QED  BY <1>1, <1>2, <1>3 DEF ExtractTypeOK, Ended

(* The file that compaction writes holds batches of the lake.              *)
LEMMA CompactedIs ==
  ASSUME LakeTypeOK, NEW t \in Tables
  PROVE  UNION {f.holds : f \in CurrentFiles(t)} \in SUBSET Id
<1>1. \A f \in CurrentFiles(t) : f.holds \in SUBSET Id
  BY FilesAreFiles DEF File
<1> QED  BY <1>1

(* An upsert: the rows of the table stay, each in the version it had or in *)
(* the new one, and the new version is the only one that is new.           *)
LEMMA CommitIs ==
  ASSUME LakeTypeOK, NEW t \in Tables, Commit(t)
  PROVE  \E holds \in SUBSET Id, files \in SUBSET File :
           /\ nextFile \in Id /\ nextFile \in holds
           /\ Upload(t, NewFile(holds)) /\ Commits(t, "append", nextFile, files)
           /\ lastAppend' = [lastAppend EXCEPT ![t] = now]
           /\ UNCHANGED <<now, views, purged>>
           /\ NewFile(holds) \in files /\ files \subseteq CurrentFiles(t) \cup {NewFile(holds)}
           /\ \A c \in holds : c = nextFile \/ \E f \in CurrentFiles(t) : c \in f.holds
           /\ \A f \in CurrentFiles(t) : \A b \in f.holds :
                KeyOf[b] = KeyOf[nextFile] \/ b \in holds \/ f \in files
<1> DEFINE touched == {f \in CurrentFiles(t) : \E b \in f.holds : KeyOf[b] = KeyOf[nextFile]}
           kept == {b \in UNION {f.holds : f \in touched} : KeyOf[b] # KeyOf[nextFile]}
           holds == {nextFile} \cup kept
           files == (CurrentFiles(t) \ touched) \cup {NewFile(holds)}
<1>1. nextFile \in Id
  BY DEF Commit, Upload, LakeTypeOK, Id
<1>2. /\ Upload(t, NewFile(holds)) /\ Commits(t, "append", nextFile, files)
      /\ lastAppend' = [lastAppend EXCEPT ![t] = now]
      /\ UNCHANGED <<now, views, purged>>
  BY DEF Commit
<1>3. \A b : b \in kept <=> KeyOf[b] # KeyOf[nextFile] /\ \E f \in touched : b \in f.holds
  OBVIOUS
<1>4. touched \subseteq CurrentFiles(t)
  OBVIOUS
<1> HIDE DEF kept, touched
<1>5. CurrentFiles(t) \subseteq File /\ \A f \in CurrentFiles(t) : f.holds \in SUBSET Id
  BY FilesAreFiles DEF File
<1>6. holds \in SUBSET Id /\ nextFile \in holds
  BY <1>1, <1>3, <1>4, <1>5
<1>7. \A c \in holds : c = nextFile \/ \E f \in CurrentFiles(t) : c \in f.holds
  BY <1>3, <1>4
<1>8. \A f \in CurrentFiles(t) : \A b \in f.holds :
        KeyOf[b] = KeyOf[nextFile] \/ b \in holds \/ f \in files
  BY <1>3
<1> HIDE DEF holds
<1>9. NewFile(holds) \in File
  BY <1>2, <1>6, UploadIs
<1> DEFINE new == NewFile(holds)
<1> HIDE DEF new
<1>10. files \in SUBSET File /\ new \in files /\ files \subseteq CurrentFiles(t) \cup {new}
  BY <1>5, <1>9 DEF new
<1> HIDE DEF files
<1> QED  BY <1>1, <1>2, <1>6, <1>7, <1>8, <1>10 DEF new

LEMMA EnvironmentTypes ==
  ASSUME ExtractTypeOK, Environment PROVE LakeTypeOK' /\ views' \subseteq Tables
                                          /\ views \subseteq views' /\ purged' \subseteq Tables
<1> USE DEF ExtractTypeOK, LakeTypeOK
<1>0. LakeTypeOK
  OBVIOUS
<1>1. ASSUME NEW t \in Tables, Commit(t)
      PROVE  LakeTypeOK' /\ UNCHANGED <<views, purged>>
  <2>1. PICK holds \in SUBSET Id, files \in SUBSET File :
          /\ nextFile \in Id
          /\ Upload(t, NewFile(holds)) /\ Commits(t, "append", nextFile, files)
          /\ lastAppend' = [lastAppend EXCEPT ![t] = now]
          /\ UNCHANGED <<now, views, purged>>
    BY <1>0, <1>1, CommitIs
  <2>2. nextFile' \in 1..(MaxFiles + 1) /\ storage' \in [Tables -> SUBSET File]
    BY <1>0, <2>1, UploadIs
  <2>3. snapshots' \in [Tables -> SUBSET Snapshot] /\ current' \in [Tables -> {0} \cup Id]
    BY <1>0, <2>1, CommitsIs
  <2> QED  BY <2>1, <2>2, <2>3
<1>2. ASSUME NEW t \in Tables, Compact(t)
      PROVE  LakeTypeOK' /\ UNCHANGED <<views, purged>>
  <2> DEFINE holds == UNION {f.holds : f \in CurrentFiles(t)}
  <2>1. nextFile \in Id /\ holds \in SUBSET Id
    BY <1>0, <1>2, CompactedIs DEF Compact, Upload, Id
  <2>2. /\ Upload(t, NewFile(holds)) /\ Commits(t, "replace", nextFile, {NewFile(holds)})
        /\ UNCHANGED <<now, lastAppend, views, purged>>
    BY <1>2 DEF Compact
  <2> HIDE DEF holds
  <2>3. /\ nextFile' \in 1..(MaxFiles + 1) /\ storage' \in [Tables -> SUBSET File]
        /\ NewFile(holds) \in File
    BY <1>0, <2>1, <2>2, UploadIs
  <2> DEFINE files == {NewFile(holds)}
  <2>4. Commits(t, "replace", nextFile, files) /\ files \in SUBSET File
    BY <2>2, <2>3
  <2> HIDE DEF files
  <2>5. snapshots' \in [Tables -> SUBSET Snapshot] /\ current' \in [Tables -> {0} \cup Id]
    BY <1>0, <2>1, <2>4, CommitsIs
  <2> QED  BY <2>2, <2>3, <2>5
<1>3. ASSUME NEW t \in Tables, ExpireOld(t)
      PROVE  LakeTypeOK' /\ UNCHANGED <<views, purged>>
  <2> DEFINE gone == Expirable(t, Cutoff)
             lost == UNION {s.files : s \in gone}
             kept == UNION {s.files : s \in snapshots[t] \ gone}
             doomed == {s.id : s \in gone}
  <2>1. PICK dropped \in {{}, lost \ kept} :
          /\ Expire(t, doomed) /\ storage' = [storage EXCEPT ![t] = @ \ dropped]
          /\ UNCHANGED <<now, nextFile, lastAppend, views, purged>>
    BY <1>3 DEF ExpireOld
  <2> HIDE DEF lost, kept, doomed
  <2>2. snapshots' \in [Tables -> SUBSET Snapshot] /\ current' = current
    BY <1>0, <2>1, ExpireIs
  <2>3. storage' \in [Tables -> SUBSET File]
    BY <2>1
  <2> QED  BY <2>1, <2>2, <2>3
<1>4. ASSUME NEW t \in Tables, Purge(t)
      PROVE  LakeTypeOK' /\ views' = views /\ purged' = purged \cup {t}
  BY <1>4 DEF Purge
<1>5. ASSUME NEW t \in Tables, ApplyView(t)
      PROVE  LakeTypeOK' /\ views' = views \cup {t} /\ purged' = purged
  BY <1>5 DEF ApplyView, lakeVars
<1>6. ASSUME PassTime PROVE LakeTypeOK' /\ UNCHANGED <<views, purged>>
  BY <1>6, LakeAssumption DEF PassTime, Time
<1> QED  BY <1>1, <1>2, <1>3, <1>4, <1>5, <1>6 DEF Environment

(* The last position at which a table was asked for.                       *)
LEMMA LastPosition ==
  ASSUME NEW t \in Range(ExtractTables)
  PROVE  LET l == Max({i \in DOMAIN ExtractTables : ExtractTables[i] = t}) IN
         /\ l \in 1..Len(ExtractTables) /\ ExtractTables[l] = t
         /\ \A j \in (l + 1)..Len(ExtractTables) : ExtractTables[j] # t
<1> DEFINE at_t == {i \in DOMAIN ExtractTables : ExtractTables[i] = t}
<1>1. at_t \in SUBSET Nat /\ at_t # {} /\ \A i \in at_t : i <= Len(ExtractTables)
  BY AskedIs
<1>2. Max(at_t) \in at_t /\ \A i \in at_t : i <= Max(at_t)
  BY <1>1, AskedIs, MaxOfBounded
<1>3. \A i \in at_t : i \in 1..Len(ExtractTables) /\ ExtractTables[i] = t
  BY AskedIs
<1>4. \A j \in 1..Len(ExtractTables) : ExtractTables[j] = t => j \in at_t
  BY AskedIs
<1> DEFINE l == Max(at_t)
<1>5. l \in 1..Len(ExtractTables) /\ ExtractTables[l] = t
  BY <1>2, <1>3
<1> HIDE DEF at_t, l
<1>6. \A j \in (l + 1)..Len(ExtractTables) : ExtractTables[j] # t
  BY <1>2, <1>4, <1>5, AskedIs DEF l
<1> QED  BY <1>5, <1>6 DEF at_t, l

-----------------------------------------------------------------------------
(* The inductive invariant: what is true of a result while it is put       *)
(* together stays true while the lake changes, until its table is purged.  *)

(* The current snapshot is the youngest, and no live one misses a file or  *)
(* holds what is yet to be loaded.                                         *)
Snaps ==
  /\ \A t \in Tables : \A s \in snapshots[t] :
       s.files \subseteq storage[t] /\ s.id <= current[t]
  /\ \A t \in Tables : \A s, u \in snapshots[t] : s.id = u.id => s = u
  /\ \A t \in Tables : current[t] < nextFile
  /\ \A t \in Tables : \A s \in snapshots[t] : \A f \in s.files :
       \A b \in f.holds : b < nextFile
  /\ \A t \in Tables : snapshots[t] # {} => \E s \in snapshots[t] : s.id = current[t]

(* The current snapshot has the row of b in this version or a newer one.   *)
Held(t, b) ==
  \E s \in snapshots[t] : s.id = current[t] /\ \E f \in s.files :
    \E c \in f.holds : KeyOf[c] = KeyOf[b] /\ b <= c

(* The current snapshot is S with later loads applied to it.               *)
Follows(t, S) ==
  /\ \A b \in S : Held(t, b)
  /\ \A s \in snapshots[t] : s.id = current[t] =>
       \A f \in s.files : \A c \in f.holds : c \in S \/ \A b \in S : b < c

Read == UNION {f.holds : f \in pinned}

(* The table still follows what was read. *)
InCurrent ==
  /\ at = "write" /\ Asked \notin purged => Follows(Asked, Read)
  /\ at = "snapshot" /\ Asked \notin purged => Follows(Asked, result.rows)

HonestReason(t, r, there, before) ==
  /\ r.reason = "none" <=> r.schema = "contract"
  /\ r.reason = "none" <=> r.cause = "none"
  /\ r.reason = "not found" => r.cause = "missing"
  /\ r.reason = "exists" /\ r.cause = "missing" => t \in there \ before

(* After a failed read of the contract schema, before the catalog is asked.*)
Unexplained(t, r, there, before) ==
  /\ r.reason = "none" /\ r.cause \in {"missing", "unreadable"}
  /\ r.cause = "missing" => t \notin before
  /\ r.cause = "unreadable" => t \in there

(* Q is S with later loads applied to it. *)
Applied(S, Q) ==
  /\ \A b \in S : \E c \in Q : KeyOf[c] = KeyOf[b] /\ b <= c
  /\ \A c \in Q : c \in S \/ \A b \in S : b < c

Recorded(t, r, lost, time, live) ==
  t \notin lost =>
    /\ Applied(r.rows, r.holds)
    /\ time - r.since <= RetentionThreshold =>
         \E s \in live[t] : s.id = r.snapshot /\ s.at = r.since

Working == {"contract", "alice", "reason", "copy", "write", "snapshot"}

Progress ==
  /\ at \in Working => Len(results) = index - 1
  /\ at = "manifest" => Len(results) = Len(ExtractTables)
  /\ at \in Ended => results = <<>>
  /\ at \notin Working => index = 1
  /\ at \in Ended \cup {"contract", "manifest"} => result = NoResult
  /\ at = "reason" => result.schema = "alice"

InWork ==
  /\ at \in {"alice", "reason"} => Unexplained(Asked, result, views, viewsAtStart)
  /\ at \in {"copy", "write", "snapshot"} => HonestReason(Asked, result, views, viewsAtStart)
  /\ at = "snapshot" => result.rows = output[Asked]

(* A finished result describes its file, or a later one of the same table  *)
(* does.                                                                   *)
Finished ==
  \A i \in 1..Len(results) :
    /\ HonestReason(ExtractTables[i], results[i], views, viewsAtStart)
    /\ Recorded(ExtractTables[i], results[i], purged, now, snapshots)
    /\ \/ results[i].rows = output[ExtractTables[i]]
       \/ at = "snapshot" /\ Asked = ExtractTables[i]
       \/ \E j \in (i + 1)..Len(results) : ExtractTables[j] = ExtractTables[i]

Written ==
  at = "done" =>
    /\ DOMAIN manifest = Range(ExtractTables)
    /\ \A t \in DOMAIN manifest :
         /\ manifest[t] \in TableResult
         /\ HonestReason(t, manifest[t], views, viewsAtStart)
         /\ Recorded(t, manifest[t], purged, now, snapshots)
         /\ manifest[t].rows = output[t]

EInv ==
  /\ ExtractTypeOK /\ Snaps
  /\ InCurrent /\ Progress /\ InWork /\ Finished /\ Written

LEMMA EInvInit == ExtractInit => EInv
<1> SUFFICES ASSUME ExtractInit PROVE EInv
  OBVIOUS
<1>1. ExtractTypeOK
  BY ExtractTypeInit
<1> USE DEF ExtractInit, LakeInit
<1>2. \A t \in Tables : snapshots[t] = {} /\ current[t] = 0
  OBVIOUS
<1>3. Snaps
  BY <1>2 DEF Snaps
<1>4. Len(results) = 0
  OBVIOUS
<1>5. InCurrent /\ InWork /\ Written /\ Finished
  BY <1>4 DEF InCurrent, InWork, Written, Finished
<1>6. Progress
  BY DEF Progress, Working, Ended
<1> QED  BY <1>1, <1>3, <1>5, <1>6 DEF EInv

(* The numbers in the state are numbers. *)
LEMMA ExtractNumbers ==
  ASSUME ExtractTypeOK
  PROVE  /\ now \in Nat /\ nextFile \in Nat /\ RetentionThreshold \in Nat
         /\ \A t \in Tables : current[t] \in Nat
         /\ \A t \in Tables : \A s \in snapshots[t] :
              /\ s \in Snapshot /\ s.id \in Id /\ s.id \in Nat \ {0} /\ s.at \in Nat
              /\ s.at \in Time /\ s.files \subseteq File
         /\ index \in Nat \ {0} /\ index <= Len(ExtractTables)
         /\ Asked \in Tables /\ Asked = ExtractTables[index]
         /\ result \in TableResult /\ results \in Seq(TableResult)
         /\ \A i \in 1..Len(results) : results[i] \in TableResult
<1>1. Id \subseteq Nat \ {0} /\ Time \subseteq Nat
  BY LakeAssumption DEF Id, Time
<1>2. \A t \in Tables : \A s \in snapshots[t] : s \in Snapshot
  BY DEF ExtractTypeOK, LakeTypeOK
<1>3. \A t \in Tables : \A s \in snapshots[t] :
        /\ s \in Snapshot /\ s.id \in Id /\ s.id \in Nat \ {0} /\ s.at \in Nat
        /\ s.at \in Time /\ s.files \subseteq File
  BY <1>1, <1>2 DEF Snapshot
<1>4. \A t \in Tables : current[t] \in Nat
  <2>1. {0} \cup Id \subseteq Nat /\ current \in [Tables -> {0} \cup Id]
    BY <1>1 DEF ExtractTypeOK, LakeTypeOK
  <2>2. current \in [Tables -> Nat]
    BY <2>1
  <2> QED  BY <2>2
<1>5. now \in Nat /\ nextFile \in Nat
  BY <1>1, LakeAssumption DEF ExtractTypeOK, LakeTypeOK
<1>6. /\ index \in Nat \ {0} /\ index <= Len(ExtractTables)
      /\ Asked \in Tables /\ Asked = ExtractTables[index]
  BY AskedIs DEF ExtractTypeOK, Asked
<1>7. results \in Seq(TableResult) /\ \A i \in 1..Len(results) : results[i] \in TableResult
  BY DEF ExtractTypeOK
<1> QED  BY <1>3, <1>4, <1>5, <1>6, <1>7, ExtractAssumption DEF ExtractTypeOK

(* get_snapshot_id finds the current snapshot. *)
LEMMA LatestIs ==
  ASSUME ExtractTypeOK, Snaps, NEW t \in Tables, snapshots[t] # {}
  PROVE  LatestSnapshot(t) \in snapshots[t] /\ LatestSnapshot(t).id = current[t]
<1>1. PICK c \in snapshots[t] : c.id = current[t]
  BY DEF Snaps
<1>2. \A u \in snapshots[t] : u.id <= c.id
  BY <1>1 DEF Snaps
<1>3. \E s \in snapshots[t] : \A u \in snapshots[t] : u.id <= s.id
  BY <1>2
<1>4. LatestSnapshot(t) \in snapshots[t] /\ \A u \in snapshots[t] : u.id <= LatestSnapshot(t).id
  BY <1>3 DEF LatestSnapshot
<1>5. c.id <= LatestSnapshot(t).id /\ LatestSnapshot(t).id <= c.id
  BY <1>2, <1>4
<1>6. c.id \in Nat /\ LatestSnapshot(t).id \in Nat
  BY <1>4, ExtractNumbers
<1> QED  BY <1>1, <1>4, <1>5, <1>6

(* It ends the current snapshot of every step that the extraction takes. *)
LEMMA AbortIs ==
  ASSUME Abort
  PROVE  /\ at' = "failed" /\ index' = 1 /\ result' = NoResult /\ pinned' = {} /\ results' = <<>>
         /\ UNCHANGED <<envVars, viewsAtStart, purged, runs>>
BY DEF Abort, Process

LEMMA WriteFileIs ==
  ASSUME ExtractTypeOK, WriteFile
  PROVE  \E rows \in SUBSET Id :
           /\ output' = [output EXCEPT ![Asked] = rows]
           /\ at = "write"
           /\ UNCHANGED <<envVars, viewsAtStart, purged, runs, manifest>>
           /\ \/ /\ result' = [result EXCEPT !.rows = rows] /\ rows = Read
                 /\ at' = "snapshot" /\ pinned' = {} /\ UNCHANGED <<index, results>>
              \/ Abort
<1> DEFINE rows == UNION {f.holds : f \in pinned \cap storage[Asked]}
<1>1. \A f \in pinned : f.holds \in SUBSET Id
  BY DEF ExtractTypeOK, File
<1>2. rows \in SUBSET Id
  BY <1>1
<1>3. /\ output' = [output EXCEPT ![Asked] = rows] /\ at = "write"
      /\ UNCHANGED <<envVars, viewsAtStart, purged, runs, manifest>>
      /\ \/ /\ result' = [result EXCEPT !.rows = rows] /\ pinned \subseteq storage[Asked]
            /\ at' = "snapshot" /\ pinned' = {} /\ UNCHANGED <<index, results>>
         \/ Abort
  BY DEF WriteFile, Process, Abort
<1>4. pinned \subseteq storage[Asked] => rows = Read
  <2>1. pinned \subseteq storage[Asked] => pinned \cap storage[Asked] = pinned
    OBVIOUS
  <2> QED  BY <2>1 DEF Read
<1> HIDE DEF rows
<1> QED  BY <1>2, <1>3, <1>4

LEMMA GetSnapshotIdIs ==
  ASSUME ExtractTypeOK, Snaps, GetSnapshotId
  PROVE  /\ at = "snapshot"
         /\ UNCHANGED <<envVars, viewsAtStart, purged, runs, output, manifest>>
         /\ \/ Abort
            \/ \E s \in snapshots[Asked], holds \in SUBSET Id, r \in TableResult :
                 /\ s.id = current[Asked]
                 /\ \A f \in s.files : f.holds \subseteq holds
                 /\ \A c \in holds : \E f \in s.files : c \in f.holds
                 /\ r.schema = result.schema /\ r.reason = result.reason
                 /\ r.cause = result.cause
                 /\ r.rows = result.rows /\ r.snapshot = s.id /\ r.since = s.at
                 /\ r.holds = holds
                 /\ results' = Append(results, r)
                 /\ result' = NoResult /\ pinned' = pinned
                 /\ \/ /\ index < Len(ExtractTables) /\ index' = index + 1
                       /\ at' = "contract"
                    \/ index = Len(ExtractTables) /\ index' = 1 /\ at' = "manifest"
<1>0. at = "snapshot" /\ UNCHANGED <<envVars, viewsAtStart, purged, runs, output, manifest>>
  BY DEF GetSnapshotId, Abort, NextTable, Process
<1>1. CASE snapshots[Asked] = {}
  BY <1>0, <1>1 DEF GetSnapshotId
<1>2. CASE snapshots[Asked] # {}
  <2>1. PICK t \in Tables : t = Asked
    BY ExtractNumbers
  <2>2. PICK s \in snapshots[t] : s = LatestSnapshot(t) /\ s.id = current[t]
    BY <1>2, <2>1, LatestIs
  <2> DEFINE holds == UNION {f.holds : f \in s.files}
             r == [result EXCEPT !.rows = result.rows, !.snapshot = s.id, !.since = s.at,
                                 !.holds = holds]
  <2>3. /\ holds \in SUBSET Id /\ \A f \in s.files : f.holds \subseteq holds
        /\ \A c \in holds : \E f \in s.files : c \in f.holds
    <3>1. \A f \in s.files : f.holds \in SUBSET Id
      BY <2>1, ExtractNumbers DEF File
    <3> QED  BY <3>1
  <2>4. results' = Append(results, r) /\ result' = NoResult /\ NextTable /\ UNCHANGED pinned
    BY <1>2, <2>1, <2>2 DEF GetSnapshotId
  <2>5. result \in TableResult /\ result.rows \in SUBSET Id /\ s.id \in Id /\ s.at \in Time
    BY ExtractNumbers DEF TableResult
  <2> HIDE DEF holds
  <2>6. r \in TableResult
    BY <2>3, <2>5, RecordedIs
  <2>7. /\ r.schema = result.schema /\ r.reason = result.reason /\ r.cause = result.cause
        /\ r.rows = result.rows /\ r.snapshot = s.id /\ r.since = s.at /\ r.holds = holds
    BY <2>5 DEF TableResult
  <2>8. \/ index < Len(ExtractTables) /\ index' = index + 1 /\ at' = "contract"
        \/ index = Len(ExtractTables) /\ index' = 1 /\ at' = "manifest"
    BY <2>4, ExtractNumbers, AskedIs DEF NextTable, Process
  <2> HIDE DEF r
  <2> QED  BY <1>0, <2>1, <2>2, <2>3, <2>4, <2>6, <2>7, <2>8
<1> QED  BY <1>1, <1>2

LEMMA ExtractTypeStep ==
  ASSUME ExtractTypeOK, Snaps, [ExtractNext]_extractVars PROVE ExtractTypeOK'
<1> USE DEF ExtractTypeOK, Ended
<1>0. DOMAIN results \subseteq Nat /\ 1 \in DOMAIN ExtractTables /\ Asked \in Tables
  BY AskedIs, ExtractNumbers
<1>1. ASSUME UNCHANGED envVars PROVE LakeTypeOK' /\ views' = views
  BY <1>1 DEF envVars, lakeVars, LakeTypeOK
<1>2. CASE Environment
  BY <1>2, EnvironmentTypes DEF Environment, processVars
<1>3. CASE StartExtract
  <2>1. runs' \in 0..MaxRuns
    BY <1>3, ExtractAssumption DEF StartExtract
  <2> QED  BY <1>1, <1>3, <2>1 DEF StartExtract
<1>4. CASE ProbeContract
  <2>1. result' \in TableResult
    BY <1>4, SourceIs, CauseIs DEF ProbeContract
  <2> QED  BY <1>1, <1>4, <2>1 DEF ProbeContract, Process
<1>5. CASE ProbeAlice
  <2>1. result' \in TableResult
    BY <1>5, SourceIs DEF ProbeAlice
  <2> QED  BY <1>1, <1>5, <2>1 DEF ProbeAlice, Process
<1>6. CASE AskCatalog
  <2>1. result' \in TableResult
    BY <1>6, ReasonIs DEF AskCatalog, Reasons
  <2> QED  BY <1>1, <1>6, <2>1 DEF AskCatalog, Process
<1>7. CASE BindCopy
  <2>1. pinned' \subseteq File
    BY <1>0, <1>7, FilesAreFiles DEF BindCopy
  <2> QED  BY <1>1, <1>7, <2>1 DEF BindCopy, Process
<1>8. ASSUME Abort PROVE /\ at' = "failed" /\ index' = 1 /\ result' \in TableResult
                         /\ pinned' = {} /\ results' \in Seq(TableResult)
                         /\ UNCHANGED <<envVars, viewsAtStart, purged, runs>>
  <2>1. results' \in Seq(TableResult)
    BY <1>8 DEF Abort
  <2> QED  BY <1>8, <2>1, AbortIs, NoResultIs
<1>9. CASE WriteFile
  <2>1. PICK rows \in SUBSET Id :
          /\ output' = [output EXCEPT ![Asked] = rows] /\ at = "write"
          /\ UNCHANGED <<envVars, viewsAtStart, purged, runs, manifest>>
          /\ \/ /\ result' = [result EXCEPT !.rows = rows]
                /\ at' = "snapshot" /\ pinned' = {} /\ UNCHANGED <<index, results>>
             \/ Abort
    BY <1>9, WriteFileIs
  <2>2. output' \in [Tables -> SUBSET Id]
    BY <2>1
  <2>3. /\ at' \in {"failed", "snapshot"} /\ index' \in {1, index} /\ result' \in TableResult
        /\ pinned' = {} /\ results' \in Seq(TableResult)
    BY <1>8, <2>1, CopiedIs
  <2> QED  BY <1>0, <1>1, <2>1, <2>2, <2>3
<1>10. CASE GetSnapshotId
  <2>1. /\ UNCHANGED <<envVars, viewsAtStart, purged, runs, output, manifest>>
        /\ \/ Abort
           \/ /\ result' = NoResult /\ pinned' = pinned
              /\ \E r \in TableResult : results' = Append(results, r)
              /\ \/ index < Len(ExtractTables) /\ index' = index + 1 /\ at' = "contract"
                 \/ index = Len(ExtractTables) /\ index' = 1 /\ at' = "manifest"
    BY <1>10, GetSnapshotIdIs
  <2>2. results \in Seq(TableResult) /\ index \in Nat \ {0}
    BY ExtractNumbers
  <2>3. results' \in Seq(TableResult)
    BY <1>8, <2>1, <2>2
  <2>4. index' \in DOMAIN ExtractTables
    BY <1>8, <2>1, <2>2, AskedIs
  <2>5. at' \in {"failed", "contract", "manifest"} /\ result' \in TableResult /\ pinned' \subseteq File
    BY <1>8, <2>1, NoResultIs
  <2> QED  BY <1>1, <2>1, <2>3, <2>4, <2>5
<1>11. CASE WriteManifest
  <2>1. DOMAIN manifest' = Range(ExtractTables) /\ results' = <<>>
    BY <1>11 DEF WriteManifest
  <2>2. results' \in Seq(TableResult)
    BY <2>1
  <2> QED  BY <1>1, <1>11, <2>1, <2>2, AskedIs DEF WriteManifest, Process
<1>12. CASE Fails
  BY <1>0, <1>1, <1>8, <1>12 DEF Fails
<1>13. CASE UNCHANGED extractVars
  BY <1>1, <1>13 DEF extractVars, processVars, envVars
<1> QED  BY <1>2, <1>3, <1>4, <1>5, <1>6, <1>7, <1>9, <1>10, <1>11, <1>12, <1>13
         DEF ExtractNext

-----------------------------------------------------------------------------
(* What the other actors keep: the batches of the current snapshot, and a  *)
(* live snapshot for the length of the retention threshold.                *)

EnvKept ==
  /\ Snaps'
  /\ views \subseteq views' /\ purged \subseteq purged' /\ now <= now'
  /\ \A t \in Tables \ purged' :
       /\ \A s \in snapshots[t] : s \in snapshots'[t] \/ now' - s.at > RetentionThreshold
       /\ \A S \in SUBSET Id : Follows(t, S) => Follows(t, S)'

(* A commit of files with all the rows of the current ones, each in the    *)
(* version that those have or in a newer one.                              *)
LEMMA GrowKeeps ==
  ASSUME ExtractTypeOK, Snaps, NEW t \in Tables, NEW op \in {"append", "replace"},
         NEW files \in SUBSET File, Commits(t, op, nextFile, files),
         nextFile \in Id, nextFile' = nextFile + 1,
         \A u \in Tables : storage[u] \subseteq storage'[u], files \subseteq storage'[t],
         \A f \in CurrentFiles(t) : \A b \in f.holds :
           \E g \in files : \E c \in g.holds : KeyOf[c] = KeyOf[b] /\ b <= c,
         \A g \in files : \A c \in g.holds :
           c = nextFile \/ \E f \in CurrentFiles(t) : c \in f.holds,
         UNCHANGED <<now, views, purged>>
  PROVE  EnvKept
<1>0. LakeTypeOK /\ nextFile \in Nat /\ now \in Nat
  BY ExtractNumbers DEF ExtractTypeOK
<1>1. PICK s \in Snapshot : s.id = nextFile /\ s.at = now /\ s.files = files
                            /\ snapshots'[t] = snapshots[t] \cup {s}
  BY <1>0, CommitsIs
<1>2. /\ current'[t] = nextFile
      /\ \A u \in Tables \ {t} : current'[u] = current[u] /\ snapshots'[u] = snapshots[u]
  BY <1>0, CommitsIs
<1>9. \A f \in CurrentFiles(t) : \A b \in f.holds : b \in Nat /\ b < nextFile
  <2>1. \A f \in CurrentFiles(t) : \A b \in f.holds : b < nextFile
    BY CurrentFilesAre DEF Snaps
  <2>2. \A f \in CurrentFiles(t) : f.holds \in SUBSET Id
    BY <1>0, FilesAreFiles DEF File
  <2>3. Id \subseteq Nat
    BY LakeAssumption DEF Id
  <2> QED  BY <2>1, <2>2, <2>3
<1>3. \A u \in Tables : \A r \in snapshots[u] : r.id < nextFile
  <2>1. \A u \in Tables : \A r \in snapshots[u] :
          r.id \in Nat /\ current[u] \in Nat /\ r.id <= current[u] /\ current[u] < nextFile
    BY ExtractNumbers DEF Snaps
  <2> QED  BY <1>0, <2>1
<1>4. Snaps'
  <2>1. \A r \in snapshots'[t] : r.files \subseteq storage'[t] /\ r.id <= current'[t]
    <3>1. \A r \in snapshots[t] : r.files \subseteq storage'[t] /\ r.id \in Nat
      BY ExtractNumbers DEF Snaps
    <3> QED  BY <1>0, <1>1, <1>2, <1>3, <3>1
  <2>2. \A u \in Tables \ {t} : \A r \in snapshots'[u] :
          r.files \subseteq storage'[u] /\ r.id <= current'[u]
    BY <1>2 DEF Snaps
  <2>3. \A r, q \in snapshots'[t] : r.id = q.id => r = q
    <3>1. \A r \in snapshots[t] : r.id # s.id
      BY <1>0, <1>1, <1>3, ExtractNumbers
    <3>2. \A r, q \in snapshots[t] : r.id = q.id => r = q
      BY DEF Snaps
    <3> QED  BY <1>1, <3>1, <3>2
  <2>4. \A u \in Tables \ {t} : \A r, q \in snapshots'[u] : r.id = q.id => r = q
    BY <1>2 DEF Snaps
  <2>5. \A u \in Tables : current'[u] < nextFile'
    <3>1. \A u \in Tables : current[u] \in Nat /\ current[u] < nextFile
      BY ExtractNumbers DEF Snaps
    <3> QED  BY <1>0, <1>2, <3>1
  <2>6. \A u \in Tables : snapshots'[u] # {} => \E r \in snapshots'[u] : r.id = current'[u]
    <3>1. \E r \in snapshots'[t] : r.id = current'[t]
      BY <1>1, <1>2
    <3> QED  BY <1>2, <3>1 DEF Snaps
  <2>7. \A r \in snapshots'[t] : \A f \in r.files : \A b \in f.holds : b < nextFile'
    <3>0. \A b \in Nat : b < nextFile => b < nextFile'
      BY <1>0
    <3>1. \A f \in files : \A b \in f.holds : b < nextFile'
      BY <1>0, <1>9, <3>0
    <3>2. \A r \in snapshots[t] : \A f \in r.files : \A b \in f.holds : b < nextFile'
      <4>1. \A r \in snapshots[t] : \A f \in r.files : \A b \in f.holds : b < nextFile
        BY DEF Snaps
      <4>2. \A r \in snapshots[t] : \A f \in r.files : f.holds \in SUBSET Id
        BY ExtractNumbers DEF File
      <4>3. Id \subseteq Nat
        BY LakeAssumption DEF Id
      <4> QED  BY <3>0, <4>1, <4>2, <4>3
    <3> QED  BY <1>1, <3>1, <3>2
  <2>8. \A u \in Tables \ {t} : \A r \in snapshots'[u] : \A f \in r.files :
          \A b \in f.holds : b < nextFile'
    <3>1. \A u \in Tables : \A r \in snapshots[u] : \A f \in r.files : \A b \in f.holds :
            b < nextFile
      BY DEF Snaps
    <3>2. \A u \in Tables : \A r \in snapshots[u] : \A f \in r.files : f.holds \in SUBSET Id
      BY ExtractNumbers DEF File
    <3>3. Id \subseteq Nat
      BY LakeAssumption DEF Id
    <3>4. \A b \in Nat : b < nextFile => b < nextFile'
      BY <1>0
    <3>5. \A u \in Tables : \A r \in snapshots[u] : \A f \in r.files : \A b \in f.holds :
            b < nextFile'
      BY <3>1, <3>2, <3>3, <3>4
    <3> QED  BY <1>2, <3>5
  <2> QED  BY <2>1, <2>2, <2>3, <2>4, <2>5, <2>6, <2>7, <2>8 DEF Snaps
<1>5. \A u \in Tables : snapshots[u] \subseteq snapshots'[u]
  BY <1>1, <1>2
<1>6. ASSUME NEW S \in SUBSET Id, Follows(t, S) PROVE Follows(t, S)'
  <2>1. \A f \in CurrentFiles(t) : \A c \in f.holds : c \in S \/ \A b \in S : b < c
    BY <1>6, CurrentFilesAre DEF Follows
  <2>2. ASSUME NEW b \in S
        PROVE  \E f \in CurrentFiles(t) : \E c \in f.holds : KeyOf[c] = KeyOf[b] /\ b <= c
    BY <1>6, CurrentFilesAre DEF Follows, Held
  <2>3. S \subseteq Nat
    BY LakeAssumption DEF Id
  <2>4. ASSUME NEW b \in S PROVE Held(t, b)'
    <3>1. PICK c : KeyOf[c] = KeyOf[b] /\ b <= c /\ \E f \in CurrentFiles(t) : c \in f.holds
      BY <2>2
    <3>2. PICK d : KeyOf[d] = KeyOf[c] /\ c <= d /\ \E g \in files : d \in g.holds
      BY <3>1
    <3>3. b \in Nat /\ c \in Nat /\ d \in Nat
      BY <1>0, <1>9, <2>3, <3>1, <3>2
    <3>4. KeyOf[d] = KeyOf[b] /\ b <= d
      BY <3>1, <3>2, <3>3
    <3>5. s \in snapshots'[t] /\ s.id = current'[t]
      BY <1>1, <1>2
    <3> QED  BY <1>1, <3>2, <3>4, <3>5 DEF Held
  <2>5. ASSUME NEW r \in snapshots'[t], r.id = current'[t], NEW g \in r.files, NEW c \in g.holds
        PROVE  c \in S \/ \A b \in S : b < c
    <3>1. r = s
      BY <1>0, <1>1, <1>2, <1>3, <2>5, ExtractNumbers
    <3>2. c = nextFile \/ \E f \in CurrentFiles(t) : c \in f.holds
      BY <1>1, <2>5, <3>1
    <3>3. \A b \in S : b < nextFile
      BY <1>0, <1>9, <2>2, <2>3
    <3> QED  BY <2>1, <3>2, <3>3
  <2> QED  BY <2>4, <2>5 DEF Follows
<1>7. ASSUME NEW u \in Tables \ {t}, NEW S, Follows(u, S) PROVE Follows(u, S)'
  BY <1>2, <1>7 DEF Follows, Held
<1>8. now <= now'
  BY <1>0
<1> QED  BY <1>4, <1>5, <1>6, <1>7, <1>8 DEF EnvKept

LEMMA CommitKeeps ==
  ASSUME ExtractTypeOK, Snaps, NEW t \in Tables, Commit(t) PROVE EnvKept
<1>0. LakeTypeOK
  BY DEF ExtractTypeOK
<1>1. PICK holds \in SUBSET Id, files \in SUBSET File :
        /\ nextFile \in Id /\ nextFile \in holds
        /\ Upload(t, NewFile(holds)) /\ Commits(t, "append", nextFile, files)
        /\ UNCHANGED <<now, views, purged>>
        /\ NewFile(holds) \in files /\ files \subseteq CurrentFiles(t) \cup {NewFile(holds)}
        /\ \A c \in holds : c = nextFile \/ \E f \in CurrentFiles(t) : c \in f.holds
        /\ \A f \in CurrentFiles(t) : \A b \in f.holds :
             KeyOf[b] = KeyOf[nextFile] \/ b \in holds \/ f \in files
  BY <1>0, CommitIs
<1> DEFINE new == NewFile(holds)
<1>2. /\ nextFile' = nextFile + 1 /\ new.holds = holds /\ storage'[t] = storage[t] \cup {new}
      /\ \A u \in Tables \ {t} : storage'[u] = storage[u]
  BY <1>0, <1>1, UploadIs
<1>3. new \in files /\ files \subseteq CurrentFiles(t) \cup {new}
  BY <1>1
<1> HIDE DEF new
<1>4. CurrentFiles(t) \subseteq storage[t]
  BY CurrentFilesAre DEF Snaps
<1>5. files \subseteq storage'[t] /\ \A u \in Tables : storage[u] \subseteq storage'[u]
  BY <1>2, <1>3, <1>4
<1>6. \A g \in files : \A c \in g.holds :
        c = nextFile \/ \E f \in CurrentFiles(t) : c \in f.holds
  BY <1>1, <1>2, <1>3
<1>7. ASSUME NEW f \in CurrentFiles(t), NEW b \in f.holds
      PROVE  \E g \in files : \E c \in g.holds : KeyOf[c] = KeyOf[b] /\ b <= c
  <2>1. b \in Nat /\ b < nextFile /\ nextFile \in Nat
    <3>1. b < nextFile
      BY CurrentFilesAre DEF Snaps
    <3>2. f.holds \in SUBSET Id
      BY <1>0, FilesAreFiles DEF File
    <3> QED  BY <1>1, <3>1, <3>2, LakeAssumption DEF Id
  <2>2. KeyOf[b] = KeyOf[nextFile] \/ b \in holds \/ f \in files
    BY <1>1
  <2>3. nextFile \in new.holds /\ holds = new.holds /\ b <= b /\ b <= nextFile
    BY <1>1, <1>2, <2>1
  <2> QED  BY <1>3, <2>2, <2>3
<1> QED  BY <1>1, <1>2, <1>5, <1>6, <1>7, GrowKeeps

LEMMA CompactKeeps ==
  ASSUME ExtractTypeOK, Snaps, NEW t \in Tables, Compact(t) PROVE EnvKept
<1>0. LakeTypeOK /\ nextFile \in Id
  BY DEF ExtractTypeOK, LakeTypeOK, Compact, Upload, Id
<1> DEFINE holds == UNION {f.holds : f \in CurrentFiles(t)}
           new == NewFile(holds)
           files == {new}
<1>1. /\ holds \in SUBSET Id /\ \A f \in CurrentFiles(t) : f.holds \subseteq holds
      /\ \A c \in holds : \E f \in CurrentFiles(t) : c \in f.holds
  BY <1>0, CompactedIs
<1>2. /\ Upload(t, NewFile(holds)) /\ Commits(t, "replace", nextFile, files)
      /\ UNCHANGED <<now, views, purged>>
  BY DEF Compact
<1> HIDE DEF holds
<1>3. /\ nextFile' = nextFile + 1 /\ new \in File /\ new.holds = holds
      /\ storage'[t] = storage[t] \cup {new}
      /\ \A u \in Tables \ {t} : storage'[u] = storage[u]
  BY <1>0, <1>1, <1>2, UploadIs
<1> HIDE DEF new
<1>4. /\ files \in SUBSET File
      /\ files \subseteq storage'[t] /\ \A u \in Tables : storage[u] \subseteq storage'[u]
  BY <1>3
<1>5. \A g \in files : \A c \in g.holds : \E f \in CurrentFiles(t) : c \in f.holds
  BY <1>1, <1>3
<1>6. \A f \in CurrentFiles(t) : \A b \in f.holds :
        \E g \in files : \E c \in g.holds : KeyOf[c] = KeyOf[b] /\ b <= c
  <2>1. \A f \in CurrentFiles(t) : \A b \in f.holds : b \in Nat
    <3>1. \A f \in CurrentFiles(t) : f.holds \in SUBSET Id
      BY <1>0, FilesAreFiles DEF File
    <3> QED  BY <3>1, LakeAssumption DEF Id
  <2> QED  BY <1>1, <1>3, <2>1
<1> HIDE DEF files
<1> QED  BY <1>0, <1>2, <1>3, <1>4, <1>5, <1>6, GrowKeeps

LEMMA ExpireOldKeeps ==
  ASSUME ExtractTypeOK, Snaps, NEW t \in Tables, ExpireOld(t) PROVE EnvKept
<1>0. LakeTypeOK /\ now \in Nat /\ RetentionThreshold \in Nat
  BY ExtractNumbers DEF ExtractTypeOK
<1> DEFINE gone == Expirable(t, Cutoff)
           lost == (UNION {s.files : s \in gone})
                     \ (UNION {s.files : s \in snapshots[t] \ gone})
           doomed == {s.id : s \in gone}
<1>1. PICK dropped \in {{}, lost} :
        /\ Expire(t, doomed) /\ storage' = [storage EXCEPT ![t] = @ \ dropped]
        /\ UNCHANGED <<now, nextFile, views, purged>>
  BY DEF ExpireOld
<1>2. /\ gone \subseteq snapshots[t]
      /\ \A s \in gone : s.id # current[t] /\ s.at < now - RetentionThreshold
  BY DEF Expirable, Cutoff
<1>3. \A s \in snapshots[t] : s.id \in doomed <=> s \in gone
  <2>1. \A s, u \in snapshots[t] : s.id = u.id => s = u
    BY DEF Snaps
  <2> HIDE DEF gone
  <2> QED  BY <1>2, <2>1
<1>4. \A s \in snapshots[t] \ gone : s.files \cap dropped = {}
  OBVIOUS
<1> HIDE DEF gone, lost, doomed
<1>5. /\ storage'[t] = storage[t] \ dropped /\ \A u \in Tables \ {t} : storage'[u] = storage[u]
      /\ current' = current
      /\ \A s : s \in snapshots'[t] <=> s \in snapshots[t] /\ s \notin gone
      /\ \A u \in Tables \ {t} : snapshots'[u] = snapshots[u]
  <2>1. storage'[t] = storage[t] \ dropped /\ \A u \in Tables \ {t} : storage'[u] = storage[u]
    BY <1>0, <1>1 DEF LakeTypeOK
  <2> QED  BY <1>0, <1>1, <1>3, <2>1, ExpireIs
<1>6. \A s \in snapshots[t] : s.id = current[t] => s \in snapshots'[t]
  BY <1>2, <1>5
<1>7. Snaps'
  <2>1. \A u \in Tables : \A s \in snapshots'[u] :
          s \in snapshots[u] /\ s.files \subseteq storage'[u] /\ s.id <= current'[u]
    <3>1. \A s \in snapshots'[t] :
            s \in snapshots[t] /\ s.files \subseteq storage'[t] /\ s.id <= current'[t]
      BY <1>4, <1>5 DEF Snaps
    <3>2. \A u \in Tables \ {t} : \A s \in snapshots'[u] :
            s \in snapshots[u] /\ s.files \subseteq storage'[u] /\ s.id <= current'[u]
      BY <1>5 DEF Snaps
    <3> QED  BY <3>1, <3>2
  <2>2. \A u \in Tables : \A s, r \in snapshots'[u] : s.id = r.id => s = r
    BY <2>1 DEF Snaps
  <2>3. \A u \in Tables : current'[u] < nextFile'
    BY <1>1, <1>5 DEF Snaps
  <2>4. \A u \in Tables : snapshots'[u] # {} => \E s \in snapshots'[u] : s.id = current'[u]
    BY <1>5, <1>6, <2>1 DEF Snaps
  <2>5. \A u \in Tables : \A s \in snapshots'[u] : \A f \in s.files : \A b \in f.holds :
          b < nextFile'
    BY <1>1, <2>1 DEF Snaps
  <2> QED  BY <2>1, <2>2, <2>3, <2>4, <2>5 DEF Snaps
<1>8. \A u \in Tables : \A s \in snapshots[u] :
        s \in snapshots'[u] \/ now' - s.at > RetentionThreshold
  <2>1. \A s \in gone : now - s.at > RetentionThreshold
    BY <1>0, <1>2, ExtractNumbers
  <2> QED  BY <1>1, <1>5, <2>1
<1>9. \A u \in Tables : \A S \in SUBSET Id : Follows(u, S) => Follows(u, S)'
  <2>1. ASSUME NEW S \in SUBSET Id, Follows(t, S) PROVE Follows(t, S)'
    <3>1. \A b : Held(t, b) => Held(t, b)'
      BY <1>5, <1>6 DEF Held
    <3>2. \A s \in snapshots'[t] : s.id = current'[t] =>
            \A f \in s.files : \A c \in f.holds : c \in S \/ \A b \in S : b < c
      BY <1>5, <2>1 DEF Follows
    <3> QED  BY <2>1, <3>1, <3>2 DEF Follows
  <2>2. \A u \in Tables \ {t} : \A S : Follows(u, S) => Follows(u, S)'
    BY <1>5 DEF Follows, Held
  <2> QED  BY <2>1, <2>2
<1> QED  BY <1>0, <1>1, <1>7, <1>8, <1>9 DEF EnvKept

LEMMA PurgeKeeps ==
  ASSUME ExtractTypeOK, Snaps, NEW t \in Tables, Purge(t) PROVE EnvKept
<1>1. /\ snapshots'[t] = {} /\ current'[t] = 0 /\ storage'[t] = {}
      /\ \A u \in Tables \ {t} : /\ snapshots'[u] = snapshots[u] /\ current'[u] = current[u]
                                 /\ storage'[u] = storage[u]
      /\ purged' = purged \cup {t} /\ UNCHANGED <<now, nextFile, views>>
  BY DEF Purge, ExtractTypeOK, LakeTypeOK
<1>2. \A u \in Tables \ {t} :
        /\ \A s \in snapshots'[u] : s.files \subseteq storage'[u] /\ s.id <= current'[u]
        /\ \A s, r \in snapshots'[u] : s.id = r.id => s = r
        /\ current'[u] < nextFile'
        /\ snapshots'[u] # {} => \E s \in snapshots'[u] : s.id = current'[u]
        /\ \A s \in snapshots'[u] : \A f \in s.files : \A b \in f.holds : b < nextFile'
  BY <1>1 DEF Snaps
<1>3. 0 < nextFile' /\ now \in Nat
  <2>1. current[t] \in Nat /\ current[t] < nextFile /\ nextFile \in Nat
    BY ExtractNumbers DEF Snaps
  <2> QED  BY <1>1, <2>1, ExtractNumbers
<1>4. Snaps'
  BY <1>1, <1>2, <1>3 DEF Snaps
<1>5. \A u \in Tables \ {t} : \A S : Follows(u, S) => Follows(u, S)'
  BY <1>1 DEF Follows, Held
<1> QED  BY <1>1, <1>3, <1>4, <1>5 DEF EnvKept

LEMMA EnvironmentKeeps == ASSUME ExtractTypeOK, Snaps, Environment PROVE EnvKept
<1>1. ASSUME UNCHANGED <<snapshots, current, storage, nextFile, purged>>, views \subseteq views',
             now <= now'
      PROVE  EnvKept
  BY <1>1 DEF EnvKept, Snaps, Follows, Held
<1>2. now \in Nat
  BY ExtractNumbers
<1>3. ASSUME NEW t \in Tables, ApplyView(t) PROVE EnvKept
  BY <1>1, <1>2, <1>3 DEF ApplyView, lakeVars
<1>4. ASSUME PassTime PROVE EnvKept
  BY <1>1, <1>2, <1>4 DEF PassTime
<1> QED  BY <1>3, <1>4, CommitKeeps, CompactKeeps, ExpireOldKeeps, PurgeKeeps DEF Environment

(* A true result stays true. *)
LEMMA ReasonStays ==
  ASSUME NEW t, NEW r, NEW there, NEW later, NEW before, there \subseteq later,
         HonestReason(t, r, there, before)
  PROVE  HonestReason(t, r, later, before)
BY DEF HonestReason

LEMMA CauseStays ==
  ASSUME NEW t, NEW r, NEW there, NEW later, NEW before, there \subseteq later,
         Unexplained(t, r, there, before)
  PROVE  Unexplained(t, r, later, before)
BY DEF Unexplained

LEMMA RecordStays ==
  ASSUME ExtractTypeOK, EnvKept, now' \in Nat, NEW t \in Tables, NEW r \in TableResult,
         Recorded(t, r, purged, now, snapshots)
  PROVE  Recorded(t, r, purged', now', snapshots')
<1>1. now \in Nat /\ RetentionThreshold \in Nat /\ r.since \in Nat
  <2>1. {0} \cup Time \subseteq Nat
    BY DEF Time
  <2> QED  BY <2>1, ExtractNumbers DEF TableResult
<1>2. SUFFICES ASSUME t \notin purged', now' - r.since <= RetentionThreshold
               PROVE  \E s \in snapshots'[t] : s.id = r.snapshot /\ s.at = r.since
  BY DEF Recorded, EnvKept
<1>3. t \notin purged /\ now - r.since <= RetentionThreshold
  BY <1>1, <1>2 DEF EnvKept
<1>4. PICK s \in snapshots[t] : s.id = r.snapshot /\ s.at = r.since
  BY <1>3 DEF Recorded
<1>5. s \in snapshots'[t]
  <2>1. s \in snapshots'[t] \/ now' - s.at > RetentionThreshold
    BY <1>2 DEF EnvKept
  <2> QED  BY <1>1, <1>2, <1>4, <2>1
<1> QED  BY <1>4, <1>5

LEMMA EnvironmentStep == ASSUME EInv, ExtractTypeOK', Environment PROVE EInv'
<1>0. /\ ExtractTypeOK /\ Snaps /\ InCurrent /\ Progress /\ InWork /\ Finished /\ Written
      /\ EnvKept /\ UNCHANGED <<processVars, viewsAtStart>>
  BY EnvironmentKeeps DEF EInv, Environment
<1>1. /\ at' = at /\ index' = index /\ result' = result /\ pinned' = pinned
      /\ output' = output /\ results' = results /\ manifest' = manifest
      /\ viewsAtStart' = viewsAtStart /\ Asked' = Asked
  BY <1>0 DEF processVars, Asked
<1>2. /\ views \subseteq views' /\ purged \subseteq purged' /\ Snaps'
      /\ \A t \in Tables \ purged' : \A S \in SUBSET Id : Follows(t, S) => Follows(t, S)'
  BY <1>0 DEF EnvKept
<1>3. now' \in Nat
  BY DEF ExtractTypeOK, LakeTypeOK, Time
<1>4. InCurrent'
  <2>1. PICK a \in Tables : a = Asked
    BY <1>0, ExtractNumbers
  <2>2. PICK S \in SUBSET Id : S = Read /\ Read' = Read
    <3>1. \A f \in pinned : f.holds \in SUBSET Id
      BY <1>0 DEF ExtractTypeOK, File
    <3>2. Read \in SUBSET Id /\ Read' = Read
      BY <1>1, <3>1 DEF Read
    <3> QED  BY <3>2
  <2>3. PICK Q \in SUBSET Id : Q = result.rows
    BY <1>0, ExtractNumbers DEF TableResult
  <2>4. at = "write" /\ a \notin purged' => Follows(a, S)'
    BY <1>0, <1>2, <2>1, <2>2 DEF InCurrent
  <2>5. at = "snapshot" /\ a \notin purged' => Follows(a, Q)'
    BY <1>0, <1>2, <2>1, <2>3 DEF InCurrent
  <2> QED  BY <1>1, <2>1, <2>2, <2>3, <2>4, <2>5 DEF InCurrent, Follows, Held
<1>5. Progress'
  BY <1>0, <1>1 DEF Progress, Working, Ended
<1>6. \A t, r : HonestReason(t, r, views, viewsAtStart)
                  => HonestReason(t, r, views', viewsAtStart')
  BY <1>1, <1>2, ReasonStays
<1>7. \A t \in Tables, r \in TableResult : Recorded(t, r, purged, now, snapshots)
                  => Recorded(t, r, purged', now', snapshots')
  BY <1>0, <1>3, RecordStays
<1>8. InWork'
  <2>1. \A t, r : Unexplained(t, r, views, viewsAtStart)
                    => Unexplained(t, r, views', viewsAtStart')
    BY <1>1, <1>2, CauseStays
  <2> QED  BY <1>0, <1>1, <1>6, <2>1 DEF InWork
<1>9. Finished'
  <2>1. \A i \in 1..Len(results) : ExtractTables[i] \in Tables /\ results[i] \in TableResult
    <3>1. Len(results) <= Len(ExtractTables)
      <4>1. at \in Working \/ at = "manifest" \/ results = <<>>
        BY <1>0 DEF Progress, ExtractTypeOK, Working, Ended
      <4> QED  BY <1>0, <4>1, ExtractNumbers, AskedIs DEF Progress
    <3> QED  BY <1>0, <3>1, AskedIs, ExtractNumbers
  <2> QED  BY <1>0, <1>1, <1>6, <1>7, <2>1 DEF Finished
<1>10. Written'
  <2>1. at = "done" => \A t \in DOMAIN manifest : t \in Tables /\ manifest[t] \in TableResult
    BY <1>0 DEF Written, ExtractTypeOK
  <2> QED  BY <1>0, <1>1, <1>6, <1>7, <2>1 DEF Written
<1> QED  BY <1>2, <1>4, <1>5, <1>8, <1>9, <1>10 DEF EInv

(* What a step that leaves the lake alone keeps. *)
LEMMA LakeStays ==
  ASSUME Snaps, UNCHANGED <<envVars, purged>>
  PROVE  /\ Snaps' /\ UNCHANGED <<now, snapshots, current, storage, views, purged>>
         /\ \A t, S : Follows(t, S) <=> Follows(t, S)'
<1>1. UNCHANGED <<now, snapshots, current, storage, nextFile, views, purged>>
  BY DEF envVars, lakeVars
<1>2. Snaps'
  BY <1>1 DEF Snaps
<1>3. \A t, S : Follows(t, S) <=> Follows(t, S)'
  BY <1>1 DEF Follows, Held
<1> QED  BY <1>1, <1>2, <1>3

LEMMA AbortKeeps == ASSUME EInv, ExtractTypeOK', Abort, UNCHANGED manifest,
                           at \notin Ended PROVE EInv'
<1>1. /\ at' = "failed" /\ index' = 1 /\ result' = NoResult /\ pinned' = {} /\ results' = <<>>
      /\ UNCHANGED <<envVars, viewsAtStart, purged, runs>>
  BY AbortIs
<1>2. Snaps'
  BY <1>1, LakeStays DEF EInv
<1>3. Progress'
  BY <1>1 DEF EInv, Progress, Working, Ended
<1>4. InCurrent' /\ InWork' /\ Written'
  BY <1>1 DEF InCurrent, InWork, Written
<1>5. Len(results') = 0
  BY <1>1
<1>6. Finished'
  BY <1>5 DEF Finished
<1> QED  BY <1>2, <1>3, <1>4, <1>6 DEF EInv

(* The steps before the rows of a table are copied. *)
LEMMA ProbeKeeps ==
  ASSUME EInv, ExtractTypeOK', StartExtract \/ ProbeContract \/ ProbeAlice \/ AskCatalog \/ BindCopy
  PROVE  EInv'
<1>0. /\ ExtractTypeOK /\ Snaps /\ InCurrent /\ Progress /\ InWork /\ Finished /\ Written
  BY DEF EInv
<1>1. /\ UNCHANGED <<envVars, index, output, results, manifest>> /\ Asked' = Asked
      /\ at' \in Working /\ at # "snapshot" /\ at \in (Working \ {"snapshot"}) \cup Ended
  <2>1. UNCHANGED <<envVars, index, output, results, manifest>>
    BY DEF StartExtract, ProbeContract, ProbeAlice, AskCatalog, BindCopy, Process
  <2>2. at \in Ended \cup {"contract", "alice", "reason", "copy"} /\ at' \in Working
    BY DEF StartExtract, ProbeContract, ProbeAlice, AskCatalog, BindCopy, Process, Working
  <2> QED  BY <2>1, <2>2 DEF Working, Asked, Ended
<1>2. Snaps' /\ UNCHANGED <<now, snapshots, current, storage, views>>
  <2>1. UNCHANGED <<now, snapshots, current, storage, nextFile, views>>
    BY <1>1 DEF envVars, lakeVars
  <2> QED  BY <1>0, <2>1 DEF Snaps
<1>3. Len(results') = index' - 1
  <2>1. at \in Ended => Len(results) = 0 /\ index = 1
    BY <1>0 DEF Progress, Ended, Working
  <2> QED  BY <1>0, <1>1, <2>1 DEF Progress
<1>4. Written'
  BY <1>1 DEF Written, Working
<1>5. Finished'
  <2>1. CASE StartExtract
    <3>1. Len(results) = 0
      BY <1>0, <2>1 DEF StartExtract, Progress, Ended
    <3> QED  BY <1>1, <3>1 DEF Finished
  <2>2. CASE ~StartExtract
    <3>1. UNCHANGED <<viewsAtStart, purged>> /\ at # "snapshot"
      BY <2>2 DEF ProbeContract, ProbeAlice, AskCatalog, BindCopy, Process
    <3> QED  BY <1>0, <1>1, <1>2, <3>1 DEF Finished
  <2> QED  BY <2>1, <2>2
<1>6. result \in TableResult /\ viewsAtStart \subseteq views
  BY <1>0 DEF ExtractTypeOK
<1>7. PICK a \in Tables : a = Asked
  BY <1>0, ExtractNumbers
<1>8. CASE StartExtract
  <2>1. at' = "contract" /\ result' = NoResult
    BY <1>0, <1>8 DEF StartExtract, Progress
  <2>2. Progress' /\ InCurrent' /\ InWork'
    BY <1>3, <2>1 DEF Progress, InCurrent, InWork, Working, Ended
  <2> QED  BY <1>2, <1>4, <1>5, <2>2 DEF EInv
<1>9. CASE ProbeContract
  <2>0. result = NoResult /\ UNCHANGED <<viewsAtStart, purged>>
    BY <1>0, <1>9 DEF ProbeContract, Progress, Process
  <2>1. \/ /\ at' = "copy" /\ result'.schema = "contract"
           /\ result'.reason = "none" /\ result'.cause = "none"
        \/ /\ at' = "alice" /\ result'.reason = "none"
           /\ result'.cause = IF a \in views THEN "unreadable" ELSE "missing"
    BY <1>7, <1>9, <2>0 DEF ProbeContract, Process, NoResult
  <2>2. at' = "copy" => HonestReason(a, result', views, viewsAtStart)
    BY <2>1 DEF HonestReason
  <2>3. at' = "alice" => Unexplained(a, result', views, viewsAtStart)
    BY <1>6, <2>1 DEF Unexplained
  <2>4. Progress' /\ InCurrent'
    BY <1>3, <2>1 DEF Progress, InCurrent, Working, Ended
  <2>5. InWork'
    BY <1>1, <1>2, <1>7, <2>0, <2>1, <2>2, <2>3 DEF InWork, HonestReason, Unexplained
  <2> QED  BY <1>2, <1>4, <1>5, <2>4, <2>5 DEF EInv
<1>10. CASE ProbeAlice
  <2>1. /\ at = "alice" /\ at' = "reason" /\ result' = [result EXCEPT !.schema = "alice"]
        /\ UNCHANGED <<viewsAtStart, purged>>
    BY <1>10 DEF ProbeAlice, Process
  <2>2. /\ result'.schema = "alice" /\ result'.reason = result.reason
        /\ result'.cause = result.cause
    BY <1>6, <2>1 DEF TableResult
  <2>3. Unexplained(a, result', views, viewsAtStart)
    BY <1>0, <1>7, <2>1, <2>2 DEF InWork, Unexplained
  <2>4. Progress' /\ InCurrent'
    BY <1>3, <2>1, <2>2 DEF Progress, InCurrent, Working, Ended
  <2>5. InWork'
    BY <1>1, <1>2, <1>7, <2>1, <2>3 DEF InWork, Unexplained
  <2> QED  BY <1>2, <1>4, <1>5, <2>4, <2>5 DEF EInv
<1>11. CASE AskCatalog
  <2>1. PICK r \in Reasons(Asked) : result' = [result EXCEPT !.reason = r]
    BY <1>11 DEF AskCatalog
  <2>2. /\ at = "reason" /\ at' = "copy" /\ result.schema = "alice"
        /\ UNCHANGED <<viewsAtStart, purged>>
    BY <1>0, <1>11 DEF AskCatalog, Process, Progress
  <2>3. result'.reason = r /\ result'.schema = "alice" /\ result'.cause = result.cause
    BY <1>6, <2>1, <2>2 DEF TableResult
  <2>4. Unexplained(a, result, views, viewsAtStart)
    BY <1>0, <1>7, <2>2 DEF InWork
  <2>5. \/ r = "undetermined"
        \/ r = "exists" /\ a \in views
        \/ r = "not found" /\ a \notin views
    BY <1>7 DEF Reasons
  <2>6. HonestReason(a, result', views, viewsAtStart)
    BY <2>3, <2>4, <2>5 DEF HonestReason, Unexplained
  <2>7. Progress' /\ InCurrent'
    BY <1>3, <2>2 DEF Progress, InCurrent, Working, Ended
  <2>8. InWork'
    BY <1>1, <1>2, <1>7, <2>2, <2>6 DEF InWork, HonestReason
  <2> QED  BY <1>2, <1>4, <1>5, <2>7, <2>8 DEF EInv
<1>12. CASE BindCopy
  <2>1. /\ at = "copy" /\ at' = "write" /\ pinned' = CurrentFiles(Asked)
        /\ UNCHANGED <<result, viewsAtStart, purged>>
    BY <1>12 DEF BindCopy, Process
  <2>2. PICK S \in SUBSET Id : S = Read'
    <3>1. \A f \in pinned' : f.holds \in SUBSET Id
      BY DEF ExtractTypeOK, File
    <3>2. Read' \in SUBSET Id
      BY <3>1 DEF Read
    <3> QED  BY <3>2
  <2>3. \A b : b \in S <=> \E f \in CurrentFiles(a) : b \in f.holds
    BY <1>7, <2>1, <2>2 DEF Read
  <2>4. Follows(a, S)
    <3>1. \A b \in S : b \in Nat
      BY LakeAssumption DEF Id
    <3>2. \A b \in S : Held(a, b)
      BY <2>3, <3>1, CurrentFilesAre DEF Held
    <3>3. \A s \in snapshots[a] : s.id = current[a] => \A f \in s.files : \A c \in f.holds : c \in S
      BY <2>3, CurrentFilesAre
    <3> QED  BY <3>2, <3>3 DEF Follows
  <2>5. InCurrent'
    BY <1>1, <1>2, <1>7, <2>1, <2>2, <2>4 DEF InCurrent, Follows, Held
  <2>6. InWork'
    BY <1>0, <1>1, <1>2, <2>1 DEF InWork, HonestReason
  <2>7. Progress'
    BY <1>3, <2>1 DEF Progress, Working, Ended
  <2> QED  BY <1>2, <1>4, <1>5, <2>5, <2>6, <2>7 DEF EInv
<1> QED  BY <1>8, <1>9, <1>10, <1>11, <1>12

LEMMA WriteFileKeeps == ASSUME EInv, ExtractTypeOK', WriteFile PROVE EInv'
<1>0. /\ ExtractTypeOK /\ Snaps /\ InCurrent /\ Progress /\ InWork /\ Finished
  BY DEF EInv
<1>1. PICK rows \in SUBSET Id :
        /\ output' = [output EXCEPT ![Asked] = rows] /\ at = "write"
        /\ UNCHANGED <<envVars, viewsAtStart, purged, runs, manifest>>
        /\ \/ /\ result' = [result EXCEPT !.rows = rows] /\ rows = Read
              /\ at' = "snapshot" /\ pinned' = {} /\ UNCHANGED <<index, results>>
           \/ Abort
  BY <1>0, WriteFileIs
<1>2. CASE Abort
  BY <1>1, <1>2, AbortKeeps DEF Ended
<1>3. CASE ~Abort
  <2>1. /\ result' = [result EXCEPT !.rows = rows] /\ at' = "snapshot" /\ rows = Read
        /\ UNCHANGED <<index, results, manifest, purged, viewsAtStart>> /\ Asked' = Asked
    BY <1>1, <1>3 DEF Asked
  <2>2. Snaps' /\ UNCHANGED <<now, snapshots, current, storage, views>>
    BY <1>0, <1>1, LakeStays
  <2>3. PICK a \in Tables : a = Asked
    BY <1>0, ExtractNumbers
  <2>4. /\ result'.rows = rows /\ result'.reason = result.reason
        /\ result'.schema = result.schema /\ result'.cause = result.cause
    BY <1>0, <2>1 DEF ExtractTypeOK, TableResult
  <2>5. output'[a] = rows /\ \A t \in Tables \ {a} : output'[t] = output[t]
    BY <1>0, <1>1, <2>3 DEF ExtractTypeOK
  <2>6. InCurrent'
    <3>1. a \notin purged => Follows(a, rows)
      BY <1>0, <1>1, <2>1, <2>3 DEF InCurrent
    <3> QED  BY <2>1, <2>2, <2>3, <2>4, <3>1 DEF InCurrent, Follows, Held
  <2>7. Progress'
    BY <1>0, <1>1, <2>1 DEF Progress, Working, Ended
  <2>8. InWork'
    BY <1>0, <1>1, <2>1, <2>2, <2>3, <2>4, <2>5 DEF InWork, HonestReason
  <2>9. Finished'
    <3>1. \A i \in 1..Len(results) : ExtractTables[i] \in Tables
      BY <1>0, <1>1, ExtractNumbers, AskedIs DEF Progress, Working
    <3>2. \A i \in 1..Len(results) :
            \/ results[i].rows = output'[ExtractTables[i]]
            \/ a = ExtractTables[i]
            \/ \E j \in (i + 1)..Len(results) : ExtractTables[j] = ExtractTables[i]
      BY <1>0, <1>1, <2>5, <3>1 DEF Finished
    <3>3. \A i \in 1..Len(results) :
            /\ HonestReason(ExtractTables[i], results[i], views, viewsAtStart)
            /\ Recorded(ExtractTables[i], results[i], purged, now, snapshots)
      BY <1>0 DEF Finished
    <3> QED  BY <2>1, <2>2, <2>3, <3>2, <3>3 DEF Finished
  <2>10. Written'
    BY <2>1 DEF Written
  <2> QED  BY <2>2, <2>6, <2>7, <2>8, <2>9, <2>10 DEF EInv
<1> QED  BY <1>2, <1>3

LEMMA GetSnapshotIdKeeps == ASSUME EInv, ExtractTypeOK', GetSnapshotId PROVE EInv'
<1>0. /\ ExtractTypeOK /\ Snaps /\ InCurrent /\ Progress /\ InWork /\ Finished
  BY DEF EInv
<1>1. /\ at = "snapshot" /\ UNCHANGED <<envVars, viewsAtStart, purged, runs, output, manifest>>
  BY <1>0, GetSnapshotIdIs
<1>2. CASE Abort
  BY <1>1, <1>2, AbortKeeps DEF Ended
<1>3. CASE ~Abort
  <2>1. PICK a \in Tables : a = Asked /\ a = ExtractTables[index]
    BY <1>0, ExtractNumbers
  <2>2. PICK s \in snapshots[a], holds \in SUBSET Id, r \in TableResult :
          /\ s.id = current[a]
          /\ \A f \in s.files : f.holds \subseteq holds
          /\ \A c \in holds : \E f \in s.files : c \in f.holds
          /\ r.schema = result.schema /\ r.reason = result.reason /\ r.cause = result.cause
          /\ r.rows = result.rows /\ r.snapshot = s.id /\ r.since = s.at
          /\ r.holds = holds
          /\ results' = Append(results, r)
          /\ result' = NoResult
          /\ \/ index < Len(ExtractTables) /\ index' = index + 1 /\ at' = "contract"
             \/ index = Len(ExtractTables) /\ index' = 1 /\ at' = "manifest"
    BY <1>0, <1>3, <2>1, GetSnapshotIdIs
  <2>3. Snaps' /\ UNCHANGED <<now, snapshots, current, storage, views>>
    BY <1>0, <1>1, LakeStays
  <2>4. /\ Len(results) \in Nat /\ Len(results) + 1 = index
        /\ results \in Seq(TableResult)
    BY <1>0, <1>1, ExtractNumbers DEF Progress, Working
  <2>5. /\ Len(results') = Len(results) + 1 /\ results'[Len(results) + 1] = r
        /\ \A i \in 1..Len(results) : results'[i] = results[i]
    BY <2>2, <2>4
  <2>6. InCurrent' /\ InWork' /\ Written'
    BY <2>2 DEF InCurrent, InWork, Written
  <2>7. Progress'
    BY <1>0, <1>1, <2>2, <2>4, <2>5 DEF Progress, Working, Ended
  <2>8. HonestReason(a, r, views, viewsAtStart)
    BY <1>0, <1>1, <2>1, <2>2 DEF InWork, HonestReason
  <2>9. Recorded(a, r, purged, now, snapshots)
    <3>1. ASSUME a \notin purged PROVE Applied(r.rows, r.holds)
      <4>1. PICK S : S = result.rows
        OBVIOUS
      <4>2. Follows(a, S)
        BY <1>0, <1>1, <2>1, <3>1, <4>1 DEF InCurrent
      <4>3. \A u \in snapshots[a] : u.id = current[a] => u = s
        BY <1>0, <2>2 DEF Snaps
      <4>4. \A b \in S : \E c \in holds : KeyOf[c] = KeyOf[b] /\ b <= c
        BY <2>2, <4>2, <4>3 DEF Follows, Held
      <4>5. \A c \in holds : c \in S \/ \A b \in S : b < c
        BY <2>2, <4>2 DEF Follows
      <4> QED  BY <2>2, <4>1, <4>4, <4>5 DEF Applied
    <3> QED  BY <2>2, <3>1 DEF Recorded
  <2>10. r.rows = output[a]
    BY <1>0, <1>1, <2>1, <2>2 DEF InWork
  <2>11. Finished'
    <3>1. ASSUME NEW i \in 1..Len(results')
          PROVE  /\ HonestReason(ExtractTables[i], results'[i], views, viewsAtStart)
                 /\ Recorded(ExtractTables[i], results'[i], purged, now, snapshots)
      <4>1. CASE i \in 1..Len(results)
        BY <1>0, <2>5, <4>1 DEF Finished
      <4>2. CASE i = Len(results) + 1
        BY <2>1, <2>4, <2>5, <2>8, <2>9, <4>2
      <4> QED  BY <2>4, <2>5, <4>1, <4>2
    <3>2. ASSUME NEW i \in 1..Len(results')
          PROVE  \/ results'[i].rows = output[ExtractTables[i]]
                 \/ \E j \in (i + 1)..Len(results') : ExtractTables[j] = ExtractTables[i]
      <4>1. CASE i \in 1..Len(results)
        <5>1. \/ results[i].rows = output[ExtractTables[i]]
              \/ a = ExtractTables[i]
              \/ \E j \in (i + 1)..Len(results) : ExtractTables[j] = ExtractTables[i]
          BY <1>0, <2>1, <4>1 DEF Finished
        <5>2. index \in (i + 1)..Len(results') /\ a = ExtractTables[index]
          BY <2>1, <2>4, <2>5, <4>1
        <5>3. \A j \in (i + 1)..Len(results) : j \in (i + 1)..Len(results')
          BY <2>4, <2>5, <4>1
        <5> QED  BY <2>5, <4>1, <5>1, <5>2, <5>3
      <4>2. CASE i = Len(results) + 1
        BY <2>1, <2>4, <2>5, <2>10, <4>2
      <4> QED  BY <2>4, <2>5, <4>1, <4>2
    <3> QED  BY <1>1, <2>3, <3>1, <3>2 DEF Finished
  <2> QED  BY <2>3, <2>6, <2>7, <2>11 DEF EInv
<1> QED  BY <1>2, <1>3

LEMMA WriteManifestKeeps == ASSUME EInv, ExtractTypeOK', WriteManifest PROVE EInv'
<1>0. /\ ExtractTypeOK /\ Snaps /\ InCurrent /\ Progress /\ InWork /\ Finished
  BY DEF EInv
<1>1. /\ at = "manifest" /\ at' = "done" /\ results' = <<>>
      /\ manifest' = [t \in Range(ExtractTables) |->
           results[Max({i \in DOMAIN ExtractTables : ExtractTables[i] = t})]]
      /\ UNCHANGED <<envVars, viewsAtStart, purged, index, result, pinned, output>>
  BY DEF WriteManifest, Process
<1>2. Snaps' /\ UNCHANGED <<now, snapshots, current, storage, views>>
  BY <1>0, <1>1, LakeStays
<1>3. ASSUME NEW t \in Range(ExtractTables)
      PROVE  /\ manifest'[t] \in TableResult
             /\ HonestReason(t, manifest'[t], views, viewsAtStart)
             /\ Recorded(t, manifest'[t], purged, now, snapshots)
             /\ manifest'[t].rows = output[t]
  <2> DEFINE l == Max({i \in DOMAIN ExtractTables : ExtractTables[i] = t})
  <2>1. manifest'[t] = results[l]
    BY <1>1
  <2>2. /\ l \in 1..Len(ExtractTables) /\ ExtractTables[l] = t
        /\ \A j \in (l + 1)..Len(ExtractTables) : ExtractTables[j] # t
    BY LastPosition
  <2> HIDE DEF l
  <2>3. Len(results) = Len(ExtractTables)
    BY <1>0, <1>1 DEF Progress
  <2>4. results[l] \in TableResult
    BY <1>0, <2>2, <2>3, ExtractNumbers
  <2>5. /\ HonestReason(ExtractTables[l], results[l], views, viewsAtStart)
        /\ Recorded(ExtractTables[l], results[l], purged, now, snapshots)
        /\ \/ results[l].rows = output[ExtractTables[l]]
           \/ \E j \in (l + 1)..Len(results) : ExtractTables[j] = ExtractTables[l]
    BY <1>0, <1>1, <2>2, <2>3 DEF Finished
  <2> QED  BY <2>1, <2>2, <2>3, <2>4, <2>5
<1>4. DOMAIN manifest' = Range(ExtractTables)
  BY <1>1
<1>5. Written'
  BY <1>1, <1>2, <1>3, <1>4 DEF Written
<1>6. Progress'
  BY <1>0, <1>1 DEF Progress, Working, Ended
<1>7. InCurrent' /\ InWork'
  BY <1>1 DEF InCurrent, InWork
<1>8. Len(results') = 0
  BY <1>1
<1>9. Finished'
  BY <1>8 DEF Finished
<1> QED  BY <1>2, <1>5, <1>6, <1>7, <1>9 DEF EInv

LEMMA EInvStep == EInv /\ [ExtractNext]_extractVars => EInv'
<1> SUFFICES ASSUME EInv, [ExtractNext]_extractVars PROVE EInv'
  OBVIOUS
<1>1. ExtractTypeOK'
  BY ExtractTypeStep DEF EInv
<1>2. CASE Fails
  BY <1>1, <1>2, AbortKeeps DEF Fails
<1>3. CASE UNCHANGED extractVars
  <2>1. UNCHANGED <<now, snapshots, current, storage, nextFile, lastAppend, views, at, index,
                    result, pinned, output, results, manifest, viewsAtStart, purged, runs>>
    BY <1>3 DEF extractVars, envVars, lakeVars, processVars
  <2>2. Asked' = Asked
    BY <2>1 DEF Asked
  <2>3. Snaps' /\ InCurrent' /\ Progress' /\ InWork'
    <3>1. Snaps' /\ Progress'
      BY <2>1 DEF EInv, Snaps, Progress, Working, Ended
    <3>2. Read' = Read
      BY <2>1 DEF Read
    <3>3. InCurrent'
      BY <2>1, <2>2, <3>2 DEF EInv, InCurrent, Follows, Held
    <3>4. InWork'
      BY <2>1, <2>2 DEF EInv, InWork, Unexplained, HonestReason
    <3> QED  BY <3>1, <3>3, <3>4
  <2>4. Finished' /\ Written'
    BY <2>1, <2>2 DEF EInv, Finished, Written
  <2> QED  BY <1>1, <2>3, <2>4 DEF EInv
<1> QED  BY <1>1, <1>2, <1>3, EnvironmentStep, ProbeKeeps, WriteFileKeeps, GetSnapshotIdKeeps,
            WriteManifestKeeps DEF ExtractNext

LEMMA EInvHolds == ExtractSpec => []EInv
BY EInvInit, EInvStep, PTL DEF ExtractSpec

-----------------------------------------------------------------------------
(* The extraction keeps its types; in particular its index stays within    *)
(* the tables asked for.                                                   *)
THEOREM ExtractTypeCorrect == ExtractSpec => []ExtractTypeOK
BY EInvHolds, PTL DEF EInv

LEMMA ManifestIsTrue ==
  EInv => /\ ManifestMatchesFiles /\ SnapshotFollowsFile
          /\ RecordedSnapshotIsKept /\ FallbackIsExplained
<1> SUFFICES ASSUME EInv
             PROVE  /\ ManifestMatchesFiles /\ SnapshotFollowsFile
                    /\ RecordedSnapshotIsKept /\ FallbackIsExplained
  OBVIOUS
<1>0. ExtractTypeOK /\ Snaps /\ Written
  BY DEF EInv
<1>1. ManifestMatchesFiles
  BY <1>0 DEF Written, ManifestMatchesFiles
<1>2. SnapshotFollowsFile
  BY <1>0 DEF Written, Recorded, Applied, SnapshotFollowsFile
<1>3. RecordedSnapshotIsKept
  <2>1. \A t \in Tables : \A s \in snapshots[t] : s.files \subseteq storage[t]
    BY <1>0 DEF Snaps
  <2>2. DOMAIN manifest \subseteq Tables
    BY <1>0 DEF ExtractTypeOK
  <2> QED  BY <1>0, <2>1, <2>2 DEF Written, Recorded, RecordedSnapshotIsKept
<1>4. FallbackIsExplained
  BY <1>0 DEF Written, HonestReason, FallbackIsExplained
<1> QED  BY <1>1, <1>2, <1>3, <1>4

(* After any number of extractions into one directory, every entry of the  *)
(* manifest of a finished one counts exactly the rows of the file of its   *)
(* table, for any list of tables, repeated ones included.                  *)
THEOREM ManifestMatchesFilesHolds == ExtractSpec => []ManifestMatchesFiles
BY EInvHolds, ManifestIsTrue, PTL

(* The snapshot an entry names is its file with later loads applied to it, *)
(* each of which wrote a new row or a new version of one, for any keys and *)
(* any compactions and expiries between the COPY and get_snapshot_id.      *)
THEOREM SnapshotFollowsFileHolds == ExtractSpec => []SnapshotFollowsFile
BY EInvHolds, ManifestIsTrue, PTL

(* The snapshot an entry names can be read for as long as the retention    *)
(* threshold from its commit, unless its table was purged.                 *)
THEOREM RecordedSnapshotIsKeptHolds == ExtractSpec => []RecordedSnapshotIsKept
BY EInvHolds, ManifestIsTrue, PTL

(* The reason an entry gives for the fallback agrees with why the contract *)
(* schema could not be read, up to a view that apply-views created during  *)
(* the extraction: only then can one that was missing be called existing.  *)
THEOREM FallbackIsExplainedHolds == ExtractSpec => []FallbackIsExplained
BY EInvHolds, ManifestIsTrue, PTL
=============================================================================
