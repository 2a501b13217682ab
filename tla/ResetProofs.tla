---------------------------- MODULE ResetProofs ----------------------------
(***************************************************************************)
(* What ingestion and the reset guarantee together, for every set of jobs  *)
(* and any number of killed runs and failed resets.                        *)
(***************************************************************************)
EXTENDS Reset, MaxProofs

-----------------------------------------------------------------------------
(* The contents of a table. *)

LEMMA ContentsIs ==
  ASSUME NEW f
  PROVE  f \in Contents <=> DOMAIN f \subseteq Jobs /\ f \in [DOMAIN f -> Stamp]
BY DEF Contents

LEMMA UpsertIs ==
  ASSUME NEW f, NEW g
  PROVE  /\ DOMAIN Upsert(f, g) = DOMAIN f \cup DOMAIN g
         /\ \A j \in DOMAIN g : Upsert(f, g)[j] = g[j]
         /\ \A j \in DOMAIN f \ DOMAIN g : Upsert(f, g)[j] = f[j]
         /\ f \in Contents /\ g \in Contents => Upsert(f, g) \in Contents
BY ContentsIs DEF Upsert

LEMMA WithoutIs ==
  ASSUME NEW f, NEW S
  PROVE  /\ DOMAIN Without(f, S) = DOMAIN f \ S
         /\ \A j \in DOMAIN f \ S : Without(f, S)[j] = f[j]
         /\ f \in Contents => Without(f, S) \in Contents
BY ContentsIs DEF Without

LEMMA SliceIs ==
  ASSUME NEW f \in Contents, NEW S \in SUBSET DOMAIN f
  PROVE  /\ [j \in S |-> f[j]] \in Contents
         /\ DOMAIN [j \in S |-> f[j]] = S
         /\ \A j \in S : [i \in S |-> f[i]][j] = f[j]
BY ContentsIs

LEMMA RowIs ==
  ASSUME NEW j \in Jobs, NEW s \in Stamp
  PROVE  /\ [k \in {j} |-> s] \in Contents
         /\ DOMAIN [k \in {j} |-> s] = {j}
         /\ [k \in {j} |-> s][j] = s
BY ContentsIs

LEMMA NoRowsIs == NoRows \in Contents /\ DOMAIN NoRows = {}
<1>1. NoRows = [j \in {} |-> NoStamp]
  BY DEF NoRows
<1> QED  BY <1>1, ContentsIs

LEMMA SourcesAreTable == \A i \in 1..3 : SOURCES[i] \in Table
BY DEF SOURCES, Table

-----------------------------------------------------------------------------
(* Watermarks. *)

LEMMA CursorIsNat ==
  ASSUME StoresTypeOK, NEW t \in Table, NEW j \in Rows(t)
  PROVE  Cursor(t, j) \in Nat /\ j \in Jobs
<1>1. landing[t] \in Contents /\ j \in DOMAIN landing[t]
  BY DEF StoresTypeOK, Rows
<1>2. j \in Jobs /\ landing[t][j] \in Stamp
  BY <1>1, ContentsIs
<1>3. Stamp \subseteq Nat /\ Jobs \subseteq Nat
  BY StoresAssumption DEF Stamp
<1> QED  BY <1>2, <1>3 DEF Cursor

(* The watermark only moves forward, and never past the last row it has    *)
(* seen.                                                                   *)
LEMMA AdvanceIs ==
  ASSUME StoresTypeOK, NEW t \in Table, IsFiniteSet(Rows(t)),
         NEW w \in Watermark, NEW S \in SUBSET Rows(t)
  PROVE  LET v == Advance(t, w, S) IN
         /\ v \in Watermark
         /\ v.last >= w.last
         /\ v.last = w.last \/ \E j \in S : Cursor(t, j) = v.last
         /\ v.last = w.last => w.edge \subseteq v.edge
         /\ \A j \in v.edge : \/ v.last = w.last /\ j \in w.edge
                              \/ j \in S /\ Cursor(t, j) = v.last
         /\ \A j \in S : \/ Cursor(t, j) < v.last
                         \/ Cursor(t, j) = v.last /\ j \in v.edge
<1> DEFINE cursors == {Cursor(t, j) : j \in S}
           seen == {w.last} \cup cursors
           last == Max(seen)
           f == [j \in S |-> Cursor(t, j)]
<1>1. \A j \in S : Cursor(t, j) \in Nat /\ j \in Jobs
  BY CursorIsNat
<1>2. w.last \in Nat /\ w.edge \subseteq Jobs
  BY DEF Watermark
<1>3. IsFiniteSet(cursors)
  <2>1. IsFiniteSet(S)
    BY FS_Subset
  <2>2. f \in [S -> cursors] /\ \A c \in cursors : \E j \in S : f[j] = c
    OBVIOUS
  <2>3. f \in Surjection(S, cursors)
    BY <2>2 DEF Surjection
  <2> HIDE DEF f, cursors
  <2> QED  BY <2>1, <2>3, FS_Surjection
<1>4. IsFiniteSet(seen)
  <2> HIDE DEF cursors
  <2>1. seen = cursors \cup {w.last}
    OBVIOUS
  <2> QED  BY <1>3, <2>1, FS_AddElement
<1>5. cursors \in SUBSET Nat
  BY <1>1
<1>6. last \in seen /\ \A x \in seen : x <= last
  <2>1. seen \in SUBSET Nat /\ seen # {}
    BY <1>2, <1>5
  <2> HIDE DEF seen
  <2> QED  BY <1>4, <2>1, MaxOfFinite
<1> DEFINE atLast == {j \in S : Cursor(t, j) = last}
           edge == IF last = w.last THEN w.edge \cup atLast ELSE atLast
<1>7. Advance(t, w, S) = [last |-> last, edge |-> edge]
  BY DEF Advance
<1>8. last \in Nat /\ last >= w.last
  BY <1>2, <1>5, <1>6
<1>9. last = w.last \/ \E j \in S : Cursor(t, j) = last
  BY <1>6
<1>10. edge \subseteq Jobs
  BY <1>1, <1>2
<1>11. \A j \in S : Cursor(t, j) \in seen
  OBVIOUS
<1>12. \A j \in S : Cursor(t, j) < last \/ (Cursor(t, j) = last /\ j \in edge)
  <2> HIDE DEF seen, last
  <2> QED  BY <1>1, <1>6, <1>8, <1>11
<1> HIDE DEF last
<1> QED  BY <1>7, <1>8, <1>9, <1>10, <1>12 DEF Watermark

LEMMA NewRowsAreRows == ASSUME NEW t, NEW w PROVE NewRows(t, w) \subseteq Rows(t)
BY DEF NewRows
-----------------------------------------------------------------------------
(* Landing rows. *)

LEMMA LandIs ==
  ASSUME StoresTypeOK, NEW t \in Table, NEW j \in Jobs, NEW s \in Stamp, Land(t, j, s)
  PROVE  /\ now' = now /\ iceberg' = iceberg
         /\ Rows(t)' = Rows(t) \cup {j} /\ landing'[t][j] = s
         /\ \A k \in Rows(t) \ {j} : landing'[t][k] = landing[t][k]
         /\ \A u \in Table \ {t} : landing'[u] = landing[u]
         /\ StoresTypeOK'
<1> DEFINE row == [k \in {j} |-> s]
           new == Upsert(landing[t], row)
<1>1. row \in Contents /\ DOMAIN row = {j} /\ row[j] = s
  BY RowIs
<1>2. landing[t] \in Contents
  BY DEF StoresTypeOK
<1>3. landing' = [landing EXCEPT ![t] = new] /\ now' = now /\ iceberg' = iceberg
  BY DEF Land
<1> HIDE DEF row
<1>4. /\ new \in Contents /\ DOMAIN new = DOMAIN landing[t] \cup {j}
      /\ new[j] = s /\ \A k \in DOMAIN landing[t] \ {j} : new[k] = landing[t][k]
  <2> DEFINE old == landing[t]
  <2>1. old \in Contents
    BY <1>2
  <2> HIDE DEF old
  <2>2. /\ Upsert(old, row) \in Contents /\ DOMAIN Upsert(old, row) = DOMAIN old \cup {j}
        /\ Upsert(old, row)[j] = s
        /\ \A k \in DOMAIN old \ {j} : Upsert(old, row)[k] = old[k]
    <3>1. /\ DOMAIN Upsert(old, row) = DOMAIN old \cup DOMAIN row
          /\ \A k \in DOMAIN row : Upsert(old, row)[k] = row[k]
          /\ \A k \in DOMAIN old \ DOMAIN row : Upsert(old, row)[k] = old[k]
      BY UpsertIs
    <3>2. Upsert(old, row) \in Contents
      BY <1>1, <2>1, UpsertIs
    <3> QED  BY <1>1, <3>1, <3>2
  <2> QED  BY <2>2 DEF old
<1> HIDE DEF new
<1>5. landing'[t] = new /\ \A u \in Table \ {t} : landing'[u] = landing[u]
  BY <1>3 DEF StoresTypeOK
<1>6. StoresTypeOK'
  BY <1>3, <1>4 DEF StoresTypeOK
<1> QED  BY <1>3, <1>4, <1>5, <1>6 DEF Rows

(* What lands, and when, in a landing database without late rows. *)
OnTime(t, j, s) ==
  IF t = "mon_jdls"
  THEN j \notin Rows(t) /\ \A k \in Rows(t) : k <= j
  ELSE s = now /\ (j \in Rows(t) => landing[t][j] < s)

RowsLandOnTime == MaxLag = 0 /\ CorruptStamps = {} /\ OrderedLanding

LEMMA EnvironmentIs ==
  ASSUME StoresTypeOK, Environment
  PROVE  \/ Tick
         \/ \E t \in Table, j \in Jobs, s \in Stamp :
              Land(t, j, s) /\ (RowsLandOnTime => OnTime(t, j, s))
<1> USE StoresAssumption DEF StoresTypeOK
<1>1. ASSUME NEW j \in Jobs, WriteJobInfo(j)
      PROVE  \E s \in Stamp : /\ Land("job_info", j, s)
                              /\ RowsLandOnTime => OnTime("job_info", j, s)
  <2>1. PICK s \in (now - MaxLag)..now :
          s > 0 /\ Newer("job_info", j, s) /\ Land("job_info", j, s)
    BY <1>1 DEF WriteJobInfo
  <2>2. s \in Stamp /\ (RowsLandOnTime => s = now)
    BY <2>1 DEF Stamp, RowsLandOnTime
  <2>3. j \in Rows("job_info") => landing["job_info"][j] < s
    BY <2>1, <2>2, CursorIsNat DEF Newer, Cursor, Table
  <2> QED  BY <2>1, <2>2, <2>3 DEF OnTime
<1>2. ASSUME NEW j \in Jobs, WriteTrace(j)
      PROVE  \E s \in Stamp : /\ Land("trace", j, s)
                              /\ RowsLandOnTime => OnTime("trace", j, s)
  <2>1. PICK s \in ((now - MaxLag)..now) \cup CorruptStamps :
          /\ s > 0 \/ s \in CorruptStamps
          /\ Newer("trace", j, s) \/ s \in CorruptStamps
          /\ Land("trace", j, s)
    BY <1>2 DEF WriteTrace
  <2>2. s \in Stamp /\ (RowsLandOnTime => s = now /\ Newer("trace", j, s))
    BY <2>1 DEF Stamp, RowsLandOnTime
  <2>3. RowsLandOnTime /\ j \in Rows("trace") => landing["trace"][j] < s
    BY <2>2, CursorIsNat DEF Newer, Cursor, Table
  <2> QED  BY <2>1, <2>2, <2>3 DEF OnTime
<1>3. ASSUME NEW j \in Jobs, WriteMonJdls(j)
      PROVE  \E s \in Stamp : /\ Land("mon_jdls", j, s)
                              /\ RowsLandOnTime => OnTime("mon_jdls", j, s)
  <2>1. Land("mon_jdls", j, NoStamp) /\ NoStamp \in Stamp
    BY <1>3 DEF WriteMonJdls, NoStamp, Stamp
  <2>2. RowsLandOnTime => OnTime("mon_jdls", j, NoStamp)
    BY <1>3 DEF WriteMonJdls, RowsLandOnTime, OnTime, LandsInOrder
  <2> QED  BY <2>1, <2>2
<1> QED  BY <1>1, <1>2, <1>3 DEF Environment, Table

-----------------------------------------------------------------------------
(* Type correctness. *)

(* The types, as functions, and finitely many landing rows. *)
TInv ==
  /\ ResetTypeOK
  /\ local \in [Runs -> [Table -> Watermark]]
  /\ bucket \in [Table -> Watermark]
  /\ \A t \in Table : IsFiniteSet(Rows(t))

LEMMA FreshIs == Fresh \in [Table -> Watermark]
BY IngestAssumption DEF Fresh, Watermark

LEMMA ResetTypeInit == ResetInit => TInv
<1> SUFFICES ASSUME ResetInit PROVE TInv
  OBVIOUS
<1> USE DEF ResetInit, IngestInit, StoresInit
<1>1. StoresTypeOK
  BY NoRowsIs, StoresAssumption DEF StoresTypeOK
<1>2. local \in [Runs -> [Table -> Watermark]] /\ bucket \in [Table -> Watermark]
  BY FreshIs
<1>3. IngestTypeOK
  BY <1>1, <1>2, NoRowsIs, IngestAssumption DEF IngestTypeOK, RunPhase
<1>4. ResetTypeOK
  BY <1>3, ResetAssumption DEF ResetTypeOK, ResetEnded
<1>5. \A t \in Table : Rows(t) = {}
  BY NoRowsIs DEF Rows
<1> QED  BY <1>2, <1>4, <1>5, FS_EmptySet DEF TInv

LEMMA LandingType ==
  ASSUME StoresTypeOK, \A t \in Table : IsFiniteSet(Rows(t)), Environment
  PROVE  StoresTypeOK' /\ \A t \in Table : IsFiniteSet(Rows(t)')
<1>1. CASE Tick
  BY <1>1, StoresAssumption DEF Tick, StoresTypeOK, Rows
<1>2. ASSUME NEW t \in Table, NEW j \in Jobs, NEW s \in Stamp, Land(t, j, s)
      PROVE  StoresTypeOK' /\ \A u \in Table : IsFiniteSet(Rows(u)')
  <2>1. StoresTypeOK' /\ Rows(t)' = Rows(t) \cup {j}
    BY <1>2, LandIs
  <2>2. \A u \in Table \ {t} : Rows(u)' = Rows(u)
    BY <1>2, LandIs DEF Rows
  <2>3. IsFiniteSet(Rows(t)')
    BY <2>1, FS_AddElement
  <2> QED  BY <2>1, <2>2, <2>3
<1> QED  BY <1>1, <1>2, EnvironmentIs

(* A run keeps its types; landing is not its own. *)
LEMMA RunType ==
  ASSUME IngestTypeOK, \A t \in Table : IsFiniteSet(Rows(t)),
         local \in [Runs -> [Table -> Watermark]], bucket \in [Table -> Watermark],
         NEW r \in Runs, StartRun(r) \/ RunStep(r) \/ Kill(r)
  PROVE  /\ IngestTypeOK'
         /\ local' \in [Runs -> [Table -> Watermark]]
         /\ bucket' \in [Table -> Watermark]
         /\ landing' = landing
<1> USE SourcesAreTable DEF IngestTypeOK, RunPhase
<1>1. CASE StartRun(r)
  <2>1. local' \in [Runs -> [Table -> Watermark]] /\ UNCHANGED <<storeVars, bucket>>
    BY <1>1 DEF StartRun
  <2> QED  BY <1>1, <2>1 DEF StartRun, storeVars, StoresTypeOK
<1>2. CASE Extract(r)
  <2> DEFINE t == SOURCES[source[r]]
             S == NewRows(t, local[r][t])
             rows == [j \in S |-> landing[t][j]]
             mark == Advance(t, local[r][t], S)
  <2>1. t \in Table /\ S \subseteq Rows(t)
    BY NewRowsAreRows
  <2>2. mark \in Watermark
    <3>1. local[r][t] \in Watermark /\ IsFiniteSet(Rows(t))
      BY <2>1
    <3> HIDE DEF t, S
    <3> QED  BY <2>1, <3>1, AdvanceIs
  <2>3. rows \in Contents
    <3>1. landing[t] \in Contents /\ S \subseteq DOMAIN landing[t]
      BY <2>1 DEF StoresTypeOK, Rows
    <3> HIDE DEF t, S
    <3> QED  BY <3>1, SliceIs
  <2>4. /\ batch' = [batch EXCEPT ![r] = rows]
        /\ local' = [local EXCEPT ![r][t] = mark]
        /\ at' = [at EXCEPT ![r] = "load"]
        /\ UNCHANGED <<storeVars, source, bucket, kills>>
    BY <1>2 DEF Extract
  <2> HIDE DEF t, rows, mark
  <2> QED  BY <2>1, <2>2, <2>3, <2>4 DEF storeVars, StoresTypeOK
<1>3. CASE LoadChunk(r)
  <2> DEFINE t == SOURCES[source[r]]
  <2>1. PICK S \in SUBSET DOMAIN batch[r] :
          /\ iceberg' = [iceberg EXCEPT ![t] = Upsert(@, [j \in S |-> batch[r][j]])]
          /\ batch' = [batch EXCEPT ![r] = Without(@, S)]
    BY <1>3 DEF LoadChunk
  <2> DEFINE rows == [j \in S |-> batch[r][j]]
             new == Upsert(iceberg[t], rows)
             left == Without(batch[r], S)
  <2>2. rows \in Contents /\ left \in Contents
    BY SliceIs, WithoutIs
  <2>3. new \in Contents
    <3>1. iceberg[t] \in Contents
      BY DEF StoresTypeOK
    <3> HIDE DEF rows
    <3> QED  BY <2>2, <3>1, UpsertIs
  <2>4. iceberg' = [iceberg EXCEPT ![t] = new] /\ batch' = [batch EXCEPT ![r] = left]
    BY <2>1
  <2> HIDE DEF new, left, rows
  <2>5. UNCHANGED <<now, landing, at, source, local, bucket, kills>>
    BY <1>3 DEF LoadChunk
  <2> QED  BY <2>2, <2>3, <2>4, <2>5 DEF StoresTypeOK
<1>4. CASE Persist(r)
  <2>1. bucket' = local[r] /\ at' = [at EXCEPT ![r] = "persist"]
        /\ UNCHANGED <<storeVars, source, local, batch, kills>>
    BY <1>4 DEF Persist
  <2> QED  BY <2>1 DEF storeVars, StoresTypeOK
<1>5. CASE NextSource(r)
  <2>1. UNCHANGED <<storeVars, local, batch, bucket, kills>>
    BY <1>5 DEF NextSource
  <2>2. source' \in [Runs -> 1..3] /\ at' \in [Runs -> RunPhase]
    <3>1. CASE source[r] < 3 /\ source' = [source EXCEPT ![r] = source[r] + 1]
               /\ at' = [at EXCEPT ![r] = "extract"]
      <4>1. source[r] + 1 \in 1..3
        BY <3>1
      <4> QED  BY <3>1, <4>1
    <3>2. CASE source' = [source EXCEPT ![r] = 1] /\ at' = [at EXCEPT ![r] = "done"]
      BY <3>2
    <3> QED  BY <1>5, <3>1, <3>2 DEF NextSource
  <2> QED  BY <2>1, <2>2 DEF storeVars, StoresTypeOK
<1>6. CASE Kill(r)
  <2>1. local' \in [Runs -> [Table -> Watermark]]
    BY <1>6, FreshIs DEF Kill
  <2>2. batch' \in [Runs -> Contents]
    BY <1>6, NoRowsIs DEF Kill
  <2>3. kills' \in 0..MaxKills
    BY <1>6, IngestAssumption DEF Kill
  <2> QED  BY <1>6, <2>1, <2>2, <2>3 DEF Kill, storeVars, StoresTypeOK
<1> QED  BY <1>1, <1>2, <1>3, <1>4, <1>5, <1>6 DEF RunStep

(* The reset pod keeps its types, and takes only what it may.              *)
LEMMA ResetStepType ==
  ASSUME TInv, ResetStep
  PROVE  TInv' /\ UNCHANGED <<now, landing, at, source, local, batch, kills>>
<1> USE DEF TInv, ResetTypeOK, ResetEnded
<1>1. ASSUME UNCHANGED ingestVars
      PROVE  /\ IngestTypeOK'
             /\ local' \in [Runs -> [Table -> Watermark]]
             /\ bucket' \in [Table -> Watermark]
             /\ \A t \in Table : IsFiniteSet(Rows(t))'
             /\ UNCHANGED <<now, landing, at, source, local, batch, kills>>
  BY <1>1 DEF ingestVars, storeVars, runVars, IngestTypeOK, StoresTypeOK, Rows
<1>2. CASE StartReset
  <2>1. resets' \in 0..MaxResets
    BY <1>2, ResetAssumption DEF StartReset
  <2> QED  BY <1>1, <1>2, <2>1 DEF StartReset, Objects
<1>3. CASE PurgeTable
  <2>1. PICK t \in listed : /\ iceberg' = [iceberg EXCEPT ![t] = NoRows]
                            /\ listed' = listed \ {t}
    BY <1>3 DEF PurgeTable
  <2>2. /\ UNCHANGED <<now, landing, runVars, kills, reset, failed, resets>>
        /\ reset = "purge"
    BY <1>3 DEF PurgeTable
  <2>3. StoresTypeOK'
    BY <2>1, <2>2, NoRowsIs DEF IngestTypeOK, StoresTypeOK
  <2> QED  BY <2>1, <2>2, <2>3 DEF IngestTypeOK, runVars, Rows
<1>4. CASE DropNamespace
  <2>1. reset' \in {"failed", "find"} /\ listed' = {} /\ (reset' = "failed" => ~failed')
    BY <1>4 DEF DropNamespace, EndReset
  <2> QED  BY <1>1, <1>4, <2>1 DEF DropNamespace
<1>5. CASE FindObjects
  <2>1. listed' \subseteq Objects /\ reset' = "remove"
    BY <1>5 DEF FindObjects, Objects
  <2> QED  BY <1>1, <1>5, <2>1 DEF FindObjects
<1>6. CASE RemoveObject
  <2>1. PICK o \in listed :
          /\ listed' = listed \ {o}
          /\ \/ /\ bucket' = IF o \in Table THEN bucket ELSE Fresh
                /\ iceberg' = [t \in Table |-> IF t = o THEN NoRows ELSE iceberg[t]]
             \/ UNCHANGED <<bucket, iceberg>>
    BY <1>6 DEF RemoveObject
  <2>2. /\ UNCHANGED <<now, landing, at, source, local, batch, kills, reset, resets>>
        /\ reset = "remove"
    BY <1>6 DEF RemoveObject
  <2>3. iceberg' \in [Table -> Contents]
    BY <2>1, NoRowsIs DEF IngestTypeOK, StoresTypeOK
  <2>4. bucket' \in [Table -> Watermark]
    BY <2>1, FreshIs
  <2> QED  BY <2>1, <2>2, <2>3, <2>4 DEF IngestTypeOK, StoresTypeOK, Rows
<1>7. CASE FinishReset
  <2>1. reset' \in {"failed", "ok"} /\ listed' = {} /\ ~failed'
    BY <1>7 DEF FinishReset, EndReset
  <2> QED  BY <1>1, <1>7, <2>1 DEF FinishReset
<1>8. CASE ResetFails
  <2>1. reset' = "failed" /\ listed' = {} /\ ~failed'
    BY <1>8 DEF ResetFails, EndReset
  <2> QED  BY <1>1, <1>8, <2>1 DEF ResetFails
<1> QED  BY <1>2, <1>3, <1>4, <1>5, <1>6, <1>7, <1>8 DEF ResetStep

LEMMA ResetTypeStep == TInv /\ [ResetNext]_resetSpecVars => TInv'
<1> SUFFICES ASSUME TInv, [ResetNext]_resetSpecVars PROVE TInv'
  OBVIOUS
<1>1. CASE ResetStep
  BY <1>1, ResetStepType
<1>2. CASE IngestNext /\ UNCHANGED <<reset, listed, failed, resets, dirty>>
  <2>1. ASSUME NEW r \in Runs, StartRun(r) \/ RunStep(r) \/ Kill(r) PROVE TInv'
    BY <1>2, <2>1, RunType DEF TInv, ResetTypeOK, Rows
  <2>2. CASE Environment /\ UNCHANGED <<runVars, kills>>
    BY <1>2, <2>2, LandingType DEF TInv, ResetTypeOK, IngestTypeOK, runVars
  <2> QED  BY <1>2, <2>1, <2>2 DEF IngestNext
<1>3. CASE UNCHANGED resetSpecVars
  BY <1>3 DEF resetSpecVars, ingestVars, storeVars, runVars, resetVars, TInv,
              ResetTypeOK, IngestTypeOK, StoresTypeOK, Rows
<1> QED  BY <1>1, <1>2, <1>3 DEF ResetNext

LEMMA TypesHold == ResetSpec => []TInv
BY ResetTypeInit, ResetTypeStep, PTL DEF ResetSpec

(* The stores, the dlt state, the run and the reset keep their types: in   *)
(* particular no run goes past the last source and no reset lists what it  *)
(* may not delete.                                                         *)
THEOREM ResetTypeCorrect == ResetSpec => []ResetTypeOK
<1>1. TInv => ResetTypeOK
  BY DEF TInv
<1> QED  BY <1>1, TypesHold, PTL
-----------------------------------------------------------------------------
(* What a watermark passes, and what it must not.                          *)

CursorIn(f, t, j) == IF t = "mon_jdls" THEN j ELSE f[j]

(* Passed, of Ingest, for any contents f of table t and any watermark.     *)
PassedIn(f, t, w, j) ==
  LET c == CursorIn(f, t, j) IN
  /\ c >= InitialValue[t]
  /\ c < w.last \/ (c = w.last /\ j \in w.edge)

(* A sound watermark has been there: a row is at or above it.              *)
Sound(f, t, w) ==
  /\ w.last = InitialValue[t] \/ \E j \in DOMAIN f : w.last <= CursorIn(f, t, j)
  /\ \A j \in w.edge : j \in DOMAIN f /\ w.last <= CursorIn(f, t, j)

(* The rows that w passes are in g, in the version of f. *)
Covers(f, t, w, g) ==
  \A j \in DOMAIN f : PassedIn(f, t, w, j) => j \in DOMAIN g /\ g[j] = f[j]

LEMMA CursorInIsNat ==
  ASSUME NEW f \in Contents, NEW t, NEW j \in DOMAIN f
  PROVE  CursorIn(f, t, j) \in Nat
<1>1. j \in Jobs /\ f[j] \in Stamp
  BY ContentsIs
<1>2. Stamp \subseteq Nat /\ Jobs \subseteq Nat
  BY StoresAssumption DEF Stamp
<1> QED  BY <1>1, <1>2 DEF CursorIn

LEMMA InitialIsNat == \A t \in Table : InitialValue[t] \in Nat
BY IngestAssumption

LEMMA FreshPassesNothing ==
  ASSUME NEW f \in Contents, NEW t \in Table
  PROVE  Sound(f, t, Fresh[t]) /\ \A j \in DOMAIN f : ~ PassedIn(f, t, Fresh[t], j)
<1>1. Fresh[t] = [last |-> InitialValue[t], edge |-> {}]
  BY DEF Fresh
<1> QED  BY <1>1, CursorInIsNat, InitialIsNat DEF Sound, PassedIn

(* A row that lands on time is not passed by any sound watermark.          *)
LEMMA OnTimeIsNotPassed ==
  ASSUME NEW f \in Contents, NEW g \in Contents, NEW t \in Table, NEW j \in Jobs,
         NEW s \in Nat, NEW n \in Nat,
         DOMAIN g = DOMAIN f \cup {j}, g[j] = s,
         \A k \in DOMAIN f \ {j} : g[k] = f[k],
         t = "mon_jdls" => j \notin DOMAIN f /\ \A k \in DOMAIN f : k <= j,
         t # "mon_jdls" => /\ s = n /\ (j \in DOMAIN f => f[j] < s)
                           /\ \A k \in DOMAIN f : f[k] <= n,
         NEW w \in Watermark, Sound(f, t, w)
  PROVE  /\ Sound(g, t, w)
         /\ ~ PassedIn(g, t, w, j)
         /\ \A k \in DOMAIN f \ {j} : PassedIn(g, t, w, k) <=> PassedIn(f, t, w, k)
<1>1. \A k \in DOMAIN f : CursorIn(f, t, k) \in Nat /\ CursorIn(g, t, k) \in Nat
  BY CursorInIsNat
<1>2. CursorIn(g, t, j) \in Nat
  BY CursorInIsNat
<1>3. w.last \in Nat /\ InitialValue[t] \in Nat
  BY InitialIsNat DEF Watermark
<1>4. \A k \in DOMAIN f \ {j} : CursorIn(g, t, k) = CursorIn(f, t, k)
  BY DEF CursorIn
<1>5. \A k \in DOMAIN f : CursorIn(f, t, k) <= CursorIn(g, t, j)
  BY DEF CursorIn
<1>6. j \in DOMAIN f => CursorIn(f, t, j) < CursorIn(g, t, j)
  BY DEF CursorIn
<1>7. Sound(g, t, w)
  <2>1. \A k \in DOMAIN f : w.last <= CursorIn(f, t, k) => w.last <= CursorIn(g, t, k)
    BY <1>1, <1>2, <1>3, <1>4, <1>6
  <2> QED  BY <2>1 DEF Sound
<1>8. ~ PassedIn(g, t, w, j)
  <2> SUFFICES ASSUME PassedIn(g, t, w, j) PROVE FALSE
    OBVIOUS
  <2>1. CASE CursorIn(g, t, j) < w.last
    <3>1. w.last # InitialValue[t]
      BY <1>2, <1>3, <2>1 DEF PassedIn
    <3>2. PICK k \in DOMAIN f : w.last <= CursorIn(f, t, k)
      BY <3>1 DEF Sound
    <3> QED  BY <1>1, <1>2, <1>3, <1>5, <2>1, <3>2
  <2>2. CASE CursorIn(g, t, j) = w.last /\ j \in w.edge
    <3>1. j \in DOMAIN f /\ w.last <= CursorIn(f, t, j)
      BY <2>2 DEF Sound
    <3> QED  BY <1>1, <1>2, <1>3, <1>6, <2>2, <3>1
  <2> QED  BY <2>1, <2>2 DEF PassedIn
<1>9. \A k \in DOMAIN f \ {j} : PassedIn(g, t, w, k) <=> PassedIn(f, t, w, k)
  BY <1>4 DEF PassedIn
<1> QED  BY <1>7, <1>8, <1>9

(* One extraction passes every row of landing it may pass, and no row that *)
(* it neither takes nor had passed before.  f may hold more than landing.  *)
LEMMA AdvancePasses ==
  ASSUME StoresTypeOK, NEW t \in Table, IsFiniteSet(Rows(t)),
         NEW w \in Watermark, NEW f \in Contents, Rows(t) \subseteq DOMAIN f,
         \A j \in Rows(t) : f[j] = landing[t][j], Sound(f, t, w)
  PROVE  LET S == NewRows(t, w)
             v == Advance(t, w, S)
         IN  /\ v \in Watermark /\ Sound(f, t, v)
             /\ \A j \in DOMAIN f : PassedIn(f, t, w, j) => PassedIn(f, t, v, j)
             /\ \A j \in Rows(t) :
                  /\ PassedIn(f, t, v, j) => PassedIn(f, t, w, j) \/ j \in S
                  /\ CursorIn(f, t, j) >= InitialValue[t] => PassedIn(f, t, v, j)
<1> DEFINE S == NewRows(t, w)
           v == Advance(t, w, S)
<1>1. \A j \in Rows(t) : Cursor(t, j) = CursorIn(f, t, j)
  BY DEF Cursor, CursorIn
<1>2. /\ S \in SUBSET Rows(t)
      /\ \A j \in Rows(t) : j \notin S =>
           ~ (CursorIn(f, t, j) >= w.last) \/ (CursorIn(f, t, j) = w.last /\ j \in w.edge)
  BY <1>1 DEF NewRows
<1>3. \A j \in DOMAIN f : CursorIn(f, t, j) \in Nat
  BY CursorInIsNat
<1>4. /\ v \in Watermark /\ v.last >= w.last
      /\ v.last = w.last \/ \E j \in S : CursorIn(f, t, j) = v.last
      /\ v.last = w.last => w.edge \subseteq v.edge
      /\ \A j \in v.edge : \/ v.last = w.last /\ j \in w.edge
                           \/ j \in S /\ CursorIn(f, t, j) = v.last
      /\ \A j \in S : \/ CursorIn(f, t, j) < v.last
                      \/ CursorIn(f, t, j) = v.last /\ j \in v.edge
  <2> HIDE DEF S
  <2>1. /\ v \in Watermark /\ v.last >= w.last
        /\ v.last = w.last \/ \E j \in S : Cursor(t, j) = v.last
        /\ v.last = w.last => w.edge \subseteq v.edge
        /\ \A j \in v.edge : \/ v.last = w.last /\ j \in w.edge
                             \/ j \in S /\ Cursor(t, j) = v.last
        /\ \A j \in S : \/ Cursor(t, j) < v.last
                        \/ Cursor(t, j) = v.last /\ j \in v.edge
    BY <1>2, AdvanceIs
  <2> HIDE DEF v
  <2> QED  BY <1>1, <1>2, <2>1
<1>5. w.last \in Nat /\ v.last \in Nat
  <2> HIDE DEF v
  <2> QED  BY <1>4 DEF Watermark
<1> HIDE DEF S, v
<1>6. Sound(f, t, v)
  <2>1. v.last = InitialValue[t] \/ \E j \in DOMAIN f : v.last <= CursorIn(f, t, j)
    <3>1. CASE v.last = w.last
      BY <3>1 DEF Sound
    <3>2. CASE \E j \in S : CursorIn(f, t, j) = v.last
      BY <1>2, <1>5, <3>2
    <3> QED  BY <1>4, <3>1, <3>2
  <2>2. \A j \in v.edge : j \in DOMAIN f /\ v.last <= CursorIn(f, t, j)
    BY <1>2, <1>4, <1>5 DEF Sound
  <2> QED  BY <2>1, <2>2 DEF Sound
<1>7. ASSUME NEW j \in DOMAIN f
      PROVE  PassedIn(f, t, w, j) => PassedIn(f, t, v, j)
  BY <1>3, <1>4, <1>5 DEF PassedIn
<1>8. ASSUME NEW j \in Rows(t)
      PROVE  /\ PassedIn(f, t, v, j) => PassedIn(f, t, w, j) \/ j \in S
             /\ CursorIn(f, t, j) >= InitialValue[t] => PassedIn(f, t, v, j)
  <2>1. CursorIn(f, t, j) \in Nat /\ InitialValue[t] \in Nat
    BY <1>3, InitialIsNat
  <2>2. PassedIn(f, t, w, j) => PassedIn(f, t, v, j)
    BY <1>7
  <2>3. PassedIn(f, t, v, j) /\ j \notin S => PassedIn(f, t, w, j)
    BY <1>2, <1>4, <1>5, <2>1 DEF PassedIn
  <2>4. CursorIn(f, t, j) >= InitialValue[t] /\ j \in S => PassedIn(f, t, v, j)
    BY <1>4, <1>5, <2>1 DEF PassedIn
  <2>5. CursorIn(f, t, j) >= InitialValue[t] /\ j \notin S => PassedIn(f, t, w, j)
    BY <1>2, <1>5, <2>1 DEF PassedIn
  <2> QED  BY <2>2, <2>3, <2>4, <2>5
<1> QED  BY <1>4, <1>6, <1>7, <1>8 DEF S, v

(* What is extracted is in hand: the new watermark is covered by Iceberg   *)
(* and the hand.                                                           *)
LEMMA ExtractCovers ==
  ASSUME NEW f, NEW t, NEW w, NEW v, NEW ice, NEW S, Covers(f, t, w, ice),
         \A j \in DOMAIN f : PassedIn(f, t, v, j) =>
           PassedIn(f, t, w, j) \/ j \in S \/ (j \in DOMAIN ice /\ ice[j] = f[j])
  PROVE  Covers(f, t, v, Upsert(ice, [j \in S |-> f[j]]))
<1>0. PICK rows : rows = [j \in S |-> f[j]]
  OBVIOUS
<1>1. DOMAIN rows = S /\ \A j \in S : rows[j] = f[j]
  BY <1>0
<1>2. /\ DOMAIN Upsert(ice, rows) = DOMAIN ice \cup DOMAIN rows
      /\ \A j \in DOMAIN rows : Upsert(ice, rows)[j] = rows[j]
      /\ \A j \in DOMAIN ice \ DOMAIN rows : Upsert(ice, rows)[j] = ice[j]
  BY ONLY UpsertIs
<1>3. ASSUME NEW j \in DOMAIN f, PassedIn(f, t, v, j)
      PROVE  j \in DOMAIN Upsert(ice, rows) /\ Upsert(ice, rows)[j] = f[j]
  <2>1. CASE j \in S
    BY <1>1, <1>2, <2>1
  <2>2. CASE j \notin S
    <3>1. j \in DOMAIN ice /\ ice[j] = f[j]
      BY <1>3, <2>2 DEF Covers
    <3> QED  BY <1>1, <1>2, <2>2, <3>1
  <2> QED  BY <2>1, <2>2
<1>4. Covers(f, t, v, Upsert(ice, rows))
  BY <1>3 DEF Covers
<1> QED  BY <1>0, <1>4

(* A chunk that goes from the hand to Iceberg leaves both covered.         *)
LEMMA ChunkCovers ==
  ASSUME NEW f, NEW t, NEW b, NEW w, NEW ice, NEW hand, NEW S \in SUBSET DOMAIN hand,
         Covers(f, t, b, ice), Covers(f, t, w, Upsert(ice, hand)),
         \A j \in DOMAIN f : PassedIn(f, t, b, j) => PassedIn(f, t, w, j)
  PROVE  LET ice2 == Upsert(ice, [j \in S |-> hand[j]])
         IN  Covers(f, t, b, ice2) /\ Covers(f, t, w, Upsert(ice2, Without(hand, S)))
<1> DEFINE rows == [j \in S |-> hand[j]]
           ice2 == Upsert(ice, rows)
           hand2 == Without(hand, S)
<1>1. DOMAIN rows = S /\ \A j \in S : rows[j] = hand[j]
  OBVIOUS
<1> HIDE DEF rows
<1>2. /\ DOMAIN ice2 = DOMAIN ice \cup S
      /\ \A j \in S : ice2[j] = hand[j]
      /\ \A j \in DOMAIN ice \ S : ice2[j] = ice[j]
  <2>1. /\ DOMAIN Upsert(ice, rows) = DOMAIN ice \cup DOMAIN rows
        /\ \A j \in DOMAIN rows : Upsert(ice, rows)[j] = rows[j]
        /\ \A j \in DOMAIN ice \ DOMAIN rows : Upsert(ice, rows)[j] = ice[j]
    BY UpsertIs
  <2> QED  BY <1>1, <2>1
<1>3. DOMAIN hand2 = DOMAIN hand \ S /\ \A j \in DOMAIN hand \ S : hand2[j] = hand[j]
  BY WithoutIs
<1>4. /\ DOMAIN Upsert(ice, hand) = DOMAIN ice \cup DOMAIN hand
      /\ \A j \in DOMAIN hand : Upsert(ice, hand)[j] = hand[j]
      /\ \A j \in DOMAIN ice \ DOMAIN hand : Upsert(ice, hand)[j] = ice[j]
  BY UpsertIs
<1> HIDE DEF ice2, hand2
<1>5. /\ DOMAIN Upsert(ice2, hand2) = DOMAIN ice2 \cup DOMAIN hand2
      /\ \A j \in DOMAIN hand2 : Upsert(ice2, hand2)[j] = hand2[j]
      /\ \A j \in DOMAIN ice2 \ DOMAIN hand2 : Upsert(ice2, hand2)[j] = ice2[j]
  BY UpsertIs
<1>6. \A j \in DOMAIN Upsert(ice, hand) :
        j \in DOMAIN Upsert(ice2, hand2) /\ Upsert(ice2, hand2)[j] = Upsert(ice, hand)[j]
  BY <1>2, <1>3, <1>4, <1>5
<1>7. Covers(f, t, w, Upsert(ice2, hand2))
  BY <1>6 DEF Covers
<1>8. ASSUME NEW j \in DOMAIN f, PassedIn(f, t, b, j)
      PROVE  j \in DOMAIN ice2 /\ ice2[j] = f[j]
  <2>1. /\ j \in DOMAIN ice /\ ice[j] = f[j]
        /\ Upsert(ice, hand)[j] = f[j]
    BY <1>8 DEF Covers
  <2> QED  BY <1>2, <1>4, <2>1
<1>9. Covers(f, t, b, ice2)
  BY <1>8 DEF Covers
<1> QED  BY <1>7, <1>9 DEF ice2, hand2, rows

-----------------------------------------------------------------------------
(* The inductive invariant.                                                *)

(* The rows of table t that run r has extracted and not yet loaded. *)
InHand(r, t) == IF at[r] = "load" /\ SOURCES[source[r]] = t THEN batch[r] ELSE NoRows

StampsPast ==
  \A t \in Table : t # "mon_jdls" => \A j \in Rows(t) : landing[t][j] <= now

AllSound ==
  \A t \in Table :
    /\ Sound(landing[t], t, bucket[t])
    /\ \A r \in Runs : at[r] \in Running => Sound(landing[t], t, local[r][t])

(* A run knows all that the state in the bucket has passed. *)
BucketBehind ==
  \A r \in Runs : at[r] \in Running =>
    \A t \in Table : \A j \in Rows(t) :
      PassedIn(landing[t], t, bucket[t], j) => PassedIn(landing[t], t, local[r][t], j)

(* What the bucket has passed is in Iceberg; what a run has passed is      *)
(* there, or in its hands.                                                 *)
Covered ==
  ~dirty => \A t \in Table :
    /\ Covers(landing[t], t, bucket[t], iceberg[t])
    /\ \A r \in Runs : at[r] \in Running =>
         Covers(landing[t], t, local[r][t], Upsert(iceberg[t], InHand(r, t)))

(* A reset without a run beside it finds no run active, and deletes the    *)
(* dlt state or fails.                                                     *)
ResetInOrder ==
  reset \notin ResetEnded =>
    /\ dirty
    /\ ~overlapped => \A r \in Runs : at[r] \notin Running
    /\ reset = "remove" /\ ~failed /\ ~overlapped =>
         bucket = Fresh \/ "_dlt_pipeline_state" \in listed

CleanInv ==
  TInv /\ StampsPast /\ AllSound /\ BucketBehind /\ Covered /\ ResetInOrder

OneRun == \A r, s \in Runs : r = s

LEMMA CleanInit == ResetInit => CleanInv
<1> SUFFICES ASSUME ResetInit PROVE CleanInv
  OBVIOUS
<1>1. TInv
  BY ResetTypeInit
<1> USE DEF ResetInit, IngestInit, StoresInit
<1>2. \A t \in Table : landing[t] \in Contents /\ Rows(t) = {} /\ DOMAIN landing[t] = {}
  BY NoRowsIs DEF Rows
<1>3. \A r \in Runs : at[r] \notin Running
  BY DEF Running
<1>4. \A t \in Table : bucket[t] = Fresh[t]
  OBVIOUS
<1>5. StampsPast /\ BucketBehind /\ ResetInOrder
  BY <1>2, <1>3 DEF StampsPast, BucketBehind, ResetInOrder, ResetEnded
<1>6. AllSound
  BY <1>2, <1>3, <1>4, FreshPassesNothing DEF AllSound
<1>7. Covered
  BY <1>2, <1>3 DEF Covered, Covers
<1> QED  BY <1>1, <1>5, <1>6, <1>7 DEF CleanInv

LEMMA EnvironmentKeeps ==
  ASSUME CleanInv, RowsLandOnTime, Environment, UNCHANGED <<runVars, kills>>,
         UNCHANGED <<reset, listed, failed, resets, dirty>>
  PROVE  StampsPast' /\ AllSound' /\ BucketBehind' /\ Covered'
<1>0. TInv /\ StoresTypeOK
  BY DEF CleanInv, TInv, ResetTypeOK, IngestTypeOK
<1>1. UNCHANGED <<at, source, local, batch, bucket, dirty>>
  BY DEF runVars
<1>2. CASE Tick
  <2>1. now' = now + 1 /\ UNCHANGED <<landing, iceberg>>
    BY <1>2 DEF Tick
  <2>2. StampsPast'
    <3>1. ASSUME NEW t \in Table, t # "mon_jdls", NEW j \in Rows(t)
          PROVE  landing[t][j] <= now + 1
      <4>1. landing[t][j] \in Nat
        BY <1>0, <3>1, CursorIsNat DEF Cursor
      <4>2. landing[t][j] <= now
        BY <3>1 DEF CleanInv, StampsPast
      <4>3. now \in Nat
        BY <1>0, StoresAssumption DEF StoresTypeOK
      <4> QED  BY <4>1, <4>2, <4>3
    <3> QED  BY <2>1, <3>1 DEF StampsPast, Rows
  <2> QED  BY <1>1, <2>1, <2>2 DEF CleanInv, AllSound, BucketBehind, Covered, InHand, Rows
<1>3. ASSUME NEW t \in Table, NEW j \in Jobs, NEW s \in Stamp,
             Land(t, j, s), OnTime(t, j, s)
      PROVE  StampsPast' /\ AllSound' /\ BucketBehind' /\ Covered'
  <2>1. /\ now' = now /\ iceberg' = iceberg
        /\ DOMAIN landing'[t] = DOMAIN landing[t] \cup {j} /\ landing'[t][j] = s
        /\ \A k \in DOMAIN landing[t] \ {j} : landing'[t][k] = landing[t][k]
        /\ \A u \in Table \ {t} : landing'[u] = landing[u]
        /\ landing'[t] \in Contents
    BY <1>0, <1>3, LandIs DEF Rows, StoresTypeOK
  <2>2. landing[t] \in Contents /\ now \in Nat /\ s \in Nat
    BY <1>0, StoresAssumption DEF StoresTypeOK, Stamp
  <2>3. /\ t = "mon_jdls" => j \notin DOMAIN landing[t] /\ \A k \in DOMAIN landing[t] : k <= j
        /\ t # "mon_jdls" => /\ s = now /\ (j \in DOMAIN landing[t] => landing[t][j] < s)
                             /\ \A k \in DOMAIN landing[t] : landing[t][k] <= now
    BY <1>3 DEF OnTime, CleanInv, StampsPast, Rows
  <2>4. ASSUME NEW w \in Watermark, Sound(landing[t], t, w)
        PROVE  /\ Sound(landing'[t], t, w)
               /\ ~ PassedIn(landing'[t], t, w, j)
               /\ \A k \in DOMAIN landing[t] \ {j} :
                    PassedIn(landing'[t], t, w, k) <=> PassedIn(landing[t], t, w, k)
    <3> DEFINE f == landing[t]
               g == landing'[t]
    <3>1. /\ f \in Contents /\ g \in Contents
          /\ DOMAIN g = DOMAIN f \cup {j} /\ g[j] = s
          /\ \A k \in DOMAIN f \ {j} : g[k] = f[k]
          /\ t = "mon_jdls" => j \notin DOMAIN f /\ \A k \in DOMAIN f : k <= j
          /\ t # "mon_jdls" => /\ s = now /\ (j \in DOMAIN f => f[j] < s)
                               /\ \A k \in DOMAIN f : f[k] <= now
          /\ Sound(f, t, w)
      BY <2>1, <2>2, <2>3, <2>4
    <3> HIDE DEF f, g
    <3>2. /\ Sound(g, t, w) /\ ~ PassedIn(g, t, w, j)
          /\ \A k \in DOMAIN f \ {j} : PassedIn(g, t, w, k) <=> PassedIn(f, t, w, k)
      BY <2>2, <3>1, OnTimeIsNotPassed
    <3> QED  BY <3>2 DEF f, g
  <2>5. ASSUME NEW w \in Watermark, Sound(landing[t], t, w), NEW g,
               Covers(landing[t], t, w, g)
        PROVE  Covers(landing'[t], t, w, g)
    BY <2>1, <2>4, <2>5 DEF Covers
  <2>6. \A u \in Table : /\ bucket[u] \in Watermark /\ Sound(landing[u], u, bucket[u])
                         /\ \A r \in Runs : at[r] \in Running =>
                              local[r][u] \in Watermark /\ Sound(landing[u], u, local[r][u])
    BY <1>0 DEF TInv, CleanInv, AllSound
  <2>7. StampsPast'
    <3>1. ASSUME NEW u \in Table, u # "mon_jdls", NEW k \in DOMAIN landing'[u]
          PROVE  landing'[u][k] <= now
      <4>1. CASE u = t
        BY <2>1, <2>2, <2>3, <3>1, <4>1
      <4>2. CASE u # t
        BY <2>1, <3>1, <4>2 DEF CleanInv, StampsPast, Rows
      <4> QED  BY <4>1, <4>2
    <3> QED  BY <2>1, <3>1 DEF StampsPast, Rows
  <2>8. AllSound'
    <3>1. \A u \in Table : Sound(landing'[u], u, bucket[u])
      BY <2>1, <2>4, <2>6
    <3>2. \A u \in Table : \A r \in Runs : at[r] \in Running => Sound(landing'[u], u, local[r][u])
      BY <2>1, <2>4, <2>6
    <3> QED  BY <1>1, <3>1, <3>2 DEF AllSound
  <2>9. BucketBehind'
    <3>1. ASSUME NEW r \in Runs, at[r] \in Running, NEW u \in Table,
                 NEW k \in DOMAIN landing'[u], PassedIn(landing'[u], u, bucket[u], k)
          PROVE  PassedIn(landing'[u], u, local[r][u], k)
      <4>1. CASE u = t
        <5>1. k # j
          BY <2>4, <2>6, <3>1, <4>1
        <5>2. k \in DOMAIN landing[t] \ {j}
          BY <2>1, <3>1, <4>1, <5>1
        <5>3. PassedIn(landing[t], t, bucket[t], k)
          BY <2>4, <2>6, <3>1, <4>1, <5>2
        <5>4. PassedIn(landing[t], t, local[r][t], k)
          BY <3>1, <5>2, <5>3 DEF CleanInv, BucketBehind, Rows
        <5> QED  BY <2>4, <2>6, <3>1, <4>1, <5>2, <5>4
      <4>2. CASE u # t
        BY <2>1, <3>1, <4>2 DEF CleanInv, BucketBehind, Rows
      <4> QED  BY <4>1, <4>2
    <3> QED  BY <1>1, <3>1 DEF BucketBehind, Rows
  <2>10. Covered'
    <3> SUFFICES ASSUME ~dirty, NEW u \in Table
                 PROVE  /\ Covers(landing'[u], u, bucket[u], iceberg[u])
                        /\ \A r \in Runs : at[r] \in Running =>
                             Covers(landing'[u], u, local[r][u], Upsert(iceberg[u], InHand(r, u)))
      BY <1>1, <2>1 DEF Covered, InHand
    <3>1. /\ Covers(landing[u], u, bucket[u], iceberg[u])
          /\ \A r \in Runs : at[r] \in Running =>
               Covers(landing[u], u, local[r][u], Upsert(iceberg[u], InHand(r, u)))
      BY DEF CleanInv, Covered
    <3>2. CASE u = t
      BY <2>5, <2>6, <3>1, <3>2
    <3>3. CASE u # t
      BY <2>1, <3>1, <3>3
    <3> QED  BY <3>2, <3>3
  <2> QED  BY <2>7, <2>8, <2>9, <2>10
<1> QED  BY <1>0, <1>2, <1>3, EnvironmentIs

(* With one run at a time, the invariant from what it says of that run.    *)
LEMMA OneRunKeeps ==
  ASSUME OneRun, CleanInv, NEW r \in Runs,
         landing' = landing, now' = now, dirty' = dirty,
         \A t \in Table : Sound(landing[t], t, bucket'[t]),
         at'[r] \in Running =>
           \A t \in Table :
             /\ Sound(landing[t], t, local'[r][t])
             /\ \A j \in DOMAIN landing[t] :
                  PassedIn(landing[t], t, bucket'[t], j)
                    => PassedIn(landing[t], t, local'[r][t], j),
         ~dirty => \A t \in Table :
           /\ Covers(landing[t], t, bucket'[t], iceberg'[t])
           /\ at'[r] \in Running =>
                Covers(landing[t], t, local'[r][t], Upsert(iceberg'[t], InHand(r, t)'))
  PROVE  StampsPast' /\ AllSound' /\ BucketBehind' /\ Covered'
<1>1. \A q \in Runs : q = r
  BY DEF OneRun
<1>2. StampsPast'
  BY DEF CleanInv, StampsPast, Rows
<1>3. AllSound'
  BY <1>1 DEF AllSound
<1>4. BucketBehind'
  BY <1>1 DEF BucketBehind, Rows
<1>5. Covered'
  BY <1>1 DEF Covered
<1> QED  BY <1>2, <1>3, <1>4, <1>5

(* What the invariant says of a run, without the quantifiers. *)
LEMMA RunBefore ==
  ASSUME CleanInv, NEW r \in Runs, NEW t \in Table
  PROVE  /\ landing[t] \in Contents /\ DOMAIN landing[t] = Rows(t)
         /\ iceberg[t] \in Contents /\ batch[r] \in Contents
         /\ local[r][t] \in Watermark /\ bucket[t] \in Watermark
         /\ local \in [Runs -> [Table -> Watermark]]
         /\ at \in [Runs -> RunPhase] /\ source \in [Runs -> 1..3]
         /\ SOURCES[source[r]] \in Table
         /\ Sound(landing[t], t, bucket[t])
         /\ ~dirty => Covers(landing[t], t, bucket[t], iceberg[t])
         /\ at[r] \in Running =>
              /\ Sound(landing[t], t, local[r][t])
              /\ \A j \in DOMAIN landing[t] :
                   PassedIn(landing[t], t, bucket[t], j)
                     => PassedIn(landing[t], t, local[r][t], j)
              /\ ~dirty => Covers(landing[t], t, local[r][t], Upsert(iceberg[t], InHand(r, t)))
<1>1. /\ landing[t] \in Contents /\ iceberg[t] \in Contents /\ batch[r] \in Contents
      /\ local \in [Runs -> [Table -> Watermark]] /\ bucket \in [Table -> Watermark]
      /\ at \in [Runs -> RunPhase] /\ source \in [Runs -> 1..3]
  BY DEF CleanInv, TInv, ResetTypeOK, IngestTypeOK, StoresTypeOK
<1>2. SOURCES[source[r]] \in Table
  BY <1>1, SourcesAreTable
<1>3. Sound(landing[t], t, bucket[t]) /\ (~dirty => Covers(landing[t], t, bucket[t], iceberg[t]))
  BY DEF CleanInv, AllSound, Covered
<1>4. at[r] \in Running =>
        /\ Sound(landing[t], t, local[r][t])
        /\ \A j \in DOMAIN landing[t] :
             PassedIn(landing[t], t, bucket[t], j) => PassedIn(landing[t], t, local[r][t], j)
        /\ ~dirty => Covers(landing[t], t, local[r][t], Upsert(iceberg[t], InHand(r, t)))
  BY DEF CleanInv, AllSound, BucketBehind, Covered, Rows
<1> QED  BY <1>1, <1>2, <1>3, <1>4 DEF Rows

(* Where no rows are in hand, Upsert adds nothing. *)
LEMMA UpsertOfNothing ==
  ASSUME NEW f, NEW t, NEW w, NEW g, NEW h, DOMAIN h = {}
  PROVE  Covers(f, t, w, Upsert(g, h)) <=> Covers(f, t, w, g)
<1>1. DOMAIN Upsert(g, h) = DOMAIN g \cup DOMAIN h
  BY UpsertIs
<1>2. \A j \in DOMAIN g \ DOMAIN h : Upsert(g, h)[j] = g[j]
  BY UpsertIs
<1> QED  BY <1>1, <1>2 DEF Covers

LEMMA StartKeeps ==
  ASSUME OneRun, CleanInv, NEW r \in Runs, StartRun(r), dirty' = dirty
  PROVE  StampsPast' /\ AllSound' /\ BucketBehind' /\ Covered'
<1>1. /\ UNCHANGED <<now, landing, iceberg, batch, bucket>>
      /\ \A t \in Table : local'[r] = bucket
      /\ at'[r] = "extract"
  <2>1. at \in [Runs -> RunPhase] /\ local \in [Runs -> [Table -> Watermark]]
    BY RunBefore, SourcesAreTable DEF CleanInv, TInv, ResetTypeOK, IngestTypeOK
  <2> QED  BY <2>1 DEF StartRun, storeVars
<1>2. \A t \in Table : InHand(r, t)' = NoRows
  BY <1>1 DEF InHand
<1>3. \A t \in Table :
        Sound(landing[t], t, bucket[t]) /\ (~dirty => Covers(landing[t], t, bucket[t], iceberg[t]))
  BY RunBefore
<1>4. \A t \in Table :
        Covers(landing[t], t, bucket[t], Upsert(iceberg[t], NoRows))
          <=> Covers(landing[t], t, bucket[t], iceberg[t])
  BY UpsertOfNothing, NoRowsIs
<1>5. \A t \in Table : bucket'[t] = bucket[t] /\ local'[r][t] = bucket[t]
  BY <1>1
<1> QED  BY OneRunKeeps, <1>1, <1>2, <1>3, <1>4, <1>5

LEMMA KillKeeps ==
  ASSUME OneRun, CleanInv, NEW r \in Runs, Kill(r), dirty' = dirty
  PROVE  StampsPast' /\ AllSound' /\ BucketBehind' /\ Covered'
<1>1. at'[r] \notin Running /\ UNCHANGED <<now, landing, iceberg, bucket>>
  BY DEF Kill, storeVars, Running, CleanInv, TInv, ResetTypeOK, IngestTypeOK
<1>2. \A t \in Table : Sound(landing[t], t, bucket[t])
  BY RunBefore
<1>3. ~dirty => \A t \in Table : Covers(landing[t], t, bucket[t], iceberg[t])
  BY RunBefore
<1> QED  BY OneRunKeeps, <1>1, <1>2, <1>3

LEMMA ExtractKeeps ==
  ASSUME OneRun, CleanInv, NEW r \in Runs, Extract(r), dirty' = dirty
  PROVE  StampsPast' /\ AllSound' /\ BucketBehind' /\ Covered'
<1>0. PICK t \in Table : t = SOURCES[source[r]]
  BY RunBefore, SourcesAreTable DEF CleanInv, TInv, ResetTypeOK, IngestTypeOK
<1> DEFINE S == NewRows(t, local[r][t])
           v == Advance(t, local[r][t], S)
           rows == [j \in S |-> landing[t][j]]
<1>1. /\ local \in [Runs -> [Table -> Watermark]] /\ at \in [Runs -> RunPhase]
      /\ batch \in [Runs -> Contents]
  BY DEF CleanInv, TInv, ResetTypeOK, IngestTypeOK
<1>2. at[r] = "extract" /\ at[r] \in Running
  BY DEF Extract, Running
<1>3. /\ UNCHANGED <<now, landing, iceberg, source, bucket>>
      /\ batch' = [batch EXCEPT ![r] = rows]
      /\ local' = [local EXCEPT ![r][t] = v]
      /\ at' = [at EXCEPT ![r] = "load"]
  BY <1>0 DEF Extract, storeVars
<1>4. /\ v \in Watermark /\ Sound(landing[t], t, v)
      /\ \A j \in Rows(t) :
           /\ PassedIn(landing[t], t, local[r][t], j) => PassedIn(landing[t], t, v, j)
           /\ PassedIn(landing[t], t, v, j) =>
                PassedIn(landing[t], t, local[r][t], j) \/ j \in S
  <2>1. /\ StoresTypeOK /\ IsFiniteSet(Rows(t)) /\ local[r][t] \in Watermark
        /\ landing[t] \in Contents /\ Rows(t) = DOMAIN landing[t]
        /\ Sound(landing[t], t, local[r][t])
    BY <1>1, <1>2 DEF CleanInv, TInv, ResetTypeOK, IngestTypeOK, StoresTypeOK, AllSound, Rows
  <2> QED  BY <2>1, AdvancePasses
<1>5. S \subseteq DOMAIN landing[t]
  BY DEF NewRows, Rows
<1> HIDE DEF v, rows
<1>6. local'[r][t] = v /\ \A u \in Table \ {t} : local'[r][u] = local[r][u]
  BY <1>1, <1>3
<1>7. at'[r] = "load" /\ batch'[r] = rows /\ SOURCES[source'[r]] = t
  BY <1>0, <1>1, <1>3
<1> HIDE DEF S
<1>8. InHand(r, t)' = rows /\ \A u \in Table \ {t} : InHand(r, u)' = NoRows
  BY <1>7 DEF InHand
<1>9. \A u \in Table : InHand(r, u) = NoRows
  BY <1>2 DEF InHand
<1>10. ASSUME NEW u \in Table
       PROVE  /\ Sound(landing[u], u, local'[r][u])
              /\ \A j \in DOMAIN landing[u] :
                   PassedIn(landing[u], u, bucket[u], j)
                     => PassedIn(landing[u], u, local'[r][u], j)
  <2>1. /\ Sound(landing[u], u, local[r][u])
        /\ \A j \in DOMAIN landing[u] :
             PassedIn(landing[u], u, bucket[u], j) => PassedIn(landing[u], u, local[r][u], j)
    BY <1>2, RunBefore
  <2> QED  BY <1>4, <1>6, <2>1 DEF Rows
<1>11. ASSUME ~dirty, NEW u \in Table
       PROVE  Covers(landing[u], u, local'[r][u], Upsert(iceberg[u], InHand(r, u)'))
  <2>1. Covers(landing[u], u, local[r][u], iceberg[u])
    BY <1>2, <1>9, <1>11, RunBefore, UpsertOfNothing, NoRowsIs
  <2>2. CASE u = t
    <3>4. Covers(landing[t], t, v, Upsert(iceberg[t], rows))
      <4>1. Covers(landing[t], t, local[r][t], iceberg[t])
        BY <2>1, <2>2
      <4> QED  BY <1>4, <4>1, ExtractCovers DEF rows, Rows
    <3>5. local'[r][u] = v /\ InHand(r, u)' = rows
      BY <1>6, <1>8, <2>2
    <3> QED  BY <2>2, <3>4, <3>5
  <2>3. CASE u # t
    <3>1. Covers(landing[u], u, local[r][u], Upsert(iceberg[u], NoRows))
      BY <2>1, UpsertOfNothing, NoRowsIs
    <3>2. local'[r][u] = local[r][u] /\ InHand(r, u)' = NoRows
      BY <1>6, <1>8, <2>3
    <3> QED  BY <3>1, <3>2
  <2> QED  BY <2>2, <2>3
<1>12. \A u \in Table :
         Sound(landing[u], u, bucket[u]) /\ (~dirty => Covers(landing[u], u, bucket[u], iceberg[u]))
  BY RunBefore
<1>13. bucket' = bucket /\ iceberg' = iceberg /\ landing' = landing /\ now' = now
  BY <1>3
<1> QED  BY OneRunKeeps, <1>10, <1>11, <1>12, <1>13

LEMMA LoadKeeps ==
  ASSUME OneRun, CleanInv, NEW r \in Runs, LoadChunk(r), dirty' = dirty
  PROVE  StampsPast' /\ AllSound' /\ BucketBehind' /\ Covered'
<1>0. PICK t \in Table : t = SOURCES[source[r]]
  BY RunBefore, SourcesAreTable DEF CleanInv, TInv, ResetTypeOK, IngestTypeOK
<1>1. PICK S \in SUBSET DOMAIN batch[r] :
        /\ iceberg' = [iceberg EXCEPT ![t] = Upsert(@, [j \in S |-> batch[r][j]])]
        /\ batch' = [batch EXCEPT ![r] = Without(@, S)]
  BY <1>0 DEF LoadChunk
<1>2. /\ at[r] = "load" /\ at[r] \in Running
      /\ UNCHANGED <<now, landing, at, source, local, bucket>>
  BY DEF LoadChunk, Running
<1>3. iceberg \in [Table -> Contents] /\ batch \in [Runs -> Contents]
  BY DEF CleanInv, TInv, ResetTypeOK, IngestTypeOK, StoresTypeOK
<1> DEFINE ice == iceberg[t]
           hand == batch[r]
           rows == [j \in S |-> hand[j]]
           ice2 == Upsert(ice, rows)
           hand2 == Without(hand, S)
<1>4. iceberg'[t] = ice2 /\ \A u \in Table \ {t} : iceberg'[u] = iceberg[u]
  BY <1>1, <1>3
<1>5. InHand(r, t) = hand /\ InHand(r, t)' = hand2
  BY <1>0, <1>1, <1>2, <1>3 DEF InHand
<1>6. \A u \in Table \ {t} : InHand(r, u) = NoRows /\ InHand(r, u)' = NoRows
  BY <1>0, <1>2 DEF InHand
<1>7. S \in SUBSET DOMAIN hand
  OBVIOUS
<1> HIDE DEF ice, hand
<1>13. ASSUME ~dirty
       PROVE  /\ Covers(landing[t], t, bucket[t], ice2)
              /\ Covers(landing[t], t, local[r][t], Upsert(ice2, hand2))
  <2>1. /\ Covers(landing[t], t, bucket[t], ice)
        /\ Covers(landing[t], t, local[r][t], Upsert(ice, hand))
        /\ \A j \in DOMAIN landing[t] :
             PassedIn(landing[t], t, bucket[t], j) => PassedIn(landing[t], t, local[r][t], j)
    BY <1>2, <1>5, <1>13, RunBefore DEF ice
  <2> QED  BY <1>7, <2>1, ChunkCovers
<1> HIDE DEF rows, ice2, hand2
<1>14. ASSUME ~dirty, NEW u \in Table, u # t
       PROVE  /\ Covers(landing[u], u, bucket[u], iceberg'[u])
              /\ Covers(landing[u], u, local[r][u], Upsert(iceberg'[u], InHand(r, u)'))
  <2>1. /\ Covers(landing[u], u, bucket[u], iceberg[u])
        /\ Covers(landing[u], u, local[r][u], Upsert(iceberg[u], InHand(r, u)))
    BY <1>2, <1>14, RunBefore
  <2>2. iceberg'[u] = iceberg[u] /\ InHand(r, u)' = InHand(r, u)
    BY <1>4, <1>6, <1>14
  <2> QED  BY <2>1, <2>2
<1>15. ~dirty => \A u \in Table :
         /\ Covers(landing[u], u, bucket[u], iceberg'[u])
         /\ Covers(landing[u], u, local[r][u], Upsert(iceberg'[u], InHand(r, u)'))
  BY <1>4, <1>5, <1>13, <1>14
<1>16. \A u \in Table :
         /\ Sound(landing[u], u, bucket[u]) /\ Sound(landing[u], u, local[r][u])
         /\ \A j \in DOMAIN landing[u] :
              PassedIn(landing[u], u, bucket[u], j) => PassedIn(landing[u], u, local[r][u], j)
  BY <1>2, RunBefore
<1>17. local' = local /\ bucket' = bucket /\ landing' = landing /\ now' = now
  BY <1>2
<1> QED  BY OneRunKeeps, <1>15, <1>16, <1>17

LEMMA PersistKeeps ==
  ASSUME OneRun, CleanInv, NEW r \in Runs, Persist(r), dirty' = dirty
  PROVE  StampsPast' /\ AllSound' /\ BucketBehind' /\ Covered'
<1>1. /\ at[r] = "load" /\ at[r] \in Running /\ DOMAIN batch[r] = {}
      /\ UNCHANGED <<now, landing, iceberg, source, local>>
      /\ bucket' = local[r] /\ at'[r] = "persist"
  BY DEF Persist, storeVars, Running, CleanInv, TInv, ResetTypeOK, IngestTypeOK
<1>2. \A u \in Table : DOMAIN InHand(r, u) = {} /\ InHand(r, u)' = NoRows
  BY <1>1, NoRowsIs DEF InHand
<1>3. ASSUME NEW u \in Table
      PROVE  /\ Sound(landing[u], u, local[r][u])
             /\ ~dirty => /\ Covers(landing[u], u, local[r][u], iceberg[u])
                          /\ Covers(landing[u], u, local[r][u], Upsert(iceberg[u], NoRows))
  <2>1. /\ Sound(landing[u], u, local[r][u])
        /\ ~dirty => Covers(landing[u], u, local[r][u], Upsert(iceberg[u], InHand(r, u)))
    BY <1>1, RunBefore
  <2>2. ~dirty => Covers(landing[u], u, local[r][u], iceberg[u])
    BY <1>2, <2>1, UpsertOfNothing
  <2> QED  BY <2>1, <2>2, UpsertOfNothing, NoRowsIs
<1>4. local' = local /\ iceberg' = iceberg /\ landing' = landing /\ now' = now
  BY <1>1
<1> QED  BY OneRunKeeps, <1>1, <1>2, <1>3, <1>4

LEMMA NextSourceKeeps ==
  ASSUME OneRun, CleanInv, NEW r \in Runs, NextSource(r), dirty' = dirty
  PROVE  StampsPast' /\ AllSound' /\ BucketBehind' /\ Covered'
<1>1. /\ at[r] = "persist" /\ at[r] \in Running
      /\ UNCHANGED <<now, landing, iceberg, local, bucket>>
      /\ at'[r] # "load"
  BY DEF NextSource, storeVars, Running, CleanInv, TInv, ResetTypeOK, IngestTypeOK
<1>2. \A u \in Table : InHand(r, u) = NoRows /\ InHand(r, u)' = NoRows
  BY <1>1 DEF InHand
<1>3. \A u \in Table :
        /\ Sound(landing[u], u, bucket[u]) /\ Sound(landing[u], u, local[r][u])
        /\ \A j \in DOMAIN landing[u] :
             PassedIn(landing[u], u, bucket[u], j) => PassedIn(landing[u], u, local[r][u], j)
        /\ ~dirty => /\ Covers(landing[u], u, bucket[u], iceberg[u])
                     /\ Covers(landing[u], u, local[r][u], Upsert(iceberg[u], NoRows))
  BY <1>1, <1>2, RunBefore
<1>4. local' = local /\ bucket' = bucket /\ iceberg' = iceberg /\ landing' = landing /\ now' = now
  BY <1>1
<1> QED  BY OneRunKeeps, <1>2, <1>3, <1>4

(* A run beside a reset is noticed. *)
LEMMA IngestKeepsOrder ==
  ASSUME CleanInv, IngestNext, UNCHANGED <<reset, listed, failed, resets, dirty>>,
         overlapped' = (overlapped \/ (reset \notin ResetEnded
                                         /\ \E r \in Runs : at'[r] \in Running))
  PROVE  ResetInOrder'
<1> SUFFICES ASSUME reset \notin ResetEnded
             PROVE  /\ dirty
                    /\ ~overlapped' => \A r \in Runs : at'[r] \notin Running
                    /\ reset = "remove" /\ ~failed /\ ~overlapped' =>
                         bucket' = Fresh \/ "_dlt_pipeline_state" \in listed
  BY DEF ResetInOrder
<1>1. /\ dirty
      /\ ~overlapped => \A r \in Runs : at[r] \notin Running
      /\ reset = "remove" /\ ~failed /\ ~overlapped =>
           bucket = Fresh \/ "_dlt_pipeline_state" \in listed
  BY DEF CleanInv, ResetInOrder
<1>2. ~overlapped' => ~overlapped /\ \A r \in Runs : at'[r] \notin Running
  OBVIOUS
<1>3. bucket' = bucket \/ \E r \in Runs : at[r] \in Running
  BY DEF IngestNext, StartRun, RunStep, Extract, LoadChunk, Persist, NextSource, Kill,
         runVars, Running
<1> QED  BY <1>1, <1>2, <1>3

LEMMA ResetKeeps ==
  ASSUME CleanInv, ResetStep
  PROVE  StampsPast' /\ AllSound' /\ BucketBehind' /\ Covered' /\ ResetInOrder'
<1>1. UNCHANGED <<now, landing, at, source, local, batch, kills>>
  BY ResetStepType DEF CleanInv
<1>2. StampsPast'
  BY <1>1 DEF CleanInv, StampsPast, Rows
<1>3. bucket' = bucket \/ bucket' = Fresh
  <2>1. RemoveObject => bucket' = bucket \/ bucket' = Fresh
    <3> SUFFICES ASSUME RemoveObject PROVE bucket' = bucket \/ bucket' = Fresh
      OBVIOUS
    <3> QED  BY DEF RemoveObject
  <2> QED  BY <2>1 DEF ResetStep, StartReset, PurgeTable, DropNamespace, FindObjects,
                       FinishReset, ResetFails, ingestVars, runVars
<1>4. ASSUME NEW t \in Table
      PROVE  /\ landing[t] \in Contents /\ DOMAIN landing[t] = Rows(t)
             /\ Sound(landing[t], t, bucket'[t])
             /\ \A j \in DOMAIN landing[t] :
                  PassedIn(landing[t], t, bucket'[t], j)
                    => PassedIn(landing[t], t, bucket[t], j)
  <2>1. landing[t] \in Contents /\ DOMAIN landing[t] = Rows(t) /\ Sound(landing[t], t, bucket[t])
    BY DEF CleanInv, TInv, ResetTypeOK, IngestTypeOK, StoresTypeOK, AllSound, Rows
  <2>2. CASE bucket' = bucket
    BY <2>1, <2>2
  <2>3. CASE bucket' = Fresh
    BY <2>1, <2>3, FreshPassesNothing
  <2> QED  BY <1>3, <2>2, <2>3
<1>5. AllSound'
  BY <1>1, <1>4 DEF CleanInv, AllSound
<1>6. BucketBehind'
  BY <1>1, <1>4 DEF CleanInv, BucketBehind, Rows
<1>7. reset \notin ResetEnded => dirty
  BY DEF CleanInv, ResetInOrder
<1>8. CASE StartReset
  <2>1. dirty' /\ reset' = "purge" /\ overlapped' = (ActiveRuns # {})
    BY <1>8 DEF StartReset
  <2>2. ResetInOrder'
    BY <1>1, <2>1 DEF ResetInOrder, ActiveRuns
  <2> QED  BY <1>2, <1>5, <1>6, <2>1, <2>2 DEF Covered
<1>9. CASE PurgeTable \/ DropNamespace \/ FindObjects \/ RemoveObject \/ ResetFails
  <2>1. dirty /\ dirty' = dirty /\ overlapped' = overlapped /\ reset \notin ResetEnded
    <3>1. reset \notin ResetEnded /\ UNCHANGED <<dirty, overlapped>>
      BY <1>9 DEF PurgeTable, DropNamespace, FindObjects, RemoveObject, ResetFails, ResetEnded
    <3> QED  BY <1>7, <3>1
  <2>2. Covered'
    BY <2>1 DEF Covered
  <2>3. ~overlapped => \A r \in Runs : at'[r] \notin Running
    BY <1>1, <2>1 DEF CleanInv, ResetInOrder
  <2>4. reset' = "remove" /\ ~failed' /\ ~overlapped' =>
          bucket' = Fresh \/ "_dlt_pipeline_state" \in listed'
    <3>1. CASE PurgeTable
      BY <3>1 DEF PurgeTable
    <3>2. CASE DropNamespace
      BY <3>2 DEF DropNamespace, EndReset
    <3>3. CASE FindObjects
      BY <3>3 DEF FindObjects, ingestVars, runVars
    <3>4. CASE RemoveObject
      <4>1. PICK o \in listed :
              /\ listed' = listed \ {o}
              /\ \/ /\ bucket' = IF o \in Table THEN bucket ELSE Fresh
                    /\ UNCHANGED failed
                 \/ failed' = FailedOr(TRUE)
        BY <3>4 DEF RemoveObject
      <4>2. failed' \/ (bucket' = bucket /\ o \in Table) \/ bucket' = Fresh
        BY <4>1 DEF FailedOr
      <4>3. "_dlt_pipeline_state" \notin Table
        BY DEF Table
      <4>4. reset = "remove" /\ (~failed' => ~failed)
        <5>1. (failed' = failed) \/ failed'
          BY <4>1, Zenon DEF FailedOr
        <5>2. ~failed' => ~failed
          BY <5>1, Zenon
        <5> QED  BY <3>4, <5>2 DEF RemoveObject
      <4>5. ~failed /\ ~overlapped => bucket = Fresh \/ "_dlt_pipeline_state" \in listed
        <5>1. ResetInOrder
          BY DEF CleanInv
        <5> QED  BY <2>1, <4>4, <5>1, Zenon DEF ResetInOrder
      <4>6. o \in Table /\ "_dlt_pipeline_state" \in listed => "_dlt_pipeline_state" \in listed'
        BY <4>1, <4>3
      <4> QED  BY <2>1, <4>2, <4>4, <4>5, <4>6
    <3>5. CASE ResetFails
      BY <3>5 DEF ResetFails, EndReset
    <3> QED  BY <1>9, <3>1, <3>2, <3>3, <3>4, <3>5
  <2>5. ResetInOrder'
    BY <2>1, <2>3, <2>4 DEF ResetInOrder
  <2> QED  BY <1>2, <1>5, <1>6, <2>2, <2>5
<1>10. CASE FinishReset
  <2>1. /\ reset = "remove" /\ listed = {} /\ UNCHANGED ingestVars
        /\ dirty' = (failed \/ overlapped) /\ reset' \in {"failed", "ok"}
    BY <1>10 DEF FinishReset, EndReset
  <2>2. ~dirty' => bucket' = Fresh /\ \A r \in Runs : at'[r] \notin Running
    BY <1>1, <2>1 DEF CleanInv, ResetInOrder, ResetEnded, ingestVars, runVars
  <2>3. Covered'
    <3>1. ASSUME ~dirty', NEW t \in Table PROVE Covers(landing[t], t, bucket'[t], iceberg'[t])
      BY <1>4, <2>2, <3>1, FreshPassesNothing DEF Covers
    <3> QED  BY <1>1, <2>2, <3>1 DEF Covered
  <2>4. ResetInOrder'
    BY <2>1 DEF ResetInOrder, ResetEnded
  <2> QED  BY <1>2, <1>5, <1>6, <2>3, <2>4
<1> QED  BY <1>8, <1>9, <1>10 DEF ResetStep

LEMMA CleanStep ==
  OneRun /\ RowsLandOnTime /\ CleanInv /\ [ResetNext]_resetSpecVars => CleanInv'
<1> SUFFICES ASSUME OneRun, RowsLandOnTime, CleanInv, [ResetNext]_resetSpecVars
             PROVE  CleanInv'
  OBVIOUS
<1>1. TInv'
  BY ResetTypeStep DEF CleanInv
<1>2. CASE ResetStep
  BY <1>1, <1>2, ResetKeeps DEF CleanInv
<1>3. CASE /\ IngestNext
           /\ overlapped' = (overlapped \/ (reset \notin ResetEnded
                                              /\ \E r \in Runs : at'[r] \in Running))
           /\ UNCHANGED <<reset, listed, failed, resets, dirty>>
  <2>1. ResetInOrder'
    BY <1>3, IngestKeepsOrder
  <2>2. StampsPast' /\ AllSound' /\ BucketBehind' /\ Covered'
    <3>1. ASSUME NEW r \in Runs, StartRun(r) \/ RunStep(r) \/ Kill(r)
          PROVE  StampsPast' /\ AllSound' /\ BucketBehind' /\ Covered'
      BY <1>3, <3>1, StartKeeps, ExtractKeeps, LoadKeeps, PersistKeeps, NextSourceKeeps,
         KillKeeps DEF RunStep
    <3>2. CASE Environment /\ UNCHANGED <<runVars, kills>>
      BY <1>3, <3>2, EnvironmentKeeps
    <3> QED  BY <1>3, <3>1, <3>2 DEF IngestNext
  <2> QED  BY <1>1, <2>1, <2>2 DEF CleanInv
<1>4. CASE UNCHANGED resetSpecVars
  BY <1>1, <1>4 DEF resetSpecVars, ingestVars, storeVars, runVars, resetVars, CleanInv,
       StampsPast, AllSound, BucketBehind, Covered, ResetInOrder, InHand, Rows
<1> QED  BY <1>2, <1>3, <1>4 DEF ResetNext

(* With one run-nightly at a time, and rows that land in cursor order: no  *)
(* persisted watermark passes a row that Iceberg lacks, whatever runs were *)
(* killed between which steps, and a reset that ended well next to no run  *)
(* left a clean slate, also after failed ones.                             *)
THEOREM CleanSlateCoversHolds ==
  OneRun /\ RowsLandOnTime /\ ResetSpec => []CleanSlateCovers
<1>1. CleanInv => CleanSlateCovers
  <2> SUFFICES ASSUME CleanInv, ~dirty PROVE WatermarkCovers
    BY DEF CleanSlateCovers
  <2>1. \A t \in Table : Covers(landing[t], t, bucket[t], iceberg[t])
    BY DEF CleanInv, Covered
  <2>2. \A t \in Table : \A j \in Rows(t) :
          Passed(t, j) => PassedIn(landing[t], t, bucket[t], j)
    BY DEF Passed, PassedIn, Cursor, CursorIn
  <2> QED  BY <2>1, <2>2 DEF WatermarkCovers, Covers, Rows, Replicated
<1>2. OneRun /\ RowsLandOnTime /\ ResetSpec => []CleanInv
  <2> SUFFICES ASSUME OneRun, RowsLandOnTime PROVE ResetSpec => []CleanInv
    OBVIOUS
  <2>1. CleanInv /\ [ResetNext]_resetSpecVars => CleanInv'
    BY CleanStep
  <2> QED  BY <2>1, CleanInit, PTL DEF ResetSpec
<1> QED  BY <1>1, <1>2, PTL
=============================================================================
