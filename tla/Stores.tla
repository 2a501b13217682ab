------------------------------- MODULE Stores -------------------------------
(***************************************************************************)
(* The two stores every job of alice-ingest reads and writes:              *)
(*                                                                         *)
(*   landing   the landing PostgreSQL database, filled and updated by the  *)
(*             gen-1 monitoring writers (outside this repository) and      *)
(*             trimmed by retention.py;                                    *)
(*   iceberg   the Iceberg namespace `alice`, upserted by pipeline.py.     *)
(*                                                                         *)
(* A landing row is identified by its table and job_id.  What the code     *)
(* tells apart about its content is the value of its age column (job_info  *)
(* last_update, trace laststatuschangetimestamp): every update of a row    *)
(* moves it forward, so the stamp also names the version of the row.       *)
(* mon_jdls has no timestamp column; its rows carry NoStamp and are        *)
(* inserted once.  The stores are functions from the job_ids that have a   *)
(* row to the stamp of that row.                                           *)
(***************************************************************************)
EXTENDS Integers, FiniteSets

CONSTANTS
  Jobs,             \* the job_ids considered
  MaxTime,          \* bound of the clock, in days
  MaxLag,           \* how many days late a row may become visible in landing
  Feeds,            \* the landing tables the writers touch in this instance
  CorruptStamps,    \* trace stamps a writer with the wrong epoch unit produces
  OrderedLanding    \* TRUE: job_info, mon_jdls first land in job_id order

Table == {"job_info", "trace", "mon_jdls"}

ASSUME StoresAssumption ==
  /\ Jobs \subseteq Nat \ {0}
  /\ MaxTime \in Nat \ {0}
  /\ MaxLag \in Nat
  /\ Feeds \subseteq Table
  /\ CorruptStamps \subseteq Nat
  /\ OrderedLanding \in BOOLEAN

VARIABLES
  now,      \* the wall clock: it stamps rows and places the retention cutoff
  landing,  \* landing[t]: job_id -> stamp of the row of landing table t
  iceberg   \* iceberg[t]: job_id -> stamp of the version in the Iceberg table

storeVars == <<now, landing, iceberg>>

NoStamp == 0

Stamp == (0..MaxTime) \cup CorruptStamps

(* The contents a landing or Iceberg table may have. *)
Contents == UNION {[D -> Stamp] : D \in SUBSET Jobs}

Rows(t) == DOMAIN landing[t]
Replicated(t) == DOMAIN iceberg[t]

(* SQL INSERT .. ON CONFLICT (job_id) DO UPDATE, and dlt's upsert merge.   *)
Upsert(f, g) ==
  [j \in DOMAIN f \cup DOMAIN g |-> IF j \in DOMAIN g THEN g[j] ELSE f[j]]

(* SQL DELETE of the rows whose job_id is in S. *)
Without(f, S) == [j \in DOMAIN f \ S |-> f[j]]

NoRows == [j \in {} |-> NoStamp]

StoresInit ==
  /\ now = 1
  /\ landing = [t \in Table |-> NoRows]
  /\ iceberg = [t \in Table |-> NoRows]

StoresTypeOK ==
  /\ now \in 1..MaxTime
  /\ landing \in [Table -> Contents]
  /\ iceberg \in [Table -> Contents]

-----------------------------------------------------------------------------
(* The environment: the clock and the gen-1 writers.                       *)

Tick ==
  /\ now < MaxTime
  /\ now' = now + 1
  /\ UNCHANGED <<landing, iceberg>>

(* A source update always moves a row's stamp past what was seen before.   *)
Newer(t, j, s) ==
  /\ j \in Rows(t) => s > landing[t][j]
  /\ j \in Replicated(t) => s > iceberg[t][j]

(* job_ids are assigned in increasing order by the source system; with     *)
(* OrderedLanding the rows of each table first appear in that order too.   *)
LandsInOrder(t, j) ==
  \/ ~OrderedLanding
  \/ \A k \in Rows(t) \cup Replicated(t) : k <= j
  \/ j \in Rows(t) \cup Replicated(t)

Land(t, j, s) ==
  /\ landing' = [landing EXCEPT ![t] = Upsert(@, [k \in {j} |-> s])]
  /\ UNCHANGED <<now, iceberg>>

(* A job_info or trace row is inserted or updated.  The row may become     *)
(* visible up to MaxLag days after the stamp it carries.                   *)
WriteJobInfo(j) ==
  /\ "job_info" \in Feeds
  /\ LandsInOrder("job_info", j)
  /\ \E s \in (now - MaxLag)..now :
       /\ s > 0
       /\ Newer("job_info", j, s)
       /\ Land("job_info", j, s)

WriteTrace(j) ==
  /\ "trace" \in Feeds
  /\ \E s \in ((now - MaxLag)..now) \cup CorruptStamps :
       /\ s > 0 \/ s \in CorruptStamps
       /\ Newer("trace", j, s) \/ s \in CorruptStamps
       /\ Land("trace", j, s)

(* The JDL of a job is inserted once, before or after its job_info row.    *)
WriteMonJdls(j) ==
  /\ "mon_jdls" \in Feeds
  /\ j \notin Rows("mon_jdls") \cup Replicated("mon_jdls")
  /\ LandsInOrder("mon_jdls", j)
  /\ Land("mon_jdls", j, NoStamp)

Environment ==
  \/ Tick
  \/ \E j \in Jobs : WriteJobInfo(j) \/ WriteTrace(j) \/ WriteMonJdls(j)
=============================================================================
