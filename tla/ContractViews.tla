--------------------------- MODULE ContractViews ---------------------------
(***************************************************************************)
(* views.py apply-views: compare the live columns of each table of `alice` *)
(* with the mapping of contract_columns.py, then replace the contract      *)
(* views, one Trino statement after the other.                             *)
(*                                                                         *)
(* Around it move the schema, which dlt evolves with every new JDL field   *)
(* (columns: evolve, data_type: freeze) and a reset empties, and the       *)
(* mapping, which an operator regenerates from the live columns.           *)
(***************************************************************************)
EXTENDS Jdl

CONSTANTS
  Jobs,                \* the job_ids considered, landing in order
  RawJdls,             \* the full_jdl values the writers produce
  SourceColumns,       \* the landing columns of job_info and trace
  ContractFields,      \* the JDL fields of the dtypes contract
  NulledFields,        \* those the shipped mapping renders as typed NULL
  ShippedPassthrough,  \* jdl__ columns outside the contract it passes on
  MaxResets,           \* bound on pipeline resets
  MaxRegenerations     \* bound on regenerated mappings

VARIABLES
  landed,     \* landing mon_jdls: job_id -> full_jdl
  rows,       \* the job_ids in the Iceberg table mon_jdls_parsed
  live,       \* live[t]: its columns, as <<name, type>>; {} without a table
  mapping,    \* the mapping of the deployed image
  views,      \* views[t]: what the contract view selects
  resets, regenerations,
  at,         \* where apply-views is
  tab,        \* index of the table it works on, in TABLE_SPECS
  strict,     \* --strict
  image,      \* the mapping of the running process
  reply,      \* pages of the current statement still to be fetched
  seen,       \* seen[t]: the columns SHOW COLUMNS has returned
  code,       \* exit code
  steady      \* history: mon_jdls_parsed columns live ever since the start

lakeVars == <<landed, rows, live, resets>>
applyVars == <<at, tab, strict, image, reply, seen, code>>
viewVars == <<lakeVars, mapping, views, regenerations, applyVars,
              steady>>

TABLE_SPECS == <<"job_info", "trace", "mon_jdls_parsed">>
Tables == {"job_info", "trace", "mon_jdls_parsed"}

NoColumn == "NULL"
Names(cols) == {c[1] : c \in cols}
JdlNames == {ColumnOf[k] : k \in Keys}

JOB_INFO_COLUMNS == {"job_id", "last_update"}
TRACE_COLUMNS == {"job_id", "laststatuschangetimestamp"}

DLT_METADATA_COLUMNS == {"_dlt_id"}
KNOWN_NON_CONTRACT_HELPERS == {"jdl_parse_ok", "full_jdl_raw", "full_jdl"}

(* The columns of mon_jdls_parsed that no JDL is needed for: the landing   *)
(* table's, the parser's, dlt's, and the declared full_jdl_raw.            *)
DeclaredColumns ==
  {"job_id", "full_jdl", "jdl_parse_ok", "_dlt_id", "full_jdl_raw"}

ASSUME ViewsAssumption ==
  /\ Jobs \subseteq Nat
  /\ RawJdls \subseteq RawJdl
  /\ JdlNames \cap (DeclaredColumns \cup {"job_id", NoColumn}) = {}
  /\ \A t \in DOMAIN SourceColumns : SourceColumns[t] \cap JdlNames = {}
  /\ ContractFields \subseteq Keys /\ NulledFields \subseteq ContractFields
  /\ ShippedPassthrough \subseteq JdlNames
  /\ DOMAIN SourceColumns = {"job_info", "trace"}
  /\ JOB_INFO_COLUMNS \subseteq SourceColumns["job_info"]
  /\ TRACE_COLUMNS \subseteq SourceColumns["trace"]
  /\ MaxResets \in Nat /\ MaxRegenerations \in Nat

(* A mapping, and in the same shape what a view selects. *)
Mapping == [columns : [ContractFields -> JdlNames \cup {NoColumn}],
            passthrough : SUBSET (JdlNames \cup DeclaredColumns
                                  \cup JOB_INFO_COLUMNS \cup TRACE_COLUMNS)]

MON_JDLS_PARSED_COLUMNS ==
  [f \in ContractFields |-> IF f \in NulledFields THEN NoColumn ELSE ColumnOf[f]]
MON_JDLS_PARSED_PASSTHROUGH ==
  (DeclaredColumns \ {"job_id"}) \cup ShippedPassthrough
Shipped == [columns |-> MON_JDLS_PARSED_COLUMNS,
            passthrough |-> MON_JDLS_PARSED_PASSTHROUGH]

NoFields == [f \in ContractFields |-> NoColumn]
NoView == [columns |-> NoFields, passthrough |-> {}]

(* build_view_ddl: the view of table t under mapping m. *)
View(t, m) ==
  CASE t = "job_info" -> [columns |-> NoFields, passthrough |-> JOB_INFO_COLUMNS]
    [] t = "trace" -> [columns |-> NoFields, passthrough |-> TRACE_COLUMNS]
    [] OTHER -> [m EXCEPT !.passthrough = @ \cup {"job_id"}]

(* The live columns a view selects. *)
Selected(v) ==
  ({v.columns[f] : f \in ContractFields} \ {NoColumn}) \cup v.passthrough

ViewsTypeOK ==
  /\ DOMAIN landed \subseteq Jobs /\ \A j \in DOMAIN landed : landed[j] \in RawJdls
  /\ rows \subseteq DOMAIN landed
  /\ \A t \in Tables : \A c \in live[t] : c[2] \in ValueType \cup {"native"}
  /\ mapping \in Mapping /\ image \in Mapping /\ views \in [Tables -> Mapping]
  /\ at \in {"show", "poll", "check", "schema", "ddl", "exit"}
  /\ tab \in 1..3 /\ strict \in BOOLEAN /\ code \in {0, 1, 2}
  /\ \A t \in Tables :
       Names(seen[t]) \subseteq JdlNames \cup DeclaredColumns
         \cup UNION {SourceColumns[u] : u \in DOMAIN SourceColumns}

ViewsInit ==
  /\ landed = <<>>
  /\ rows = {}
  /\ live = [t \in Tables |-> {}]
  /\ mapping = Shipped /\ image = Shipped
  /\ views = [t \in Tables |-> NoView]
  /\ resets = 0 /\ regenerations = 0
  /\ at = "exit" /\ tab = 1 /\ strict = FALSE /\ code = 1
  /\ reply = <<>>
  /\ seen = [t \in Tables |-> {}]
  /\ steady = {}

-----------------------------------------------------------------------------
(* The lake under the views.                                               *)

Insert(j, raw) ==
  /\ DOMAIN landed = {k \in Jobs : k < j}
  /\ landed' = [k \in DOMAIN landed \cup {j} |-> IF k = j THEN raw ELSE landed[k]]
  /\ UNCHANGED <<rows, live, resets>>

(* The first run-nightly with rows of job_info or trace creates the table. *)
LoadTable(t) ==
  /\ live[t] = {} /\ landed # <<>>
  /\ live' = [live EXCEPT ![t] = SourceColumns[t] \X {"native"}]
  /\ UNCHANGED <<landed, rows, resets>>

(* A column that has come with two types: data_type freeze rejects it.     *)
Conflict(cols) == \E c, d \in cols : c[1] = d[1] /\ c[2] # d[2]

(* run-nightly on mon_jdls: every new row is parsed, the schema evolves by *)
(* the columns of the package, and the rows S of it are committed before   *)
(* the run ends or is killed.                                              *)
LoadJdls(S) ==
  LET new == DOMAIN landed \ rows
      cols == live["mon_jdls_parsed"] \cup (DeclaredColumns \X {"native"})
                \cup UNION {JdlColumns(landed[j]) : j \in new}
  IN
  /\ S \subseteq new
  /\ S # {} \/ cols # live["mon_jdls_parsed"]
  /\ new # {} /\ ~Conflict(cols)
  /\ live' = [live EXCEPT !["mon_jdls_parsed"] = cols]
  /\ rows' = rows \cup S
  /\ UNCHANGED <<landed, resets>>

(* reset-pipeline.sh, completed: neither tables nor dlt state are left.    *)
(* The views live in another namespace and stay.                           *)
ResetPipeline ==
  /\ resets < MaxResets
  /\ resets' = resets + 1
  /\ rows' = {}
  /\ live' = [t \in Tables |-> {}]
  /\ UNCHANGED landed

Lake ==
  /\ \/ \E j \in Jobs, raw \in RawJdls : Insert(j, raw)
     \/ LoadTable("job_info") \/ LoadTable("trace")
     \/ \E S \in SUBSET Jobs : LoadJdls(S)
     \/ ResetPipeline
  /\ steady' = steady \cap Names(live'["mon_jdls_parsed"])
  /\ UNCHANGED <<mapping, views, regenerations, applyVars>>

(* How to regenerate this mapping, steps 2 to 4: contract fields point to  *)
(* their column where it is live, other live columns are passed through.   *)
MappingFor(names) ==
  LET columns == [f \in ContractFields |->
                    IF ColumnOf[f] \in names THEN ColumnOf[f] ELSE NoColumn]
  IN  [columns |-> columns,
       passthrough |-> names \ ({columns[f] : f \in ContractFields} \cup {"job_id"})]

Regenerate ==
  /\ regenerations < MaxRegenerations
  /\ live["mon_jdls_parsed"] # {}
  /\ mapping' = MappingFor(Names(live["mon_jdls_parsed"]))
  /\ mapping' # mapping
  /\ regenerations' = regenerations + 1
  /\ UNCHANGED <<lakeVars, views, applyVars, steady>>

-----------------------------------------------------------------------------
(* The drift check.                                                        *)

(* mutant: columns the mapping passes on are not known to the check *)
KnownWithoutPassthrough(t, m) ==
  ({View(t, m).columns[f] : f \in ContractFields} \ {NoColumn})
    \cup JOB_INFO_COLUMNS \cup TRACE_COLUMNS
    \cup DLT_METADATA_COLUMNS \cup KNOWN_NON_CONTRACT_HELPERS
KnownLiveColumns(t, m) ==
  Selected(View(t, m)) \cup DLT_METADATA_COLUMNS \cup KNOWN_NON_CONTRACT_HELPERS

UnmappedJdl(t) == (Names(seen[t]) \ KnownLiveColumns(t, image)) \cap JdlNames
MissingMapped(t) == Selected(View(t, image)) \ Names(seen[t])

(* mutant: only the last table is looked at *)
MissingInJobInfo == MissingMapped("job_info") # {}
AnyMissingMapped == \E t \in Tables : MissingMapped(t) # {}
AnyJdlDrift == \E t \in Tables : UnmappedJdl(t) # {}

(* mutant: drift is only reported *)
ExitCodeLenient == 0
ExitCode == IF strict /\ AnyJdlDrift THEN 2 ELSE 0

-----------------------------------------------------------------------------
(* The process.                                                            *)

StartApply(s) ==
  /\ at = "exit"
  /\ at' = "show" /\ tab' = 1 /\ strict' = s
  /\ image' = mapping
  /\ seen' = [t \in Tables |-> {}]
  /\ steady' = Names(live["mon_jdls_parsed"])
  /\ UNCHANGED <<lakeVars, mapping, views, regenerations, reply, code>>

Exit(c) ==
  /\ at' = "exit" /\ code' = c
  /\ tab' = 1 /\ reply' = <<>> /\ seen' = [t \in Tables |-> {}]

(* TrinoClient.run of SHOW COLUMNS: Trino evaluates it once and serves the *)
(* rows in pages.  A table that does not exist is an error.                *)
PostShowColumns ==
  LET cols == live[TABLE_SPECS[tab]]
      jdl == {c \in cols : c[1] \in JdlNames}
  IN
  /\ at = "show"
  /\ IF cols = {} THEN Exit(1)
     ELSE /\ at' = "poll"
          /\ reply' = <<cols \ jdl, jdl>>
          /\ UNCHANGED <<tab, code, seen>>
  /\ UNCHANGED <<lakeVars, mapping, views, regenerations,
                 strict, image, steady>>

(* One GET of nextUri: its rows, and the next statement after the last.    *)
PollNextUri ==
  LET t == TABLE_SPECS[tab] IN
  /\ at = "poll"
  /\ seen' = [seen EXCEPT ![t] = @ \cup Head(reply)]
  /\ reply' = Tail(reply)
  /\ IF Tail(reply) # <<>> THEN UNCHANGED <<at, tab>>
     ELSE IF tab < 3 THEN at' = "show" /\ tab' = tab + 1
     ELSE at' = "check" /\ tab' = 1
  /\ UNCHANGED <<lakeVars, mapping, views, regenerations,
                 strict, image, code, steady>>

(* run: ABORTED before DDL, or on to CREATE SCHEMA IF NOT EXISTS.          *)
CheckDrift ==
  /\ at = "check"
  /\ IF AnyMissingMapped THEN Exit(2)
     ELSE at' = "schema" /\ UNCHANGED <<tab, reply, code, seen>>
  /\ UNCHANGED <<lakeVars, mapping, views, regenerations,
                 strict, image, steady>>

CreateSchema ==
  /\ at = "schema"
  /\ at' = "ddl"
  /\ UNCHANGED <<lakeVars, mapping, views, regenerations,
                 tab, strict, image, reply, seen, code, steady>>

(* Trino accepts a view whose columns all exist at that moment. *)
Accepted(t) == Selected(View(t, image)) \subseteq Names(live[t])

(* mutant: one table too many *)
NextViewOffByOne ==
  IF tab <= 3 THEN tab' = tab + 1 /\ UNCHANGED <<at, reply, code, seen>>
  ELSE Exit(ExitCode)
NextView ==
  IF tab < 3 THEN tab' = tab + 1 /\ UNCHANGED <<at, reply, code, seen>>
  ELSE Exit(ExitCode)

(* mutant: a rejected view is skipped *)
CreateViewOrSkip ==
  LET t == TABLE_SPECS[tab] IN
  /\ at = "ddl"
  /\ views' = [views EXCEPT ![t] = IF Accepted(t) THEN View(t, image) ELSE @]
  /\ NextView
  /\ UNCHANGED <<lakeVars, mapping, regenerations, strict, image, steady>>

(* CREATE OR REPLACE VIEW of one table, in the order of TABLE_SPECS.       *)
CreateView ==
  LET t == TABLE_SPECS[tab] IN
  /\ at = "ddl"
  /\ IF Accepted(t)
     THEN views' = [views EXCEPT ![t] = View(t, image)] /\ NextView
     ELSE UNCHANGED views /\ Exit(1)
  /\ UNCHANGED <<lakeVars, mapping, regenerations, strict, image, steady>>

(* An error on any page, or an HTTP failure: TrinoClient.run raises.  What *)
(* Trino has executed by then stays.                                       *)
StatementFails ==
  LET t == TABLE_SPECS[tab] IN
  /\ at \in {"show", "poll", "schema", "ddl"}
  /\ \/ UNCHANGED views
     \/ at = "ddl" /\ Accepted(t) /\ views' = [views EXCEPT ![t] = View(t, image)]
  /\ Exit(1)
  /\ UNCHANGED <<lakeVars, mapping, regenerations, strict, image, steady>>

ApplyStep ==
  PostShowColumns \/ PollNextUri \/ CheckDrift \/ CreateSchema \/ CreateView

ViewsNext ==
  \/ Lake
  \/ Regenerate
  \/ \E s \in BOOLEAN : StartApply(s)
  \/ ApplyStep
  \/ StatementFails

ViewsSpec == ViewsInit /\ [][ViewsNext]_viewVars

-----------------------------------------------------------------------------
(* Properties.                                                             *)

(* The columns of the fields a JDL sets.                                   *)
ColumnsIn(raw) == {ColumnOf[k] : k \in FieldsIn(raw)}

(* The jdl__ columns of mon_jdls_parsed follow the data and nothing else:  *)
(* a loaded JDL has a column for every field it sets in either spelling    *)
(* and encoding, and no column comes from anything that never landed.      *)
SchemaFollowsData ==
  LET have == Names(live["mon_jdls_parsed"]) \cap JdlNames IN
  /\ \A j \in rows : ColumnsIn(landed[j]) \subseteq have
  /\ have \subseteq UNION {ColumnsIn(landed[j]) : j \in DOMAIN landed}

(* Whatever types a field comes with and in whatever order the rows land,  *)
(* no run is rejected by data_type freeze, which would fail every night    *)
(* from then on (_canonicalize_values).                                    *)
FreezeNeverTrips ==
  ~Conflict(live["mon_jdls_parsed"]
              \cup UNION {JdlColumns(landed[j]) : j \in DOMAIN landed})

(* A loaded row still has its JDL: every field that is set, as text, when  *)
(* it was readable in either encoding, and else flagged with the original  *)
(* landing text (parse_jdl).                                               *)
RowsKeepTheirJdl ==
  \A j \in rows :
    LET row == ParseJdl(landed[j]) IN
    IF Readable(landed[j])
    THEN row.jdl_parse_ok /\ {f \in row.jdl : f[2] # "null"}
                               = FieldsIn(landed[j]) \X {"text"}
    ELSE ~row.jdl_parse_ok /\ row.full_jdl_raw = landed[j]

(* No view is touched by a process that has seen a table lack a column one *)
(* of its views needs: the columns of all tables are compared before the   *)
(* first DDL statement (run).                                              *)
ViewsOnlyAfterCleanCheck ==
  [][views' # views => \A t \in Tables : MissingMapped(t) = {}]_viewVars

(* Exit code 0 means that every view is the one of the mapping that was    *)
(* run, failures, concurrent loads and resets notwithstanding (run).       *)
ExitZeroAppliesAll ==
  at = "exit" /\ code = 0 => \A t \in Tables : views[t] = View(t, image)

(* The cutover gate: after apply-views --strict has exited 0, the view of  *)
(* the JDLs serves every jdl__ column that has been live since the start.  *)
StrictGate ==
  at = "exit" /\ strict /\ code = 0 =>
    steady \cap JdlNames \subseteq Selected(views["mon_jdls_parsed"])

(* The regeneration procedure closes the gap: a run that began with the    *)
(* mapping regenerated from the columns then live, and saw no change of    *)
(* them, does not exit 2 (contract_columns.py, step 5).                    *)
GapCanBeClosed ==
  at = "exit" /\ code = 2 /\ steady = Names(live["mon_jdls_parsed"]) /\ steady # {}
    => image # MappingFor(steady)
=============================================================================
