---------------------------- MODULE ViewsProofs ----------------------------
(***************************************************************************)
(* What apply-views and the schema under it guarantee for every set of     *)
(* jobs, JDL texts, fields and mappings.                                   *)
(***************************************************************************)
EXTENDS ContractViews, MaxProofs

-----------------------------------------------------------------------------
(* What parse_jdl does to any JDL text: what can be read is kept whole, as *)
(* text, and what cannot is kept as it was.                                *)

LEMMA FirstNonNullIsIn ==
  ASSUME NEW fields, NEW S \in SUBSET Nat, S # {}
  PROVE  FirstNonNull(fields, S) \in S
BY LeastExists DEF FirstNonNull

-----------------------------------------------------------------------------
(* Decoding.                                                               *)

LEMMA RawJdlFields ==
  ASSUME NEW raw \in RawJdl
  PROVE  /\ raw.form \in {"null", "not text", "text"}
         /\ raw.escapes \in Nat
         /\ raw.root \in {"object", "other", "garbage"}
         /\ raw.fields \in Seq(Keys \X ValueType)
BY DEF RawJdl

LEMMA UnescapeOnce ==
  ASSUME NEW raw \in RawJdl
  PROVE  /\ Unescape(raw).form = raw.form
         /\ Unescape(raw).escapes = IF raw.escapes = 0 THEN 0 ELSE raw.escapes - 1
         /\ Unescape(raw).root = raw.root
         /\ Unescape(raw).fields = raw.fields
BY DEF Unescape, RawJdl

LEMMA ReadableDecodes ==
  ASSUME NEW raw \in RawJdl, Readable(raw)
  PROVE  raw.form # "null" /\ Decodable(raw) /\ Decode(raw).fields = raw.fields
<1>1. raw.escapes = 0 \/ raw.escapes = 1
  <2>1. raw.escapes \in Nat /\ raw.escapes <= 1
    BY RawJdlFields DEF Readable
  <2> QED  BY <2>1
<1>2. CASE raw.escapes = 0
  BY <1>2 DEF Readable, Decodable, Decode, IsJson
<1>3. CASE raw.escapes = 1
  <2>1. Unescape(raw).escapes = 0
    BY <1>3, UnescapeOnce
  <2>2. Decode(raw) = Unescape(raw)
    BY <1>3 DEF Readable, Decode, IsJson
  <2> QED  BY <2>1, <2>2, UnescapeOnce DEF Readable, Decodable, IsJson
<1> QED  BY <1>1, <1>2, <1>3

LEMMA OthersDoNot ==
  ASSUME NEW raw \in RawJdl, ~ Readable(raw)
  PROVE  ~ Decodable(raw)
<1>1. CASE raw.form # "text"
  BY <1>1 DEF Decodable, Decode, IsJson
<1>2. CASE raw.form = "text" /\ raw.root # "object"
  BY <1>2, UnescapeOnce DEF Decodable, Decode
<1>3. CASE raw.form = "text" /\ ~ (raw.escapes <= 1)
  <2>1. raw.escapes \in Nat /\ ~ (raw.escapes <= 1)
    BY <1>3, RawJdlFields
  <2>2. raw.escapes # 0 /\ raw.escapes - 1 # 0
    BY <2>1
  <2>3. Unescape(raw).escapes # 0
    BY <2>2, UnescapeOnce
  <2>4. Decode(raw) = Unescape(raw)
    BY <1>3, <2>2 DEF Decode, IsJson
  <2> QED  BY <2>3, <2>4 DEF Decodable, IsJson
<1> QED  BY <1>1, <1>2, <1>3 DEF Readable

-----------------------------------------------------------------------------
(* Merging the spellings of LPMPassName.                                   *)

LEMMA MergeType ==
  ASSUME NEW fields \in Seq(Keys \X ValueType)
  PROVE  MergeLpmCasing(fields) \subseteq Keys \X ValueType
<1> DEFINE nonNull == {i \in VariantsIn(fields) : fields[i][2] # "null"}
<1>1. nonNull \in SUBSET Nat /\ nonNull \subseteq DOMAIN fields
  BY DEF VariantsIn
<1>2. nonNull # {} => fields[FirstNonNull(fields, nonNull)] \in Keys \X ValueType
  <2> HAVE nonNull # {}
  <2>1. FirstNonNull(fields, nonNull) \in nonNull
    BY <1>1, FirstNonNullIsIn
  <2> QED  BY <1>1, <2>1
<1>3. LPM_CANONICAL_KEY \in Keys /\ "null" \in ValueType
  BY JdlAssumption DEF LPM_CANONICAL_KEY, ValueType
<1> QED  BY <1>1, <1>2, <1>3 DEF MergeLpmCasing, VariantsIn

(* A field that is set stays set under its one name. *)
LEMMA MergeKeeps ==
  ASSUME NEW fields \in Seq(Keys \X ValueType), NEW i \in DOMAIN fields,
         fields[i][2] # "null"
  PROVE  \E g \in MergeLpmCasing(fields) :
           g[1] = OneName(fields[i][1]) /\ g[2] # "null"
<1> DEFINE nonNull == {k \in VariantsIn(fields) : fields[k][2] # "null"}
<1>1. CASE fields[i][1] \in LpmVariants
  <2>1. i \in nonNull /\ nonNull \in SUBSET Nat
    BY <1>1 DEF VariantsIn
  <2>2. FirstNonNull(fields, nonNull) \in nonNull
    BY <2>1, FirstNonNullIsIn
  <2>3. <<LPM_CANONICAL_KEY, fields[FirstNonNull(fields, nonNull)][2]>>
          \in MergeLpmCasing(fields)
    BY <2>1 DEF MergeLpmCasing
  <2> QED  BY <1>1, <2>2, <2>3 DEF OneName
<1>2. CASE fields[i][1] \notin LpmVariants
  BY <1>2 DEF MergeLpmCasing, VariantsIn, OneName
<1> QED  BY <1>1, <1>2

(* Nothing is set that no field has set. *)
LEMMA MergeInventsNothing ==
  ASSUME NEW fields \in Seq(Keys \X ValueType),
         NEW g \in MergeLpmCasing(fields), g[2] # "null"
  PROVE  \E i \in DOMAIN fields :
           fields[i][2] # "null" /\ g[1] = OneName(fields[i][1])
<1> DEFINE nonNull == {k \in VariantsIn(fields) : fields[k][2] # "null"}
<1>1. ASSUME NEW i \in DOMAIN fields \ VariantsIn(fields), g = fields[i]
      PROVE  g[1] = OneName(fields[i][1])
  BY <1>1 DEF VariantsIn, OneName
<1>2. ASSUME NEW v, g = <<LPM_CANONICAL_KEY, v>>,
             v = IF nonNull = {} THEN "null"
                 ELSE fields[FirstNonNull(fields, nonNull)][2]
      PROVE  \E i \in DOMAIN fields :
               fields[i][2] # "null" /\ g[1] = OneName(fields[i][1])
  <2>1. nonNull # {} /\ nonNull \in SUBSET Nat
    BY <1>2 DEF VariantsIn
  <2>2. FirstNonNull(fields, nonNull) \in nonNull
    BY <2>1, FirstNonNullIsIn
  <2> QED  BY <1>2, <2>2 DEF VariantsIn, OneName
<1> QED  BY <1>1, <1>2 DEF MergeLpmCasing

-----------------------------------------------------------------------------
(* parse_jdl.                                                              *)

SetFields(raw) == {f \in ParseJdl(raw).jdl : f[2] # "null"}

LEMMA ReadableIsKept ==
  ASSUME NEW raw \in RawJdl, Readable(raw)
  PROVE  /\ ParseJdl(raw).jdl_parse_ok
         /\ SetFields(raw) = FieldsIn(raw) \X {"text"}
<1> DEFINE fields == raw.fields
<1>1. fields \in Seq(Keys \X ValueType)
  BY DEF RawJdl
<1>2. /\ ParseJdl(raw).jdl_parse_ok
      /\ ParseJdl(raw).jdl = {<<f[1], Canonical(f[2])>> : f \in MergeLpmCasing(fields)}
  BY ReadableDecodes DEF ParseJdl
<1>3. \A type : Canonical(type) # "null" => type # "null" /\ Canonical(type) = "text"
  BY DEF Canonical
<1>4. \A type : type # "null" => Canonical(type) = "text"
  BY DEF Canonical
<1>5. ASSUME NEW f \in SetFields(raw)
      PROVE  f \in FieldsIn(raw) \X {"text"}
  <2>1. PICK g \in MergeLpmCasing(fields) : f = <<g[1], Canonical(g[2])>>
    BY <1>2 DEF SetFields
  <2>2. g[2] # "null" /\ Canonical(g[2]) = "text"
    BY <1>3, <2>1 DEF SetFields
  <2>3. PICK i \in DOMAIN fields : fields[i][2] # "null" /\ g[1] = OneName(fields[i][1])
    BY <1>1, <2>2, MergeInventsNothing
  <2> QED  BY <2>1, <2>2, <2>3 DEF FieldsIn
<1>6. ASSUME NEW k \in FieldsIn(raw)
      PROVE  <<k, "text">> \in SetFields(raw)
  <2>1. PICK i \in DOMAIN fields : fields[i][2] # "null" /\ k = OneName(fields[i][1])
    BY DEF FieldsIn
  <2>2. PICK g \in MergeLpmCasing(fields) : g[1] = k /\ g[2] # "null"
    BY <1>1, <2>1, MergeKeeps
  <2> QED  BY <1>2, <1>4, <2>2 DEF SetFields
<1> QED  BY <1>2, <1>5, <1>6

LEMMA OthersArePreserved ==
  ASSUME NEW raw \in RawJdl, ~ Readable(raw)
  PROVE  /\ ~ ParseJdl(raw).jdl_parse_ok
         /\ ParseJdl(raw).full_jdl_raw = raw
         /\ SetFields(raw) = {} /\ FieldsIn(raw) = {}
BY OthersDoNot DEF ParseJdl, Preserved, SetFields, FieldsIn

LEMMA FieldsAreKeys ==
  ASSUME NEW raw \in RawJdl
  PROVE  FieldsIn(raw) \subseteq Keys
<1>1. \A i \in DOMAIN raw.fields : raw.fields[i] \in Keys \X ValueType
  <2>1. raw.fields \in Seq(Keys \X ValueType)
    BY RawJdlFields
  <2> QED  BY <2>1
<1>2. \A i \in DOMAIN raw.fields : OneName(raw.fields[i][1]) \in Keys
  BY <1>1, JdlAssumption DEF OneName, LPM_CANONICAL_KEY
<1> QED  BY <1>2 DEF FieldsIn

(* Every JDL value of a loaded row is text. *)
LEMMA JdlColumnsAreText ==
  ASSUME NEW raw \in RawJdl
  PROVE  JdlColumns(raw) = {ColumnOf[k] : k \in FieldsIn(raw)} \X {"text"}
<1>1. SetFields(raw) = FieldsIn(raw) \X {"text"}
  BY ReadableIsKept, OthersArePreserved
<1>2. JdlColumns(raw) = {<<ColumnOf[f[1]], f[2]>> : f \in SetFields(raw)}
  BY DEF JdlColumns, SetFields
<1>3. ASSUME NEW c \in JdlColumns(raw)
      PROVE  c \in {ColumnOf[k] : k \in FieldsIn(raw)} \X {"text"}
  <2>1. PICK f \in SetFields(raw) : c = <<ColumnOf[f[1]], f[2]>>
    BY <1>2
  <2>2. f[1] \in FieldsIn(raw) /\ f[2] = "text"
    BY <1>1
  <2> QED  BY <2>1, <2>2
<1>4. ASSUME NEW k \in FieldsIn(raw)
      PROVE  <<ColumnOf[k], "text">> \in JdlColumns(raw)
  <2>1. <<k, "text">> \in SetFields(raw)
    BY <1>1
  <2> QED  BY <1>2, <2>1
<1> QED  BY <1>3, <1>4

-----------------------------------------------------------------------------
(* The inductive invariant. *)

ColumnNames ==
  JdlNames \cup DeclaredColumns
    \cup UNION {SourceColumns[u] : u \in DOMAIN SourceColumns}
Column == ColumnNames \X (ValueType \cup {"native"})

TypeInv ==
  /\ ViewsTypeOK
  /\ live \in [Tables -> SUBSET Column]
  /\ seen \in [Tables -> SUBSET Column]
  /\ reply \in Seq(SUBSET Column)
  /\ at = "poll" => reply # <<>>

(* The columns of mon_jdls_parsed have one type each. *)
LiveTyped ==
  live["mon_jdls_parsed"]
    \subseteq (JdlNames \X {"text"}) \cup (DeclaredColumns \X {"native"})

(* DDL is reached only by a process that saw nothing missing. *)
CheckedFirst ==
  /\ at \in {"schema", "ddl"} => \A t \in Tables : MissingMapped(t) = {}
  /\ at \in {"check", "schema"} => tab = 1

(* The views are replaced in the order of TABLE_SPECS. *)
AppliedInOrder ==
  /\ at = "ddl" => \A i \in 1..3 : i < tab =>
       views[TABLE_SPECS[i]] = View(TABLE_SPECS[i], image)
  /\ ExitZeroAppliesAll

(* Columns live since the start have been seen, or are in pages to come. *)
SteadySeen ==
  /\ steady \subseteq Names(live["mon_jdls_parsed"])
  /\ at = "poll" /\ tab = 3 => \A n \in steady :
       n \in Names(seen["mon_jdls_parsed"])
         \/ \E i \in DOMAIN reply : n \in Names(reply[i])
  /\ at \in {"check", "schema", "ddl"} => steady \subseteq Names(seen["mon_jdls_parsed"])
  /\ StrictGate

VInv ==
  TypeInv /\ LiveTyped /\ CheckedFirst /\ AppliedInOrder /\ SteadySeen
    /\ SchemaFollowsData

-----------------------------------------------------------------------------
(* Mappings and columns.                                                   *)

LEMMA NamesOf ==
  ASSUME NEW S, NEW T, S \subseteq T
  PROVE  Names(S) \subseteq Names(T)
BY DEF Names

LEMMA NamesOfPairs ==
  ASSUME NEW S, NEW type
  PROVE  Names(S \X {type}) = S
<1>1. ASSUME NEW n \in S PROVE n \in Names(S \X {type})
  <2>1. <<n, type>> \in S \X {type} /\ <<n, type>>[1] = n
    OBVIOUS
  <2> QED  BY <2>1 DEF Names
<1> QED  BY <1>1 DEF Names

LEMMA ColumnOfIsName ==
  \A k \in Keys : ColumnOf[k] \in JdlNames
BY DEF JdlNames

LEMMA MappingForType ==
  ASSUME NEW names \in SUBSET (JdlNames \cup DeclaredColumns)
  PROVE  MappingFor(names) \in Mapping
BY ColumnOfIsName, ViewsAssumption DEF MappingFor, Mapping

LEMMA ShippedType == Shipped \in Mapping
<1>1. MON_JDLS_PARSED_COLUMNS \in [ContractFields -> JdlNames \cup {NoColumn}]
  BY ColumnOfIsName, ViewsAssumption DEF MON_JDLS_PARSED_COLUMNS
<1>2. MON_JDLS_PARSED_PASSTHROUGH \subseteq JdlNames \cup DeclaredColumns
  BY ViewsAssumption DEF MON_JDLS_PARSED_PASSTHROUGH
<1> QED  BY <1>1, <1>2 DEF Shipped, Mapping

LEMMA ViewType ==
  ASSUME NEW m \in Mapping, NEW t \in Tables
  PROVE  View(t, m) \in Mapping
<1>1. NoFields \in [ContractFields -> JdlNames \cup {NoColumn}]
  BY DEF NoFields
<1>2. CASE t = "mon_jdls_parsed"
  <2>1. View(t, m) = [m EXCEPT !.passthrough = @ \cup {"job_id"}]
    BY <1>2 DEF View
  <2> QED  BY <2>1 DEF Mapping, DeclaredColumns
<1>3. CASE t # "mon_jdls_parsed"
  BY <1>1, <1>3 DEF View, Mapping, Tables
<1> QED  BY <1>2, <1>3

LEMMA TablesInOrder ==
  /\ \A i \in 1..3 : TABLE_SPECS[i] \in Tables
  /\ \A t \in Tables : \E i \in 1..3 : TABLE_SPECS[i] = t
  /\ TABLE_SPECS[3] = "mon_jdls_parsed"
  /\ \A i \in 1..2 : TABLE_SPECS[i] # "mon_jdls_parsed"
BY DEF TABLE_SPECS, Tables

LEMMA LiveTypedNames ==
  ASSUME LiveTyped
  PROVE  Names(live["mon_jdls_parsed"]) \subseteq JdlNames \cup DeclaredColumns
BY DEF LiveTyped, Names

LEMMA NewColumns ==
  ASSUME NEW raw \in RawJdl
  PROVE  /\ JdlColumns(raw) \subseteq JdlNames \X {"text"}
         /\ Names(JdlColumns(raw)) = ColumnsIn(raw)
<1>1. JdlColumns(raw) = ColumnsIn(raw) \X {"text"}
  BY JdlColumnsAreText DEF ColumnsIn
<1>2. ColumnsIn(raw) \subseteq JdlNames
  BY FieldsAreKeys DEF ColumnsIn, JdlNames
<1>3. ColumnsIn(raw) \X {"text"} \subseteq JdlNames \X {"text"}
  BY <1>2
<1> QED  BY <1>1, <1>3, NamesOfPairs

LEMMA LandedAreRaw ==
  ASSUME ViewsTypeOK
  PROVE  \A j \in DOMAIN landed : landed[j] \in RawJdl
BY ViewsAssumption DEF ViewsTypeOK

LEMMA NamesInUniverse ==
  ASSUME NEW S \in SUBSET Column
  PROVE  /\ Names(S) \subseteq ColumnNames
         /\ \A c \in S : c[2] \in ValueType \cup {"native"}
BY DEF Names, Column

-----------------------------------------------------------------------------
(* Types.                                                                  *)

(* What ViewsTypeOK says of live and seen follows from their own types. *)
LEMMA TypeFromColumns ==
  ASSUME live \in [Tables -> SUBSET Column], seen \in [Tables -> SUBSET Column]
  PROVE  /\ \A t \in Tables : \A c \in live[t] : c[2] \in ValueType \cup {"native"}
         /\ \A t \in Tables :
              Names(seen[t]) \subseteq JdlNames \cup DeclaredColumns
                \cup UNION {SourceColumns[u] : u \in DOMAIN SourceColumns}
BY NamesInUniverse DEF ColumnNames

LEMMA TypeInit ==
  ASSUME ViewsInit
  PROVE  TypeInv
<1>1. NoView \in Mapping /\ Shipped \in Mapping
  BY ShippedType DEF NoView, NoFields, Mapping
<1>2. /\ live \in [Tables -> SUBSET Column]
      /\ seen \in [Tables -> SUBSET Column]
      /\ reply \in Seq(SUBSET Column)
  BY DEF ViewsInit
<1>3. DOMAIN landed = {} /\ rows = {}
  BY DEF ViewsInit
<1>4. /\ mapping \in Mapping /\ image \in Mapping /\ views \in [Tables -> Mapping]
  BY <1>1 DEF ViewsInit
<1>5. at = "exit" /\ tab \in 1..3 /\ code \in {0, 1, 2}
  BY DEF ViewsInit
<1>6. strict \in BOOLEAN
  BY DEF ViewsInit
<1> QED  BY <1>2, <1>3, <1>4, <1>5, <1>6, TypeFromColumns DEF TypeInv, ViewsTypeOK

(* The schema after a load: every column still has its one type. *)
LEMMA LoadedColumns ==
  ASSUME TypeInv, LiveTyped, NEW S, LoadJdls(S)
  PROVE  LiveTyped'
<1> DEFINE typed == (JdlNames \X {"text"}) \cup (DeclaredColumns \X {"native"})
           new == DOMAIN landed \ rows
           cols == live["mon_jdls_parsed"] \cup (DeclaredColumns \X {"native"})
                     \cup UNION {JdlColumns(landed[j]) : j \in new}
<1>1. \A j \in new : JdlColumns(landed[j]) \subseteq JdlNames \X {"text"}
  BY LandedAreRaw, NewColumns DEF TypeInv
<1>2. cols \subseteq typed
  BY <1>1 DEF LiveTyped
<1>3. live'["mon_jdls_parsed"] = cols
  BY DEF LoadJdls, TypeInv, Tables
<1> QED  BY <1>2, <1>3 DEF LiveTyped

LEMMA TypedColumns ==
  (JdlNames \X {"text"}) \cup (DeclaredColumns \X {"native"}) \subseteq Column
BY DEF Column, ColumnNames, ValueType

LEMMA LakeType ==
  ASSUME TypeInv, LiveTyped, Lake
  PROVE  TypeInv' /\ LiveTyped'
<1>1. /\ UNCHANGED <<seen, reply, at, mapping, image, views, tab, strict, code>>
  BY DEF Lake, applyVars
<1>2. ASSUME live' \in [Tables -> SUBSET Column],
             DOMAIN landed' \subseteq Jobs, \A j \in DOMAIN landed' : landed'[j] \in RawJdls,
             rows' \subseteq DOMAIN landed'
      PROVE  TypeInv'
  <2>1. seen' \in [Tables -> SUBSET Column]
    BY <1>1 DEF TypeInv
  <2>2. /\ \A t \in Tables : \A c \in live'[t] : c[2] \in ValueType \cup {"native"}
        /\ \A t \in Tables :
             Names(seen'[t]) \subseteq JdlNames \cup DeclaredColumns
               \cup UNION {SourceColumns[u] : u \in DOMAIN SourceColumns}
    BY <1>2, <2>1, NamesInUniverse DEF ColumnNames
  <2> QED  BY <1>1, <1>2, <2>1, <2>2 DEF TypeInv, ViewsTypeOK
<1>3. ASSUME NEW j \in Jobs, NEW raw \in RawJdls, Insert(j, raw)
      PROVE  TypeInv' /\ LiveTyped'
  BY <1>2, <1>3 DEF Insert, TypeInv, ViewsTypeOK, LiveTyped
<1>4. ASSUME NEW t \in {"job_info", "trace"}, LoadTable(t)
      PROVE  TypeInv' /\ LiveTyped'
  <2>1. SourceColumns[t] \X {"native"} \subseteq Column
    BY ViewsAssumption DEF Column, ColumnNames
  <2>2. live' \in [Tables -> SUBSET Column]
    BY <1>4, <2>1 DEF LoadTable, TypeInv
  <2>3. live'["mon_jdls_parsed"] = live["mon_jdls_parsed"]
    BY <1>4 DEF LoadTable, TypeInv, Tables
  <2> QED  BY <1>2, <1>4, <2>2, <2>3 DEF LoadTable, TypeInv, ViewsTypeOK, LiveTyped
<1>5. ASSUME NEW S \in SUBSET Jobs, LoadJdls(S)
      PROVE  TypeInv' /\ LiveTyped'
  <2>1. LiveTyped'
    BY <1>5, LoadedColumns
  <2>2. live'["mon_jdls_parsed"] \subseteq Column
    BY <2>1, TypedColumns DEF LiveTyped
  <2>3. live' \in [Tables -> SUBSET Column]
    BY <1>5, <2>2 DEF LoadJdls, TypeInv, Tables
  <2>4. rows' \subseteq DOMAIN landed' /\ UNCHANGED landed
    BY <1>5 DEF LoadJdls, TypeInv, ViewsTypeOK
  <2> QED  BY <1>2, <2>1, <2>3, <2>4 DEF TypeInv, ViewsTypeOK
<1>6. ASSUME ResetPipeline
      PROVE  TypeInv' /\ LiveTyped'
  <2>1. live' \in [Tables -> SUBSET Column] /\ live'["mon_jdls_parsed"] = {}
    BY <1>6 DEF ResetPipeline, Tables
  <2> QED  BY <1>2, <1>6, <2>1 DEF ResetPipeline, TypeInv, ViewsTypeOK, LiveTyped
<1> QED  BY <1>3, <1>4, <1>5, <1>6 DEF Lake

(* A step of the process or of the operator leaves the lake alone. *)
ProcessTypes ==
  /\ seen \in [Tables -> SUBSET Column]
  /\ reply \in Seq(SUBSET Column)
  /\ at = "poll" => reply # <<>>
  /\ mapping \in Mapping /\ image \in Mapping /\ views \in [Tables -> Mapping]
  /\ at \in {"show", "poll", "check", "schema", "ddl", "exit"}
  /\ tab \in 1..3 /\ strict \in BOOLEAN /\ code \in {0, 1, 2}

LEMMA TypeOfParts ==
  ASSUME TypeInv, UNCHANGED lakeVars, ProcessTypes'
  PROVE  TypeInv'
<1>1. live' \in [Tables -> SUBSET Column] /\ seen' \in [Tables -> SUBSET Column]
  BY DEF TypeInv, lakeVars, ProcessTypes
<1>2. /\ \A t \in Tables : \A c \in live'[t] : c[2] \in ValueType \cup {"native"}
      /\ \A t \in Tables :
           Names(seen'[t]) \subseteq JdlNames \cup DeclaredColumns
             \cup UNION {SourceColumns[u] : u \in DOMAIN SourceColumns}
  BY <1>1, NamesInUniverse DEF ColumnNames
<1> QED  BY <1>1, <1>2 DEF TypeInv, ViewsTypeOK, lakeVars, ProcessTypes

LEMMA HasProcessTypes ==
  ASSUME TypeInv
  PROVE  ProcessTypes
BY DEF TypeInv, ViewsTypeOK, ProcessTypes

LEMMA ExitTypes ==
  ASSUME NEW c \in {0, 1, 2}, Exit(c)
  PROVE  /\ at' = "exit" /\ tab' \in 1..3 /\ code' \in {0, 1, 2}
         /\ reply' \in Seq(SUBSET Column)
         /\ seen' \in [Tables -> SUBSET Column]
BY DEF Exit

LEMMA ExitCodeType == ExitCode \in {0, 1, 2}
BY DEF ExitCode

LEMMA ProcessType ==
  ASSUME TypeInv, LiveTyped,
         Regenerate \/ (\E s \in BOOLEAN : StartApply(s)) \/ ApplyStep \/ StatementFails
  PROVE  TypeInv' /\ LiveTyped'
<1> USE HasProcessTypes
<1>0. SUFFICES ProcessTypes' /\ UNCHANGED lakeVars
  BY TypeOfParts DEF LiveTyped, lakeVars
<1>1. CASE Regenerate
  <2>1. mapping' \in Mapping
    BY <1>1, MappingForType, LiveTypedNames DEF Regenerate
  <2> QED  BY <1>1, <2>1 DEF Regenerate, ProcessTypes, applyVars
<1>2. ASSUME NEW s \in BOOLEAN, StartApply(s) PROVE ProcessTypes' /\ UNCHANGED lakeVars
  BY <1>2 DEF StartApply, ProcessTypes
<1>3. CASE PostShowColumns
  <2> DEFINE cols == live[TABLE_SPECS[tab]]
             jdl == {c \in cols : c[1] \in JdlNames}
  <2>1. cols \in SUBSET Column
    BY TablesInOrder DEF TypeInv, ViewsTypeOK
  <2>2. <<cols \ jdl, jdl>> \in Seq(SUBSET Column) /\ <<cols \ jdl, jdl>> # <<>>
    BY <2>1
  <2>3. CASE cols = {}
    BY <1>3, <2>3, ExitTypes DEF PostShowColumns, ProcessTypes
  <2>4. CASE cols # {}
    BY <1>3, <2>2, <2>4 DEF PostShowColumns, ProcessTypes
  <2> QED  BY <2>3, <2>4, <1>3 DEF PostShowColumns
<1>4. CASE PollNextUri
  <2> DEFINE t == TABLE_SPECS[tab]
  <2>1. at = "poll" /\ reply \in Seq(SUBSET Column) /\ reply # <<>>
    BY <1>4 DEF PollNextUri, TypeInv
  <2>2. Head(reply) \in SUBSET Column /\ Tail(reply) \in Seq(SUBSET Column)
    BY <2>1
  <2>3. t \in Tables /\ tab \in 1..3
    BY TablesInOrder DEF TypeInv, ViewsTypeOK
  <2>4. seen' \in [Tables -> SUBSET Column]
    BY <1>4, <2>2, <2>3 DEF PollNextUri, TypeInv
  <2>5. /\ at' \in {"show", "poll", "check"} /\ tab' \in 1..3
        /\ reply' = Tail(reply) /\ at' = "poll" => reply' # <<>>
    BY <1>4, <2>1, <2>3 DEF PollNextUri
  <2> QED  BY <1>4, <2>2, <2>4, <2>5 DEF PollNextUri, ProcessTypes
<1>5. CASE CheckDrift
  BY <1>5, ExitTypes DEF CheckDrift, ProcessTypes
<1>6. CASE CreateSchema
  BY <1>6 DEF CreateSchema, ProcessTypes
<1>7. CASE CreateView
  <2>1. View(TABLE_SPECS[tab], image) \in Mapping
    BY ViewType, TablesInOrder DEF ProcessTypes
  <2>2. views' \in [Tables -> Mapping]
    BY <1>7, <2>1 DEF CreateView, ProcessTypes
  <2>3. CASE Exit(1) \/ Exit(ExitCode)
    BY <1>7, <2>2, <2>3, ExitTypes, ExitCodeType DEF CreateView, ProcessTypes
  <2>4. CASE tab < 3 /\ NextView
    BY <1>7, <2>2, <2>4 DEF CreateView, NextView, ProcessTypes
  <2> QED  BY <1>7, <2>3, <2>4 DEF CreateView, NextView
<1>8. CASE StatementFails
  <2>1. View(TABLE_SPECS[tab], image) \in Mapping
    BY ViewType, TablesInOrder DEF ProcessTypes
  <2>2. views' \in [Tables -> Mapping]
    BY <1>8, <2>1 DEF StatementFails, ProcessTypes
  <2> QED  BY <1>8, <2>2, ExitTypes DEF StatementFails, ProcessTypes
<1> QED  BY <1>1, <1>2, <1>3, <1>4, <1>5, <1>6, <1>7, <1>8 DEF ApplyStep

-----------------------------------------------------------------------------
(* The order of checks and statements.                                     *)

LEMMA MissingStays ==
  ASSUME UNCHANGED <<seen, image>>
  PROVE  \A t : MissingMapped(t)' = MissingMapped(t)
BY DEF MissingMapped

LEMMA CheckedFirstStep ==
  ASSUME TypeInv, CheckedFirst, [ViewsNext]_viewVars
  PROVE  CheckedFirst'
<1>1. CASE UNCHANGED <<at, tab, seen, image>>
  BY <1>1, MissingStays DEF CheckedFirst
<1>2. CASE Lake \/ Regenerate \/ UNCHANGED viewVars
  BY <1>1, <1>2 DEF Lake, Regenerate, applyVars, viewVars
<1>3. ASSUME NEW s \in BOOLEAN, StartApply(s) PROVE CheckedFirst'
  BY <1>3 DEF StartApply, CheckedFirst
<1>4. CASE PostShowColumns
  BY <1>4 DEF PostShowColumns, Exit, CheckedFirst
<1>5. CASE PollNextUri
  BY <1>5 DEF PollNextUri, CheckedFirst
<1>6. CASE CheckDrift
  <2>1. CASE AnyMissingMapped
    BY <1>6, <2>1 DEF CheckDrift, Exit, CheckedFirst
  <2>2. CASE ~ AnyMissingMapped
    <3>1. at' = "schema" /\ tab' = 1 /\ UNCHANGED <<seen, image>>
      BY <1>6, <2>2 DEF CheckDrift, CheckedFirst
    <3> QED  BY <2>2, <3>1, MissingStays DEF AnyMissingMapped, CheckedFirst
  <2> QED  BY <2>1, <2>2
<1>7. CASE CreateSchema
  BY <1>7, MissingStays DEF CreateSchema, CheckedFirst
<1>8. CASE CreateView
  <2>1. CASE at' = "exit"
    BY <2>1 DEF CheckedFirst
  <2>2. CASE at' # "exit"
    BY <1>8, <2>2, MissingStays DEF CreateView, NextView, Exit, CheckedFirst
  <2> QED  BY <2>1, <2>2
<1>9. CASE StatementFails
  BY <1>9 DEF StatementFails, Exit, CheckedFirst
<1> QED  BY <1>2, <1>3, <1>4, <1>5, <1>6, <1>7, <1>8, <1>9 DEF ViewsNext, ApplyStep

LEMMA AppliedInOrderStep ==
  ASSUME TypeInv, CheckedFirst, AppliedInOrder, [ViewsNext]_viewVars
  PROVE  AppliedInOrder'
<1>1. CASE UNCHANGED <<at, tab, image, views, code>>
  BY <1>1 DEF AppliedInOrder, ExitZeroAppliesAll
<1>2. CASE Lake \/ Regenerate \/ UNCHANGED viewVars
  BY <1>1, <1>2 DEF Lake, Regenerate, applyVars, viewVars
<1>3. ASSUME at' \notin {"ddl", "exit"} PROVE AppliedInOrder'
  BY <1>3 DEF AppliedInOrder, ExitZeroAppliesAll
<1>4. ASSUME at' = "exit", code' # 0 PROVE AppliedInOrder'
  BY <1>4 DEF AppliedInOrder, ExitZeroAppliesAll
<1>5. ASSUME NEW s \in BOOLEAN, StartApply(s) PROVE AppliedInOrder'
  BY <1>3, <1>5 DEF StartApply
<1>6. CASE PostShowColumns \/ PollNextUri \/ StatementFails
  BY <1>3, <1>4, <1>6 DEF PostShowColumns, PollNextUri, StatementFails, Exit
<1>7. CASE CheckDrift
  BY <1>3, <1>4, <1>7 DEF CheckDrift, Exit
<1>8. CASE CreateSchema
  <2>1. at' = "ddl" /\ tab' = 1
    BY <1>8 DEF CreateSchema, CheckedFirst
  <2> QED  BY <2>1 DEF AppliedInOrder, ExitZeroAppliesAll
<1>9. CASE CreateView
  <2> DEFINE t == TABLE_SPECS[tab]
  <2>1. at = "ddl" /\ image' = image /\ tab \in 1..3 /\ t \in Tables
    BY <1>9, TablesInOrder DEF CreateView, TypeInv, ViewsTypeOK
  <2>2. CASE ~ Accepted(t)
    BY <1>4, <1>9, <2>2 DEF CreateView, Exit
  <2>3. CASE Accepted(t)
    <3>1. views' = [views EXCEPT ![t] = View(t, image)] /\ NextView
      BY <1>9, <2>3 DEF CreateView
    <3>2. \A i \in 1..3 : i <= tab =>
            views'[TABLE_SPECS[i]] = View(TABLE_SPECS[i], image)
      BY <2>1, <3>1, TablesInOrder DEF AppliedInOrder, TypeInv, ViewsTypeOK, TABLE_SPECS
    <3>3. CASE tab < 3
      BY <2>1, <3>1, <3>2, <3>3 DEF NextView, AppliedInOrder, ExitZeroAppliesAll
    <3>4. CASE tab = 3
      <4>1. \A u \in Tables : views'[u] = View(u, image)
        BY <3>2, <3>4, TablesInOrder
      <4>2. at' = "exit"
        BY <3>1, <3>4 DEF NextView, Exit
      <4> QED  BY <2>1, <4>1, <4>2 DEF AppliedInOrder, ExitZeroAppliesAll
    <3> QED  BY <2>1, <3>3, <3>4
  <2> QED  BY <2>2, <2>3
<1> QED  BY <1>2, <1>5, <1>6, <1>7, <1>8, <1>9 DEF ViewsNext, ApplyStep

-----------------------------------------------------------------------------
(* The strict gate.                                                        *)

(* A gate that found no drift has all jdl__ columns it saw in the view.    *)
LEMMA NoDriftMeansSelected ==
  ASSUME ~ AnyJdlDrift
  PROVE  Names(seen["mon_jdls_parsed"]) \cap JdlNames
           \subseteq Selected(View("mon_jdls_parsed", image))
<1>1. UnmappedJdl("mon_jdls_parsed") = {}
  BY DEF AnyJdlDrift, Tables
<1>2. (DLT_METADATA_COLUMNS \cup KNOWN_NON_CONTRACT_HELPERS) \cap JdlNames = {}
  BY ViewsAssumption DEF DLT_METADATA_COLUMNS, KNOWN_NON_CONTRACT_HELPERS, DeclaredColumns
<1> QED  BY <1>1, <1>2 DEF UnmappedJdl, KnownLiveColumns

LEMMA SteadySeenStep ==
  ASSUME TypeInv, SteadySeen, [ViewsNext]_viewVars
  PROVE  SteadySeen'
<1> DEFINE mon == "mon_jdls_parsed"
<1>1. CASE /\ UNCHANGED <<at, tab, strict, views, reply, seen, code>>
           /\ steady' \subseteq steady /\ steady' \subseteq Names(live'[mon])
  BY <1>1 DEF SteadySeen, StrictGate
<1>2. CASE Lake
  BY <1>1, <1>2 DEF Lake, applyVars
<1>3. CASE Regenerate \/ UNCHANGED viewVars
  BY <1>1, <1>3 DEF Regenerate, lakeVars, applyVars, viewVars, SteadySeen
<1>4. ASSUME steady' \subseteq Names(live'[mon]), at' = "exit", code' # 0
      PROVE  SteadySeen'
  BY <1>4 DEF SteadySeen, StrictGate
<1>5. ASSUME NEW s \in BOOLEAN, StartApply(s) PROVE SteadySeen'
  BY <1>5 DEF StartApply, lakeVars, SteadySeen, StrictGate
<1>6. CASE PostShowColumns
  <2> DEFINE cols == live[TABLE_SPECS[tab]]
             jdl == {c \in cols : c[1] \in JdlNames}
  <2>2. CASE cols = {}
    BY <1>4, <1>6, <2>2 DEF PostShowColumns, Exit, lakeVars, SteadySeen
  <2>3. CASE cols # {}
    <3>1. at' = "poll" /\ reply' = <<cols \ jdl, jdl>> /\ UNCHANGED <<steady, live, tab>>
      BY <1>6, <2>3 DEF PostShowColumns, lakeVars
    <3>2. ASSUME tab = 3, NEW n \in steady
          PROVE  \E i \in DOMAIN reply' : n \in Names(reply'[i])
      <4>1. PICK c \in cols : n = c[1]
        BY <3>2, TablesInOrder DEF SteadySeen, Names
      <4>2. n \in Names(cols \ jdl) \/ n \in Names(jdl)
        BY <4>1 DEF Names
      <4>3. DOMAIN reply' = 1..2 /\ reply'[1] = cols \ jdl /\ reply'[2] = jdl
        BY <3>1
      <4>4. 1 \in DOMAIN reply' /\ 2 \in DOMAIN reply'
        BY <4>3
      <4> QED  BY <4>2, <4>3, <4>4
    <3> QED  BY <3>1, <3>2 DEF SteadySeen, StrictGate
  <2> QED  BY <2>2, <2>3
<1>7. CASE PollNextUri
  <2> DEFINE t == TABLE_SPECS[tab]
  <2>1. /\ at = "poll" /\ reply \in Seq(SUBSET Column) /\ reply # <<>>
        /\ seen' = [seen EXCEPT ![t] = @ \cup Head(reply)] /\ reply' = Tail(reply)
        /\ UNCHANGED <<steady, live>>
    BY <1>7 DEF PollNextUri, TypeInv, lakeVars
  <2>2. CASE tab = 3
    <3>1. t = mon
      BY <2>2, TablesInOrder
    <3>2. seen'[mon] = seen[mon] \cup Head(reply)
      BY <2>1, <3>1 DEF TypeInv, Tables
    <3>3. ASSUME NEW n \in steady
          PROVE  n \in Names(seen'[mon]) \/ \E i \in DOMAIN reply' : n \in Names(reply'[i])
      <4>1. CASE n \in Names(seen[mon]) \/ n \in Names(Head(reply))
        BY <3>2, <4>1 DEF Names
      <4>2. ASSUME NEW i \in DOMAIN reply, i # 1, n \in Names(reply[i])
            PROVE  \E k \in DOMAIN reply' : n \in Names(reply'[k])
        <5>1. i - 1 \in DOMAIN Tail(reply) /\ Tail(reply)[i - 1] = reply[i]
          BY <2>1, <4>2
        <5> QED  BY <2>1, <4>2, <5>1
      <4>3. Head(reply) = reply[1]
        BY <2>1
      <4> QED  BY <2>1, <2>2, <4>1, <4>2, <4>3 DEF SteadySeen
    <3>4. CASE reply' = <<>>
      <4>0. DOMAIN reply' = {}
        BY <3>4
      <4>1. steady' \subseteq Names(seen'[mon])
        BY <2>1, <3>3, <4>0
      <4>2. at' = "check"
        BY <1>7, <2>1, <2>2, <3>4 DEF PollNextUri
      <4> QED  BY <2>1, <4>1, <4>2 DEF SteadySeen, StrictGate
    <3>5. CASE reply' # <<>>
      <4>1. at' = "poll"
        BY <1>7, <2>1, <3>5 DEF PollNextUri
      <4> QED  BY <2>1, <3>3, <4>1 DEF SteadySeen, StrictGate
    <3> QED  BY <3>4, <3>5
  <2>3. CASE tab # 3
    <3>1. at' = "show" \/ (at' = "poll" /\ tab' # 3)
      BY <1>7, <2>1, <2>3 DEF PollNextUri, TypeInv, ViewsTypeOK
    <3> QED  BY <2>1, <3>1 DEF SteadySeen, StrictGate
  <2> QED  BY <2>2, <2>3
<1>8. CASE CheckDrift
  <2>1. UNCHANGED <<steady, live>> /\ at = "check"
    BY <1>8 DEF CheckDrift, lakeVars
  <2>2. CASE AnyMissingMapped
    BY <1>4, <1>8, <2>1, <2>2 DEF CheckDrift, Exit, SteadySeen
  <2>3. CASE ~ AnyMissingMapped
    BY <1>8, <2>1, <2>3 DEF CheckDrift, SteadySeen, StrictGate
  <2> QED  BY <2>2, <2>3
<1>9. CASE CreateSchema
  BY <1>9 DEF CreateSchema, lakeVars, SteadySeen, StrictGate
<1>10. CASE CreateView
  <2> DEFINE t == TABLE_SPECS[tab]
  <2>1. UNCHANGED <<steady, live, strict, image>> /\ at = "ddl"
    BY <1>10 DEF CreateView, lakeVars
  <2>2. CASE ~ Accepted(t)
    BY <1>4, <1>10, <2>1, <2>2 DEF CreateView, Exit, SteadySeen
  <2>3. CASE Accepted(t) /\ tab < 3
    BY <1>10, <2>1, <2>3 DEF CreateView, NextView, SteadySeen, StrictGate
  <2>4. CASE Accepted(t) /\ ~ (tab < 3)
    <3>1. t = mon /\ views' = [views EXCEPT ![mon] = View(mon, image)]
      BY <1>10, <2>4, TablesInOrder DEF CreateView, TypeInv, ViewsTypeOK
    <3>2. views'[mon] = View(mon, image)
      BY <3>1 DEF TypeInv, ViewsTypeOK, Tables
    <3>3. at' = "exit" /\ code' = ExitCode
      BY <1>10, <2>4 DEF CreateView, NextView, Exit
    <3>4. CASE strict /\ ExitCode = 0
      <4>1. ~ AnyJdlDrift
        BY <3>4 DEF ExitCode
      <4>2. steady \cap JdlNames \subseteq Selected(views'[mon])
        BY <2>1, <3>2, <4>1, NoDriftMeansSelected DEF SteadySeen
      <4> QED  BY <2>1, <3>3, <4>2 DEF SteadySeen, StrictGate
    <3>5. CASE ~ (strict /\ ExitCode = 0)
      BY <2>1, <3>3, <3>5 DEF SteadySeen, StrictGate
    <3> QED  BY <3>4, <3>5
  <2> QED  BY <2>2, <2>3, <2>4
<1>11. CASE StatementFails
  BY <1>4, <1>11 DEF StatementFails, Exit, lakeVars, SteadySeen
<1> QED  BY <1>2, <1>3, <1>5, <1>6, <1>7, <1>8, <1>9, <1>10, <1>11 DEF ViewsNext, ApplyStep

-----------------------------------------------------------------------------
(* The schema and the rows.                                                *)

LEMMA JdlColumnsInLive ==
  ASSUME TypeInv, SchemaFollowsData, NEW S, LoadJdls(S)
  PROVE  SchemaFollowsData'
<1> DEFINE mon == "mon_jdls_parsed"
           new == DOMAIN landed \ rows
           added == UNION {JdlColumns(landed[j]) : j \in new}
<1>1. live'[mon] = live[mon] \cup (DeclaredColumns \X {"native"}) \cup added
  BY DEF LoadJdls, TypeInv, Tables
<1>2. UNCHANGED landed /\ rows' \subseteq rows \cup new /\ rows \subseteq DOMAIN landed
  BY DEF LoadJdls, TypeInv, ViewsTypeOK
<1>3. \A j \in new : Names(JdlColumns(landed[j])) = ColumnsIn(landed[j])
  BY LandedAreRaw, NewColumns DEF TypeInv
<1>4. Names(added) = UNION {ColumnsIn(landed[j]) : j \in new}
  BY <1>3 DEF Names
<1>5. Names(DeclaredColumns \X {"native"}) \cap JdlNames = {}
  <2>1. Names(DeclaredColumns \X {"native"}) = DeclaredColumns
    BY NamesOfPairs
  <2>2. JdlNames \cap DeclaredColumns = {}
    BY ViewsAssumption
  <2> QED  BY <2>1, <2>2
<1>6. Names(live'[mon]) = Names(live[mon]) \cup Names(DeclaredColumns \X {"native"})
                            \cup Names(added)
  BY <1>1 DEF Names
<1>7. \A raw \in RawJdl : ColumnsIn(raw) \subseteq JdlNames
  BY FieldsAreKeys, ColumnOfIsName DEF ColumnsIn
<1>8. ASSUME NEW j \in rows' PROVE ColumnsIn(landed[j]) \subseteq Names(live'[mon]) \cap JdlNames
  <2>1. CASE j \in rows
    BY <1>6, <2>1 DEF SchemaFollowsData
  <2>2. CASE j \in new
    BY <1>4, <1>6, <1>7, <2>2, LandedAreRaw DEF TypeInv
  <2> QED  BY <1>2, <2>1, <2>2
<1>9. Names(live'[mon]) \cap JdlNames \subseteq UNION {ColumnsIn(landed[j]) : j \in DOMAIN landed}
  BY <1>4, <1>5, <1>6 DEF SchemaFollowsData
<1> QED  BY <1>2, <1>8, <1>9 DEF SchemaFollowsData

LEMMA SchemaStep ==
  ASSUME TypeInv, SchemaFollowsData, [ViewsNext]_viewVars
  PROVE  SchemaFollowsData'
<1> DEFINE mon == "mon_jdls_parsed"
<1>1. CASE UNCHANGED lakeVars
  BY <1>1 DEF lakeVars, SchemaFollowsData
<1>2. ASSUME NEW j \in Jobs, NEW raw \in RawJdls, Insert(j, raw)
      PROVE  SchemaFollowsData'
  <2>1. /\ UNCHANGED <<rows, live>> /\ DOMAIN landed \subseteq DOMAIN landed'
        /\ rows \subseteq DOMAIN landed
    BY <1>2 DEF Insert, TypeInv, ViewsTypeOK
  <2>2. j \notin DOMAIN landed
    BY <1>2, ViewsAssumption DEF Insert
  <2>3. \A k \in DOMAIN landed : landed'[k] = landed[k]
    BY <1>2, <2>2 DEF Insert
  <2>4. \A k \in DOMAIN landed : ColumnsIn(landed'[k]) = ColumnsIn(landed[k])
    BY <2>3
  <2>5. UNION {ColumnsIn(landed[k]) : k \in DOMAIN landed}
          \subseteq UNION {ColumnsIn(landed'[k]) : k \in DOMAIN landed'}
    BY <2>1, <2>4
  <2> QED  BY <2>1, <2>4, <2>5 DEF SchemaFollowsData
<1>3. ASSUME NEW t \in {"job_info", "trace"}, LoadTable(t) PROVE SchemaFollowsData'
  <2>1. UNCHANGED <<landed, rows>> /\ live'[mon] = live[mon]
    BY <1>3 DEF LoadTable, TypeInv, Tables
  <2> QED  BY <2>1 DEF SchemaFollowsData
<1>4. CASE ResetPipeline
  <2>1. rows' = {} /\ live'[mon] = {}
    BY <1>4 DEF ResetPipeline, Tables
  <2> QED  BY <2>1 DEF SchemaFollowsData, Names
<1>5. CASE Lake
  BY <1>2, <1>3, <1>4, <1>5, JdlColumnsInLive DEF Lake
<1>6. CASE ~ Lake
  <2>1. UNCHANGED lakeVars
    BY <1>6 DEF ViewsNext, viewVars, Regenerate, StartApply, ApplyStep, PostShowColumns,
                PollNextUri, CheckDrift, CreateSchema, CreateView, StatementFails
  <2> QED  BY <1>1, <2>1
<1> QED  BY <1>5, <1>6

-----------------------------------------------------------------------------
(* The regeneration procedure.                                             *)

Sources == {"job_info", "trace"}

(* A table of the lake has all of the columns it is declared with, or does *)
(* not exist.                                                              *)
TablesWhole ==
  /\ \A t \in Sources : live[t] # {} => Names(live[t]) = SourceColumns[t]
  /\ live["mon_jdls_parsed"] # {} => DeclaredColumns \subseteq Names(live["mon_jdls_parsed"])
  /\ steady # {} => DeclaredColumns \subseteq steady

Awaited(n) == \E i \in DOMAIN reply : n \in Names(reply[i])

(* All columns of a source table are seen by the time the next is asked    *)
(* for, and no others.                                                     *)
SourcesSeen ==
  \A i \in 1..2 :
    LET t == TABLE_SPECS[i] IN
    /\ Names(seen[t]) \subseteq SourceColumns[t]
    /\ at = "poll" /\ tab = i =>
         /\ \A n : Awaited(n) => n \in SourceColumns[t]
         /\ \A n \in SourceColumns[t] : n \in Names(seen[t]) \/ Awaited(n)
    /\ at \in {"check", "schema", "ddl"} \/ (at \in {"show", "poll"} /\ i < tab) =>
         SourceColumns[t] \subseteq Names(seen[t])

(* Until a reset, what has been seen of mon_jdls_parsed is there.          *)
SeenIsLive ==
  steady # {} =>
    /\ Names(seen["mon_jdls_parsed"]) \subseteq Names(live["mon_jdls_parsed"])
    /\ at = "poll" /\ tab = 3 =>
         \A n : Awaited(n) => n \in Names(live["mon_jdls_parsed"])

GapInv == TablesWhole /\ SourcesSeen /\ SeenIsLive /\ GapCanBeClosed

LEMMA NamesOfNone == Names({}) = {}
BY DEF Names

LEMMA SourceNames ==
  ASSUME NEW t \in Sources
  PROVE  Names(SourceColumns[t] \X {"native"}) = SourceColumns[t]
BY NamesOfPairs

(* A reset clears steady; nothing else takes a column away.                *)
LEMMA LakeKeepsSteady ==
  ASSUME VInv, Lake, steady' # {}
  PROVE  steady' = steady /\ Names(live["mon_jdls_parsed"]) \subseteq Names(live'["mon_jdls_parsed"])
<1> DEFINE mon == "mon_jdls_parsed"
<1>1. steady' = steady \cap Names(live'[mon]) /\ steady \subseteq Names(live[mon])
  BY DEF Lake, VInv, SteadySeen
<1>2. live \in [Tables -> SUBSET Column] /\ mon \in Tables
  BY DEF VInv, TypeInv, Tables
<1>3. ~ ResetPipeline
  BY <1>1, NamesOfNone DEF ResetPipeline, Tables
<1>4. live[mon] \subseteq live'[mon]
  <2>1. CASE UNCHANGED live
    BY <2>1
  <2>2. ASSUME NEW t \in Sources, LoadTable(t) PROVE live'[mon] = live[mon]
    BY <1>2, <2>2 DEF LoadTable, Sources
  <2>3. ASSUME NEW S, LoadJdls(S) PROVE live[mon] \subseteq live'[mon]
    BY <1>2, <2>3 DEF LoadJdls
  <2> QED  BY <1>3, <2>1, <2>2, <2>3 DEF Lake, Insert, Sources
<1> QED  BY <1>1, <1>4, NamesOf

LEMMA TablesWholeStep ==
  ASSUME VInv, TablesWhole, [ViewsNext]_viewVars
  PROVE  TablesWhole'
<1> DEFINE mon == "mon_jdls_parsed"
<1>0. live \in [Tables -> SUBSET Column] /\ mon \in Tables
      /\ Sources \subseteq Tables /\ mon \notin Sources
  BY DEF VInv, TypeInv, Tables, Sources
<1>1. CASE Lake
  <2>1. CASE ResetPipeline
    BY <1>1, <2>1, NamesOfNone DEF ResetPipeline, Lake, TablesWhole, Tables, Sources
  <2>2. ASSUME \A t \in Sources : live'[t] # {} => Names(live'[t]) = SourceColumns[t],
               live'[mon] # {} => DeclaredColumns \subseteq Names(live'[mon])
        PROVE  TablesWhole'
    <3>1. steady' # {} => steady' = steady
      BY <1>1, LakeKeepsSteady
    <3> QED  BY <2>2, <3>1 DEF TablesWhole
  <2>3. CASE UNCHANGED live
    BY <2>2, <2>3 DEF TablesWhole
  <2>4. ASSUME NEW t \in Sources, LoadTable(t) PROVE TablesWhole'
    <3>1. live' = [live EXCEPT ![t] = SourceColumns[t] \X {"native"}]
      BY <2>4 DEF LoadTable
    <3>2. live'[mon] = live[mon] /\ \A u \in Sources : u # t => live'[u] = live[u]
      BY <1>0, <3>1
    <3>3. live'[t] = SourceColumns[t] \X {"native"}
      BY <1>0, <3>1
    <3> QED  BY <2>2, <3>2, <3>3, SourceNames DEF TablesWhole
  <2>5. ASSUME NEW S, LoadJdls(S) PROVE TablesWhole'
    <3>1. DeclaredColumns \X {"native"} \subseteq live'[mon]
      BY <1>0, <2>5 DEF LoadJdls
    <3>2. DeclaredColumns \subseteq Names(live'[mon])
      <4>1. Names(DeclaredColumns \X {"native"}) = DeclaredColumns
        BY NamesOfPairs
      <4> QED  BY <3>1, <4>1, NamesOf
    <3>3. \A u \in Sources : live'[u] = live[u]
      BY <1>0, <2>5 DEF LoadJdls
    <3> QED  BY <2>2, <3>2, <3>3 DEF TablesWhole
  <2> QED  BY <1>1, <2>1, <2>3, <2>4, <2>5 DEF Lake, Insert, Sources
<1>2. ASSUME NEW s, StartApply(s) PROVE TablesWhole'
  BY <1>2, NamesOfNone DEF StartApply, lakeVars, TablesWhole
<1>3. ASSUME UNCHANGED <<live, steady>> PROVE TablesWhole'
  BY <1>3 DEF TablesWhole
<1> QED  BY <1>1, <1>2, <1>3 DEF ViewsNext, viewVars, Regenerate, ApplyStep, PostShowColumns,
            PollNextUri, CheckDrift, CreateSchema, CreateView, StatementFails, lakeVars

(* SHOW COLUMNS: the pages to come name the columns of the table.          *)
LEMMA PagesPosted ==
  ASSUME TypeInv, PostShowColumns, at' # "exit"
  PROVE  /\ at' = "poll" /\ UNCHANGED <<seen, tab, live, steady>>
         /\ live[TABLE_SPECS[tab]] # {}
         /\ \A n : Awaited(n)' <=> n \in Names(live[TABLE_SPECS[tab]])
<1> DEFINE cols == live[TABLE_SPECS[tab]]
           jdl == {c \in cols : c[1] \in JdlNames}
<1>1. /\ at' = "poll" /\ UNCHANGED <<seen, tab, live, steady>>
      /\ cols # {} /\ reply' = <<cols \ jdl, jdl>>
  BY DEF PostShowColumns, Exit, lakeVars
<1>2. DOMAIN reply' = {1, 2} /\ reply'[1] = cols \ jdl /\ reply'[2] = jdl
  BY <1>1
<1>3. \A n : n \in Names(cols) <=> n \in Names(cols \ jdl) \/ n \in Names(jdl)
  BY DEF Names
<1> HIDE DEF cols, jdl
<1>4. \A n : Awaited(n)' <=> n \in Names(cols)
  BY <1>2, <1>3 DEF Awaited
<1> QED  BY <1>1, <1>4 DEF cols

(* One page moves its names from those awaited to those seen.              *)
LEMMA PageRead ==
  ASSUME TypeInv, PollNextUri, NEW t \in Tables, t = TABLE_SPECS[tab]
  PROVE  /\ at = "poll" /\ UNCHANGED <<live, steady>>
         /\ \A n : n \in Names(seen'[t]) \/ Awaited(n)'
                     <=> n \in Names(seen[t]) \/ Awaited(n)
         /\ \A u \in Tables : u # t => seen'[u] = seen[u]
         /\ \/ at' = "poll" /\ tab' = tab
            \/ /\ \A n : ~Awaited(n)'
               /\ \/ tab < 3 /\ at' = "show" /\ tab' = tab + 1
                  \/ tab = 3 /\ at' = "check" /\ tab' = 1
<1>1. /\ at = "poll" /\ reply \in Seq(SUBSET Column) /\ reply # <<>>
      /\ seen' = [seen EXCEPT ![t] = @ \cup Head(reply)] /\ reply' = Tail(reply)
      /\ UNCHANGED <<steady, live>> /\ seen \in [Tables -> SUBSET Column] /\ tab \in 1..3
  BY DEF PollNextUri, TypeInv, ViewsTypeOK, lakeVars
<1>2. seen'[t] = seen[t] \cup Head(reply) /\ \A u \in Tables : u # t => seen'[u] = seen[u]
  BY <1>1
<1>3. \A n : n \in Names(seen'[t]) <=> n \in Names(seen[t]) \/ n \in Names(reply[1])
  BY <1>1, <1>2 DEF Names
<1>4. 1 \in DOMAIN reply
      /\ (\A i \in DOMAIN reply : i = 1 \/ (i - 1 \in DOMAIN reply' /\ reply'[i - 1] = reply[i]))
      /\ \A i \in DOMAIN reply' : i + 1 \in DOMAIN reply /\ reply'[i] = reply[i + 1]
  BY <1>1
<1>5. \A n : Awaited(n) <=> n \in Names(reply[1]) \/ Awaited(n)'
  <2>1. ASSUME NEW n, Awaited(n), n \notin Names(reply[1]) PROVE Awaited(n)'
    <3>1. PICK i \in DOMAIN reply : n \in Names(reply[i])
      BY <2>1 DEF Awaited
    <3>2. i - 1 \in DOMAIN reply' /\ n \in Names(reply'[i - 1])
      BY <1>4, <2>1, <3>1
    <3> QED  BY <3>2 DEF Awaited
  <2>2. ASSUME NEW n, Awaited(n)' PROVE Awaited(n)
    <3>1. PICK i \in DOMAIN reply' : n \in Names(reply'[i])
      BY <2>2 DEF Awaited
    <3>2. i + 1 \in DOMAIN reply /\ n \in Names(reply[i + 1])
      BY <1>4, <3>1
    <3> QED  BY <3>2 DEF Awaited
  <2>3. ASSUME NEW n, n \in Names(reply[1]) PROVE Awaited(n)
    BY <1>4, <2>3 DEF Awaited
  <2> QED  BY <2>1, <2>2, <2>3
<1>6. CASE reply' # <<>>
  <2>1. at' = "poll" /\ tab' = tab
    BY <1>1, <1>6 DEF PollNextUri
  <2> QED  BY <1>1, <1>2, <1>3, <1>5, <2>1
<1>7. CASE reply' = <<>>
  <2>1. \A n : ~Awaited(n)'
    <3>1. DOMAIN reply' = {}
      BY <1>7
    <3> QED  BY <3>1 DEF Awaited
  <2>2. \/ tab < 3 /\ at' = "show" /\ tab' = tab + 1
        \/ tab = 3 /\ at' = "check" /\ tab' = 1
    BY <1>1, <1>7 DEF PollNextUri
  <2> QED  BY <1>1, <1>2, <1>3, <1>5, <2>1, <2>2
<1> QED  BY <1>6, <1>7

LEMMA SourcesSeenStep ==
  ASSUME VInv, TablesWhole, SourcesSeen, [ViewsNext]_viewVars
  PROVE  SourcesSeen'
<1>0. TypeInv /\ tab \in 1..3 /\ seen \in [Tables -> SUBSET Column]
      /\ (\A i \in 1..2 : TABLE_SPECS[i] \in Sources /\ TABLE_SPECS[i] \in Tables)
      /\ \A i, k \in 1..3 : TABLE_SPECS[i] = TABLE_SPECS[k] => i = k
  BY DEF VInv, TypeInv, ViewsTypeOK, TABLE_SPECS, Tables, Sources
<1>1. CASE UNCHANGED <<at, tab, reply, seen>>
  BY <1>1 DEF SourcesSeen, Awaited
<1>2. ASSUME \A t \in Tables : seen'[t] = {}, at' = "exit" \/ (at' = "show" /\ tab' = 1)
      PROVE  SourcesSeen'
  <2>1. \A i \in 1..2 : Names(seen'[TABLE_SPECS[i]]) = {}
    BY <1>0, <1>2, NamesOfNone
  <2>2. /\ ~(at' = "poll") /\ at' \notin {"check", "schema", "ddl"}
        /\ \A i \in 1..2 : ~(at' \in {"show", "poll"} /\ i < tab')
    BY <1>2
  <2> QED  BY <2>1, <2>2 DEF SourcesSeen
<1>3. ASSUME NEW s, StartApply(s) PROVE SourcesSeen'
  BY <1>2, <1>3 DEF StartApply
<1>4. ASSUME NEW c, Exit(c) PROVE SourcesSeen'
  BY <1>2, <1>4 DEF Exit
<1>5. ASSUME UNCHANGED seen, at \in {"check", "schema", "ddl"}, at' \in {"schema", "ddl"}
      PROVE  SourcesSeen'
  BY <1>5 DEF SourcesSeen
<1>6. CASE PostShowColumns
  <2>1. CASE at' = "exit"
    BY <1>4, <1>6, <2>1 DEF PostShowColumns
  <2>2. CASE at' # "exit"
    <3>1. /\ at = "show" /\ at' = "poll" /\ UNCHANGED <<seen, tab, live, steady>>
          /\ live[TABLE_SPECS[tab]] # {}
          /\ \A n : Awaited(n)' <=> n \in Names(live[TABLE_SPECS[tab]])
      BY <1>0, <1>6, <2>2, PagesPosted DEF PostShowColumns
    <3>2. \A i \in 1..2 : tab = i => Names(live[TABLE_SPECS[i]]) = SourceColumns[TABLE_SPECS[i]]
      BY <1>0, <3>1 DEF TablesWhole
    <3> QED  BY <3>1, <3>2 DEF SourcesSeen
  <2> QED  BY <2>1, <2>2
<1>7. CASE PollNextUri
  <2>0. PICK t \in Tables : t = TABLE_SPECS[tab]
    BY <1>0, TablesInOrder
  <2>1. /\ at = "poll"
        /\ \A n : n \in Names(seen'[t]) \/ Awaited(n)'
                    <=> n \in Names(seen[t]) \/ Awaited(n)
        /\ \A u \in Tables : u # t => seen'[u] = seen[u]
        /\ \/ at' = "poll" /\ tab' = tab
           \/ /\ \A n : ~Awaited(n)'
              /\ \/ tab < 3 /\ at' = "show" /\ tab' = tab + 1
                 \/ tab = 3 /\ at' = "check" /\ tab' = 1
    BY <1>0, <1>7, <2>0, PageRead
  <2>2. ASSUME NEW i \in 1..2, NEW u, u = TABLE_SPECS[i]
        PROVE  /\ Names(seen'[u]) \subseteq SourceColumns[u]
               /\ at' = "poll" /\ tab' = i =>
                    /\ \A n : Awaited(n)' => n \in SourceColumns[u]
                    /\ \A n \in SourceColumns[u] : n \in Names(seen'[u]) \/ Awaited(n)'
               /\ at' \in {"check", "schema", "ddl"} \/ (at' \in {"show", "poll"} /\ i < tab') =>
                    SourceColumns[u] \subseteq Names(seen'[u])
    <3>1. /\ Names(seen[u]) \subseteq SourceColumns[u]
          /\ tab = i => /\ \A n : Awaited(n) => n \in SourceColumns[u]
                        /\ \A n \in SourceColumns[u] : n \in Names(seen[u]) \/ Awaited(n)
          /\ i < tab => SourceColumns[u] \subseteq Names(seen[u])
      BY <2>1, <2>2 DEF SourcesSeen
    <3>2. CASE tab = i
      <4>1. u = t
        BY <2>0, <2>2, <3>2
      <4> QED  BY <2>1, <3>1, <3>2, <4>1
    <3>3. CASE tab # i
      <4>1. u # t /\ u \in Tables /\ i \in Int /\ tab \in Int
        BY <1>0, <2>0, <2>2, <3>3
      <4>2. seen'[u] = seen[u]
        BY <2>1, <4>1
      <4>3. CASE i < tab
        BY <2>1, <3>1, <3>3, <4>1, <4>2, <4>3
      <4>4. CASE ~(i < tab)
        <5>1. tab < 3 /\ tab < i /\ tab + 1 <= i
          BY <3>3, <4>1, <4>4
        <5>2. \/ at' = "poll" /\ tab' = tab
              \/ at' = "show" /\ tab' = tab + 1
          BY <2>1, <5>1, <4>1
        <5>3. ~(i < tab') /\ ~(at' = "poll" /\ tab' = i)
          BY <3>3, <4>1, <5>1, <5>2
        <5> QED  BY <3>1, <4>2, <5>2, <5>3
      <4> QED  BY <4>3, <4>4
    <3> QED  BY <3>2, <3>3
  <2> QED  BY <2>2 DEF SourcesSeen
<1>8. CASE CheckDrift
  BY <1>4, <1>5, <1>8 DEF CheckDrift
<1>9. CASE CreateSchema
  BY <1>5, <1>9 DEF CreateSchema
<1>10. CASE CreateView
  BY <1>4, <1>5, <1>10 DEF CreateView, NextView
<1>11. CASE StatementFails
  BY <1>4, <1>11 DEF StatementFails
<1> QED  BY <1>1, <1>3, <1>6, <1>7, <1>8, <1>9, <1>10, <1>11
            DEF ViewsNext, viewVars, Lake, Regenerate, ApplyStep, applyVars

LEMMA SeenIsLiveStep ==
  ASSUME VInv, SeenIsLive, [ViewsNext]_viewVars
  PROVE  SeenIsLive'
<1> DEFINE mon == "mon_jdls_parsed"
<1>0. TypeInv /\ tab \in 1..3 /\ seen \in [Tables -> SUBSET Column] /\ mon \in Tables
  BY DEF VInv, TypeInv, ViewsTypeOK, Tables
<1>1. CASE Lake
  BY <1>1, LakeKeepsSteady DEF Lake, applyVars, SeenIsLive, Awaited
<1>2. ASSUME \A t \in Tables : seen'[t] = {}, at' # "poll"
      PROVE  SeenIsLive'
  BY <1>0, <1>2, NamesOfNone DEF SeenIsLive
<1>3. ASSUME NEW s, StartApply(s) PROVE SeenIsLive'
  BY <1>2, <1>3 DEF StartApply
<1>4. ASSUME NEW c, Exit(c) PROVE SeenIsLive'
  BY <1>2, <1>4 DEF Exit
<1>5. ASSUME UNCHANGED <<seen, steady, live>>, at' # "poll" PROVE SeenIsLive'
  BY <1>5 DEF SeenIsLive
<1>6. CASE UNCHANGED <<seen, steady, live, at, tab, reply>>
  BY <1>6 DEF SeenIsLive, Awaited
<1>7. CASE PostShowColumns
  <2>1. CASE at' = "exit"
    BY <1>4, <1>7, <2>1 DEF PostShowColumns
  <2>2. CASE at' # "exit"
    BY <1>0, <1>7, <2>2, PagesPosted, TablesInOrder DEF SeenIsLive
  <2> QED  BY <2>1, <2>2
<1>8. CASE PollNextUri
  <2>0. PICK t \in Tables : t = TABLE_SPECS[tab]
    BY <1>0, TablesInOrder
  <2>1. /\ at = "poll" /\ UNCHANGED <<live, steady>>
        /\ \A n : n \in Names(seen'[t]) \/ Awaited(n)'
                    <=> n \in Names(seen[t]) \/ Awaited(n)
        /\ \A u \in Tables : u # t => seen'[u] = seen[u]
        /\ \/ at' = "poll" /\ tab' = tab
           \/ /\ \A n : ~Awaited(n)'
              /\ \/ tab < 3 /\ at' = "show" /\ tab' = tab + 1
                 \/ tab = 3 /\ at' = "check" /\ tab' = 1
    BY <1>0, <1>8, <2>0, PageRead
  <2>2. CASE tab = 3
    <3>1. t = mon
      BY <2>0, <2>2, TablesInOrder
    <3> QED  BY <2>1, <2>2, <3>1 DEF SeenIsLive
  <2>3. CASE tab # 3
    <3>1. t # mon /\ tab \in 1..2
      BY <1>0, <2>0, <2>3, TablesInOrder
    <3>2. ~(at' = "poll" /\ tab' = 3)
      BY <2>1, <2>3, <3>1
    <3> QED  BY <1>0, <2>1, <3>1, <3>2 DEF SeenIsLive
  <2> QED  BY <2>2, <2>3
<1>9. CASE CheckDrift
  BY <1>4, <1>5, <1>9 DEF CheckDrift, lakeVars
<1>10. CASE CreateSchema
  BY <1>5, <1>10 DEF CreateSchema, lakeVars
<1>11. CASE CreateView
  <2>1. at = "ddl" /\ UNCHANGED <<live, steady>>
    BY <1>11 DEF CreateView, lakeVars
  <2> QED  BY <1>4, <1>5, <1>11, <2>1 DEF CreateView, NextView
<1>12. CASE StatementFails
  BY <1>4, <1>12 DEF StatementFails
<1> QED  BY <1>1, <1>3, <1>6, <1>7, <1>8, <1>9, <1>10, <1>11, <1>12
            DEF ViewsNext, viewVars, Regenerate, ApplyStep, applyVars, lakeVars

(* What a view of job_info or of trace selects, under any mapping.         *)
LEMMA SourceViews ==
  ASSUME NEW t \in Sources, NEW m
  PROVE  Selected(View(t, m)) \subseteq SourceColumns[t]
BY ViewsAssumption DEF Selected, View, NoFields, Sources

(* What the view of the JDLs selects under a regenerated mapping.          *)
LEMMA RegeneratedView ==
  ASSUME NEW names, "job_id" \in names
  PROVE  /\ Selected(View("mon_jdls_parsed", MappingFor(names))) \subseteq names
         /\ names \cap JdlNames \subseteq Selected(View("mon_jdls_parsed", MappingFor(names)))
<1> DEFINE columns == [f \in ContractFields |->
                         IF ColumnOf[f] \in names THEN ColumnOf[f] ELSE NoColumn]
           view == View("mon_jdls_parsed", MappingFor(names))
<1>1. /\ view.columns = columns
      /\ view.passthrough = (names \ ({columns[f] : f \in ContractFields} \cup {"job_id"}))
                              \cup {"job_id"}
  BY DEF View, MappingFor
<1>2. NoColumn \notin JdlNames
  BY ViewsAssumption
<1> HIDE DEF view
<1>3. Selected(view) \subseteq names
  BY <1>1 DEF Selected
<1>4. ASSUME NEW n \in names \cap JdlNames PROVE n \in Selected(view)
  BY <1>1, <1>2, <1>4 DEF Selected
<1> QED  BY <1>3, <1>4 DEF view

(* A mapping regenerated from the live columns misses none of them ...     *)
LEMMA RegeneratedMissesNothing ==
  ASSUME VInv, TablesWhole, SourcesSeen, at = "check",
         steady # {}, image = MappingFor(steady)
  PROVE  ~ AnyMissingMapped
<1> SUFFICES ASSUME NEW t \in Tables PROVE MissingMapped(t) = {}
  BY DEF AnyMissingMapped
<1>1. CASE t \in Sources
  <2>1. PICK i \in 1..2 : t = TABLE_SPECS[i]
    <3>1. t = TABLE_SPECS[1] \/ t = TABLE_SPECS[2]
      BY <1>1 DEF Sources, TABLE_SPECS
    <3> QED  BY <3>1
  <2>2. SourceColumns[t] \subseteq Names(seen[t])
    BY <2>1 DEF SourcesSeen
  <2> QED  BY <1>1, <2>2, SourceViews DEF MissingMapped
<1>2. CASE t = "mon_jdls_parsed"
  <2>1. steady \subseteq Names(seen[t]) /\ "job_id" \in steady
    BY <1>2 DEF VInv, SteadySeen, TablesWhole, DeclaredColumns
  <2> QED  BY <1>2, <2>1, RegeneratedView DEF MissingMapped
<1> QED  BY <1>1, <1>2 DEF Tables, Sources

(* ... and leaves none of them unmapped.                                   *)
LEMMA RegeneratedDoesNotDrift ==
  ASSUME VInv, TablesWhole, SourcesSeen, SeenIsLive,
         steady # {}, steady = Names(live["mon_jdls_parsed"]), image = MappingFor(steady)
  PROVE  ~ AnyJdlDrift
<1> SUFFICES ASSUME NEW t \in Tables PROVE UnmappedJdl(t) = {}
  BY DEF AnyJdlDrift
<1>1. CASE t \in Sources
  <2>1. PICK i \in 1..2 : t = TABLE_SPECS[i]
    <3>1. t = TABLE_SPECS[1] \/ t = TABLE_SPECS[2]
      BY <1>1 DEF Sources, TABLE_SPECS
    <3> QED  BY <3>1
  <2>2. Names(seen[t]) \subseteq SourceColumns[t]
    BY <2>1 DEF SourcesSeen
  <2>3. SourceColumns[t] \cap JdlNames = {}
    BY <1>1, ViewsAssumption DEF Sources
  <2> QED  BY <2>2, <2>3 DEF UnmappedJdl
<1>2. CASE t = "mon_jdls_parsed"
  <2>1. Names(seen[t]) \subseteq steady /\ "job_id" \in steady
    BY <1>2 DEF SeenIsLive, TablesWhole, DeclaredColumns
  <2> QED  BY <1>2, <2>1, RegeneratedView DEF UnmappedJdl, KnownLiveColumns
<1> QED  BY <1>1, <1>2 DEF Tables, Sources

LEMMA GapStep ==
  ASSUME VInv, GapInv, [ViewsNext]_viewVars
  PROVE  GapCanBeClosed'
<1> DEFINE mon == "mon_jdls_parsed"
<1>1. CASE Lake
  <2>1. SUFFICES ASSUME at = "exit", code = 2, steady' = Names(live'[mon]), steady' # {}
                 PROVE  image' # MappingFor(steady')
    BY <1>1 DEF GapCanBeClosed, Lake, applyVars, MappingFor
  <2>2. steady' = steady /\ Names(live[mon]) \subseteq Names(live'[mon])
    BY <1>1, <2>1, LakeKeepsSteady
  <2>3. steady \subseteq Names(live[mon]) /\ image' = image
    BY <1>1 DEF VInv, SteadySeen, Lake, applyVars
  <2>4. steady = Names(live[mon])
    BY <2>1, <2>2, <2>3
  <2> QED  BY <2>1, <2>2, <2>3, <2>4 DEF GapInv, GapCanBeClosed
<1>2. CASE UNCHANGED <<at, code, steady, live, image>>
  BY <1>2 DEF GapInv, GapCanBeClosed, MappingFor
<1>3. ASSUME at' # "exit" PROVE GapCanBeClosed'
  BY <1>3 DEF GapCanBeClosed
<1>4. ASSUME Exit(1) PROVE GapCanBeClosed'
  BY <1>4 DEF Exit, GapCanBeClosed
<1>5. ASSUME NEW s, StartApply(s) PROVE GapCanBeClosed'
  BY <1>3, <1>5 DEF StartApply
<1>6. CASE PostShowColumns \/ PollNextUri \/ CreateSchema \/ StatementFails
  BY <1>3, <1>4, <1>6 DEF PostShowColumns, PollNextUri, CreateSchema, StatementFails
<1>7. CASE CheckDrift
  <2>1. at = "check" /\ UNCHANGED <<live, steady, image>>
    BY <1>7 DEF CheckDrift, lakeVars
  <2>2. CASE ~AnyMissingMapped
    BY <1>3, <1>7, <2>2 DEF CheckDrift
  <2>3. CASE AnyMissingMapped
    <3>1. steady # {} => image # MappingFor(steady)
      BY <2>1, <2>3, RegeneratedMissesNothing DEF GapInv
    <3> QED  BY <2>1, <3>1 DEF GapCanBeClosed, MappingFor
  <2> QED  BY <2>2, <2>3
<1>8. CASE CreateView
  <2>1. at = "ddl" /\ UNCHANGED <<live, steady, image>>
    BY <1>8 DEF CreateView, lakeVars
  <2>2. CASE at' # "exit" \/ Exit(1)
    BY <1>3, <1>4, <2>2
  <2>3. CASE Exit(ExitCode)
    <3>1. code' = 2 => AnyJdlDrift
      BY <2>3 DEF Exit, ExitCode
    <3>2. code' = 2 /\ steady = Names(live[mon]) /\ steady # {} => image # MappingFor(steady)
      BY <3>1, RegeneratedDoesNotDrift DEF GapInv
    <3> QED  BY <2>1, <3>2 DEF GapCanBeClosed, MappingFor
  <2> QED  BY <1>8, <2>1, <2>2, <2>3 DEF CreateView, NextView
<1> QED  BY <1>1, <1>2, <1>5, <1>6, <1>7, <1>8
            DEF ViewsNext, viewVars, Regenerate, ApplyStep, applyVars, lakeVars

-----------------------------------------------------------------------------
(* The theorems.                                                           *)

LEMMA VInvInit ==
  ASSUME ViewsInit
  PROVE  VInv
<1>1. LiveTyped /\ SchemaFollowsData
  BY DEF ViewsInit, LiveTyped, SchemaFollowsData, Names, Tables
<1>2. CheckedFirst /\ AppliedInOrder /\ SteadySeen
  BY DEF ViewsInit, CheckedFirst, AppliedInOrder, ExitZeroAppliesAll, SteadySeen, StrictGate
<1> QED  BY <1>1, <1>2, TypeInit DEF VInv

LEMMA VInvStep ==
  ASSUME VInv, [ViewsNext]_viewVars
  PROVE  VInv'
<1>1. CASE UNCHANGED viewVars
  <2>1. TypeInv' /\ LiveTyped'
    BY <1>1 DEF VInv, TypeInv, ViewsTypeOK, LiveTyped, viewVars, lakeVars, applyVars
  <2> QED  BY <2>1, CheckedFirstStep, AppliedInOrderStep, SteadySeenStep, SchemaStep DEF VInv
<1>2. CASE ViewsNext
  <2>1. TypeInv' /\ LiveTyped'
    BY <1>2, LakeType, ProcessType DEF VInv, ViewsNext
  <2> QED  BY <2>1, CheckedFirstStep, AppliedInOrderStep, SteadySeenStep, SchemaStep DEF VInv
<1> QED  BY <1>1, <1>2

(* The inductive invariant of the schema, of the process and of the views. *)
THEOREM ViewsInvariant == ViewsSpec => []VInv
<1> QED  BY VInvInit, VInvStep, PTL DEF ViewsSpec

(* Every variable of apply-views and of the schema keeps its type, through *)
(* evolving schemas, resets and regenerated mappings.                      *)
THEOREM ViewsTypeCorrect == ViewsSpec => []ViewsTypeOK
<1>1. VInv => ViewsTypeOK
  BY DEF VInv, TypeInv
<1> QED  BY <1>1, ViewsInvariant, PTL

(* The jdl__ columns are those of the fields some landed JDL sets, and no  *)
(* loaded row lacks the column of a field it sets.                         *)
THEOREM SchemaFollowsDataHolds == ViewsSpec => []SchemaFollowsData
<1>1. VInv => SchemaFollowsData
  BY DEF VInv
<1> QED  BY <1>1, ViewsInvariant, PTL

(* data_type freeze never rejects a load, whatever types fields come with. *)
THEOREM FreezeNeverTripsHolds == ViewsSpec => []FreezeNeverTrips
<1>1. VInv => FreezeNeverTrips
  <2> DEFINE cols == live["mon_jdls_parsed"]
                       \cup UNION {JdlColumns(landed[j]) : j \in DOMAIN landed}
  <2> HAVE VInv
  <2>1. \A j \in DOMAIN landed : JdlColumns(landed[j]) \subseteq JdlNames \X {"text"}
    BY LandedAreRaw, NewColumns DEF VInv, TypeInv
  <2>2. cols \subseteq (JdlNames \X {"text"}) \cup (DeclaredColumns \X {"native"})
    BY <2>1 DEF VInv, LiveTyped
  <2>3. JdlNames \cap DeclaredColumns = {}
    BY ViewsAssumption
  <2>4. \A c, d \in cols : c[1] = d[1] => c[2] = d[2]
    BY <2>2, <2>3
  <2> QED  BY <2>4 DEF FreezeNeverTrips, Conflict
<1> QED  BY <1>1, ViewsInvariant, PTL

(* A loaded row keeps every field of a JDL that can be read, as text, and  *)
(* the whole original of one that cannot.                                  *)
THEOREM RowsKeepTheirJdlHolds == ViewsSpec => []RowsKeepTheirJdl
<1>1. VInv => RowsKeepTheirJdl
  <2> HAVE VInv
  <2>1. \A j \in rows : landed[j] \in RawJdl
    BY LandedAreRaw DEF VInv, TypeInv, ViewsTypeOK
  <2> QED  BY <2>1, ReadableIsKept, OthersArePreserved DEF RowsKeepTheirJdl, SetFields
<1> QED  BY <1>1, ViewsInvariant, PTL

(* Exit code 0 leaves every view as the mapping that was run says.         *)
THEOREM ExitZeroAppliesAllHolds == ViewsSpec => []ExitZeroAppliesAll
<1>1. VInv => ExitZeroAppliesAll
  BY DEF VInv, AppliedInOrder
<1> QED  BY <1>1, ViewsInvariant, PTL

(* After exit 0 of a strict run no jdl__ column that was live throughout   *)
(* is missing from the view.                                               *)
THEOREM StrictGateHolds == ViewsSpec => []StrictGate
<1>1. VInv => StrictGate
  BY DEF VInv, SteadySeen
<1> QED  BY <1>1, ViewsInvariant, PTL

(* No view changes before the columns of all tables have been compared and *)
(* none that a view selects was missing.                                   *)
THEOREM ViewsOnlyAfterCleanCheckHolds == ViewsSpec => ViewsOnlyAfterCleanCheck
<1>1. VInv /\ [ViewsNext]_viewVars
        => [views' # views => \A t \in Tables : MissingMapped(t) = {}]_viewVars
  <2> SUFFICES ASSUME VInv, ViewsNext, views' # views
               PROVE  \A t \in Tables : MissingMapped(t) = {}
    BY DEF viewVars
  <2>1. at = "ddl"
    BY DEF ViewsNext, Lake, Regenerate, StartApply, ApplyStep, PostShowColumns, PollNextUri,
           CheckDrift, CreateSchema, CreateView, StatementFails, applyVars
  <2> QED  BY <2>1 DEF VInv, CheckedFirst
<1> QED  BY <1>1, ViewsInvariant, PTL DEF ViewsSpec, ViewsOnlyAfterCleanCheck

(* A strict run does not exit 2 under the mapping regenerated from columns *)
(* that nothing has changed since: one pass of the documented procedure    *)
(* closes every gap, whatever landed, was reset or failed before.          *)
THEOREM GapCanBeClosedHolds == ViewsSpec => []GapCanBeClosed
<1> DEFINE Inv == VInv /\ GapInv
<1>1. ViewsInit => Inv
  <2> HAVE ViewsInit
  <2>1. (\A t \in Tables : live[t] = {} /\ seen[t] = {}) /\ steady = {} /\ at = "exit" /\ code = 1
    BY DEF ViewsInit
  <2>2. TablesWhole /\ SourcesSeen /\ SeenIsLive /\ GapCanBeClosed
    BY <2>1, NamesOfNone
       DEF TablesWhole, SourcesSeen, SeenIsLive, GapCanBeClosed, Sources, Tables, TABLE_SPECS
  <2> QED  BY <2>2, VInvInit DEF GapInv
<1>2. Inv /\ [ViewsNext]_viewVars => Inv'
  BY VInvStep, TablesWholeStep, SourcesSeenStep, SeenIsLiveStep, GapStep DEF GapInv
<1>3. Inv => GapCanBeClosed
  BY DEF GapInv
<1> HIDE DEF Inv
<1> QED  BY <1>1, <1>2, <1>3, PTL DEF ViewsSpec
=============================================================================
