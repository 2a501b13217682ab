-------------------------------- MODULE Jdl --------------------------------
(***************************************************************************)
(* jdl.py: one landing row of mon_jdls becomes one row of mon_jdls_parsed. *)
(*                                                                         *)
(* A JDL text is abstracted to what the parser can tell apart: how many    *)
(* times the text was escaped into a JSON string body, what its root is,   *)
(* and the fields of the object in their order, as pairs of a key and the  *)
(* JSON type of its value.                                                 *)
(***************************************************************************)
EXTENDS Integers, Sequences

CONSTANTS
  Keys,        \* the JDL field names of the instance
  ColumnOf     \* dlt's naming convention: the column of each field name

(* No two names of the production vocabulary collide (contract_columns.py).*)
ASSUME JdlAssumption ==
  /\ {"LPMPassName", "LPMPASSNAME"} \subseteq Keys
  /\ DOMAIN ColumnOf = Keys
  /\ \A k, l \in Keys : ColumnOf[k] = ColumnOf[l] => k = l

LPM_CANONICAL_KEY == "LPMPassName"
LpmVariants == {"LPMPassName", "LPMPASSNAME"}   \* equal under casefold

ValueType == {"null", "text", "number", "list"}

(* full_jdl as the driver hands it over. *)
NullJdl == [form |-> "null", escapes |-> 0, root |-> "other", fields |-> <<>>]
NotText == [NullJdl EXCEPT !.form = "not text"]
Text(escapes, root, fields) ==
  [form |-> "text", escapes |-> escapes, root |-> root, fields |-> fields]
RawJdl == [form : {"null", "not text", "text"}, escapes : Nat,
           root : {"object", "other", "garbage"}, fields : Seq(Keys \X ValueType)]

-----------------------------------------------------------------------------
(* json.loads succeeds.  Of a key that a text repeats it keeps the last    *)
(* value; the fields of a raw are those that are left.                     *)
IsJson(raw) == raw.form = "text" /\ raw.escapes = 0 /\ raw.root # "garbage"

(* json.loads of the text between quotes: one level of escaping is undone. *)
Unescape(raw) == [raw EXCEPT !.escapes = IF @ = 0 THEN 0 ELSE @ - 1]

(* mutant: plain JSON only, as before the production rehearsal *)
DecodePlainOnly(raw) == raw
(* _decode_jdl_object: the text itself, or else its unescaped body.  A     *)
(* value that is no text raises TypeError, which skips the second attempt. *)
Decode(raw) ==
  IF IsJson(raw) \/ raw.form # "text" THEN raw ELSE Unescape(raw)

Decodable(raw) == IsJson(Decode(raw)) /\ Decode(raw).root = "object"

(* The positions of the spellings of LPMPassName. *)
VariantsIn(fields) == {i \in DOMAIN fields : fields[i][1] \in LpmVariants}

(* mutant: the first spelling wins, null or not *)
FirstVariant(fields, S) == CHOOSE i \in VariantsIn(fields) :
                             \A k \in VariantsIn(fields) : i <= k
(* The first of the positions S. *)
FirstNonNull(fields, S) == CHOOSE i \in S : \A k \in S : i <= k

(* _merge_lpm_casing: the spellings become one key, with the first value   *)
(* among them that is not null.                                            *)
MergeLpmCasing(fields) ==
  LET variants == VariantsIn(fields)
      others == {fields[i] : i \in DOMAIN fields \ variants}
      nonNull == {i \in variants : fields[i][2] # "null"}
      value == IF nonNull = {} THEN "null"
               ELSE fields[FirstNonNull(fields, nonNull)][2]
  IN others \cup {<<LPM_CANONICAL_KEY, value>> : i \in variants}

(* mutant: values keep their JSON type *)
AsParsed(type) == type
(* _canonicalize_values: null stays null, all else is served as text.      *)
Canonical(type) == IF type = "null" THEN "null" ELSE "text"

(* mutant: the half-decoded text is kept *)
HalfDecoded(raw) == Decode(raw)
(* What an unparseable row keeps in full_jdl_raw. *)
Preserved(raw) == raw

(* parse_jdl, without the columns it passes through. *)
ParseJdl(raw) ==
  IF raw.form # "null" /\ Decodable(raw)
  THEN [jdl_parse_ok |-> TRUE, full_jdl_raw |-> NullJdl,
        jdl |-> {<<f[1], Canonical(f[2])>> :
                   f \in MergeLpmCasing(Decode(raw).fields)}]
  ELSE [jdl_parse_ok |-> FALSE, full_jdl_raw |-> Preserved(raw), jdl |-> {}]

(* The jdl__ columns the row brings, with the type dlt infers for each: a  *)
(* null brings none.                                                       *)
JdlColumns(raw) ==
  {<<ColumnOf[f[1]], f[2]>> : f \in {g \in ParseJdl(raw).jdl : g[2] # "null"}}

-----------------------------------------------------------------------------
(* What a JDL text says, read without the parser: an object, escaped at    *)
(* most once, whose fields have one name for both spellings.               *)
Readable(raw) == raw.form = "text" /\ raw.root = "object" /\ raw.escapes <= 1
OneName(k) == IF k \in LpmVariants THEN LPM_CANONICAL_KEY ELSE k
FieldsIn(raw) ==
  IF Readable(raw)
  THEN {OneName(raw.fields[i][1]) :
          i \in {n \in DOMAIN raw.fields : raw.fields[n][2] # "null"}}
  ELSE {}
=============================================================================
