------------------------------ MODULE Handoff ------------------------------
(***************************************************************************)
(* What the landing database and the data lake promise each other: a row   *)
(* that has been handed to the landing database stays in it until the lake *)
(* has it, so a known row is never in neither of the two.                  *)
(***************************************************************************)
CONSTANT Row      \* rows, by identity

VARIABLES
  held,   \* rows in the landing database
  lake    \* rows the lake has a version of

handoffVars == <<held, lake>>

HandoffTypeOK == held \subseteq Row /\ lake \subseteq Row

HandoffInit == held = {} /\ lake = {}

(* A source writes a row, new or updated or already retired once. *)
Arrive(r) == held' = held \cup {r} /\ UNCHANGED lake

(* Rows are copied to the lake. *)
Copy(S) == lake' = lake \cup S /\ UNCHANGED held

(* Rows are retired: only rows the lake already has. *)
Retire(S) == held' = held \ S /\ UNCHANGED lake

HandoffNext ==
  \/ \E r \in Row : Arrive(r)
  \/ \E S \in SUBSET held : Copy(S)
  \/ \E S \in SUBSET (held \cap lake) : Retire(S)

HandoffSpec == HandoffInit /\ [][HandoffNext]_handoffVars

(* A row that is known to either store stays known to one of them: no      *)
(* interleaving of writers, ingestion and retention loses a row.           *)
NoRowLost == [][held \cup lake \subseteq held' \cup lake']_handoffVars
=============================================================================
