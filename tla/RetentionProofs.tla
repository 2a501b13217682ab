-------------------------- MODULE RetentionProofs --------------------------
(***************************************************************************)
(* What Retention guarantees for every set of jobs, passes and writers,    *)
(* every clock bound, batch size and retention window.                     *)
(***************************************************************************)
EXTENDS Retention, TLAPS

(* A table's contents are a function from some of the jobs to stamps.      *)
LEMMA ContentsAre ==
  ASSUME NEW f
  PROVE  f \in Contents <=> /\ DOMAIN f \subseteq Jobs
                            /\ f \in [DOMAIN f -> Stamp]
BY DEF Contents

LEMMA UpsertContents ==
  ASSUME NEW f \in Contents, NEW g \in Contents
  PROVE  /\ Upsert(f, g) \in Contents
         /\ DOMAIN Upsert(f, g) = DOMAIN f \cup DOMAIN g
BY ContentsAre DEF Upsert

LEMMA WithoutContents ==
  ASSUME NEW f \in Contents, NEW S
  PROVE  /\ Without(f, S) \in Contents
         /\ DOMAIN Without(f, S) = DOMAIN f \ S
BY ContentsAre DEF Without

LEMMA SingleRow ==
  ASSUME NEW j \in Jobs, NEW s \in Stamp
  PROVE  /\ [k \in {j} |-> s] \in Contents
         /\ DOMAIN [k \in {j} |-> s] = {j}
BY ContentsAre

LEMMA SliceContents ==
  ASSUME NEW f \in Contents, NEW S \in SUBSET DOMAIN f
  PROVE  /\ [k \in S |-> f[k]] \in Contents
         /\ DOMAIN [k \in S |-> f[k]] = S
BY ContentsAre

LEMMA RowsAreJobs ==
  ASSUME StoresTypeOK, NEW t \in Table
  PROVE  Rows(t) \subseteq Jobs /\ Replicated(t) \subseteq Jobs
BY ContentsAre DEF StoresTypeOK, Rows, Replicated

LEMMA AgedRowsAreRows ==
  ASSUME NEW t \in Table, NEW cut
  PROVE  AgedRows(t, cut) \subseteq Rows(t)
BY DEF AgedRows, OlderThan, BoundedOrphans, Table

LEMMA TablesAreTable ==
  \A i \in 1..3 : TABLES[i] \in Table /\ DELETE_ORDER[i] \in Table
BY DEF TABLES, DELETE_ORDER, Table

-----------------------------------------------------------------------------
(* The environment and ingestion keep the stores well typed.               *)

LEMMA EnvironmentType ==
  ASSUME StoresTypeOK, Environment
  PROVE  StoresTypeOK'
<1> USE StoresAssumption
<1>1. ASSUME NEW t \in Table, NEW j \in Jobs, NEW s \in Stamp, Land(t, j, s)
      PROVE  StoresTypeOK'
  BY <1>1, SingleRow, UpsertContents DEF Land, StoresTypeOK
<1>2. CASE Tick
  BY <1>2 DEF Tick, StoresTypeOK
<1>3. ASSUME NEW j \in Jobs, WriteJobInfo(j)
      PROVE  StoresTypeOK'
  <2>1. PICK s \in (now - MaxLag)..now : s > 0 /\ Land("job_info", j, s)
    BY <1>3 DEF WriteJobInfo
  <2>2. s \in Stamp
    BY <2>1 DEF Stamp, StoresTypeOK
  <2> QED BY <1>1, <2>1, <2>2 DEF Table
<1>4. ASSUME NEW j \in Jobs, WriteTrace(j)
      PROVE  StoresTypeOK'
  <2>1. PICK s \in ((now - MaxLag)..now) \cup CorruptStamps :
          (s > 0 \/ s \in CorruptStamps) /\ Land("trace", j, s)
    BY <1>4 DEF WriteTrace
  <2>2. s \in Stamp
    BY <2>1 DEF Stamp, StoresTypeOK
  <2> QED BY <1>1, <2>1, <2>2 DEF Table
<1>5. ASSUME NEW j \in Jobs, WriteMonJdls(j)
      PROVE  StoresTypeOK'
  BY <1>1, <1>5 DEF WriteMonJdls, NoStamp, Stamp, Table
<1> QED BY <1>2, <1>3, <1>4, <1>5 DEF Environment

LEMMA ReplicateType ==
  ASSUME StoresTypeOK, NEW t \in Table, NEW j \in Rows(t), Replicate(t, {j})
  PROVE  StoresTypeOK'
<1>1. [k \in {j} |-> landing[t][k]] \in Contents
  BY SliceContents DEF StoresTypeOK, Rows
<1> QED
  BY <1>1, UpsertContents DEF Replicate, StoresTypeOK

-----------------------------------------------------------------------------
(* Type correctness of every reachable state. *)

LEMMA TypeInit == Init => TypeOK
<1>1. NoRows \in Contents
  BY ContentsAre DEF NoRows, NoStamp
<1>2. StoresInit => StoresTypeOK
  BY <1>1, StoresAssumption DEF StoresInit, StoresTypeOK
<1>3. Init => /\ phase \in [Passes -> Phase] /\ result \in [Passes -> Result]
              /\ step \in [Passes -> 1..3] /\ cutoff \in [Passes -> Int]
              /\ crashes \in Nat
  BY DEF Init, Phase, Result
<1>4. Init => /\ cand \in [Passes -> [Table -> SUBSET Jobs]]
              /\ verified \in [Passes -> SUBSET Jobs]
  BY DEF Init, NoCandidates
<1>5. Init => /\ deleted \in [Passes -> SUBSET (Table \X Jobs)]
              /\ kept \in [Passes -> SUBSET (Table \X Jobs)]
  BY DEF Init
<1> QED BY <1>2, <1>3, <1>4, <1>5 DEF Init, TypeOK

LEMMA PassStepType ==
  ASSUME TypeOK, NEW p \in Passes, Start(p) \/ PassStep(p) \/ Crash(p)
  PROVE  TypeOK'
<1> USE TablesAreTable DEF TypeOK, Phase, Result
<1>1. CASE Start(p)
  BY <1>1, StoresAssumption, RetentionAssumption
  DEF Start, storeVars, StoresTypeOK, NoCandidates
<1>2. CASE SelectOldJobIds(p)
  <2> DEFINE t == TABLES[step[p]]
  <2>1. AgedRows(t, cutoff[p]) \subseteq Jobs
    BY AgedRowsAreRows, RowsAreJobs
  <2>2. cand' \in [Passes -> [Table -> SUBSET Jobs]]
    BY <1>2, <2>1 DEF SelectOldJobIds
  <2>3. \/ phase' = phase /\ step[p] < 3 /\ step' = [step EXCEPT ![p] = @ + 1]
        \/ /\ phase' = [phase EXCEPT ![p] = "check"]
           /\ step' = [step EXCEPT ![p] = 1]
    BY <1>2 DEF SelectOldJobIds
  <2>4. /\ step' \in [Passes -> 1..3]
        /\ phase' \in [Passes -> Phase]
    <3>1. CASE step' = [step EXCEPT ![p] = @ + 1] /\ step[p] < 3
      BY <2>3, <3>1
    <3>2. CASE step' = [step EXCEPT ![p] = 1]
      BY <2>3, <3>2
    <3> QED BY <2>3, <3>1, <3>2
  <2>5. /\ StoresTypeOK'
        /\ UNCHANGED <<cutoff, verified, deleted, kept, result, crashes>>
    BY <1>2 DEF SelectOldJobIds, storeVars, StoresTypeOK
  <2> QED BY <2>2, <2>4, <2>5
<1>3. CASE CheckTracePlausibility(p)
  <2>1. phase' \in [Passes -> Phase] /\ result' \in [Passes -> Result]
    BY <1>3 DEF CheckTracePlausibility
  <2>2. /\ StoresTypeOK'
        /\ UNCHANGED <<step, cutoff, cand, verified, deleted, kept, crashes>>
    BY <1>3 DEF CheckTracePlausibility, storeVars, StoresTypeOK
  <2> QED BY <2>1, <2>2
<1>4. CASE ClassifyCandidates(p)
  <2> DEFINE t == DELETE_ORDER[step[p]]
             present == PresentJobIds(t, cand[p][t])
  <2>1. t \in Table /\ cand[p][t] \subseteq Jobs /\ present \subseteq Jobs
    BY DEF PresentJobIds
  <2>2. verified' \in [Passes -> SUBSET Jobs] /\ phase' \in [Passes -> Phase]
    BY <1>4, <2>1 DEF ClassifyCandidates
  <2>3. kept' \in [Passes -> SUBSET (Table \X Jobs)]
    <3>1. kept' = [kept EXCEPT ![p] = @ \cup ({t} \X (cand[p][t] \ present))]
      BY <1>4 DEF ClassifyCandidates
    <3>2. {t} \X (cand[p][t] \ present) \subseteq Table \X Jobs
      BY <2>1
    <3> HIDE DEF t, present
    <3> QED BY <3>1, <3>2
  <2>4. StoresTypeOK' /\ UNCHANGED <<step, cutoff, cand, deleted, result, crashes>>
    BY <1>4 DEF ClassifyCandidates, storeVars, StoresTypeOK
  <2> QED BY <2>2, <2>3, <2>4
<1>5. CASE DeleteBatch(p)
  <2> DEFINE t == DELETE_ORDER[step[p]]
  <2>1. PICK batch \in Batches(verified[p]) :
          LET gone == DeletableRows(t, batch, cutoff[p]) IN
          /\ landing' = [landing EXCEPT ![t] = Without(@, gone)]
          /\ deleted' = [deleted EXCEPT ![p] = @ \cup ({t} \X gone)]
          /\ verified' = [verified EXCEPT ![p] = @ \ batch]
    BY <1>5 DEF DeleteBatch
  <2>2. DeletableRows(t, batch, cutoff[p]) \subseteq Jobs
    BY AgedRowsAreRows, RowsAreJobs DEF DeletableRows
  <2>3. landing' \in [Table -> Contents]
    BY <2>1, WithoutContents DEF StoresTypeOK
  <2>4. deleted' \in [Passes -> SUBSET (Table \X Jobs)]
    BY <2>1, <2>2
  <2>5. verified' \in [Passes -> SUBSET Jobs]
    BY <2>1
  <2> QED BY <1>5, <2>3, <2>4, <2>5 DEF DeleteBatch, StoresTypeOK
<1>6. CASE FinishTable(p)
  <2>1. \/ /\ step[p] < 3 /\ step' = [step EXCEPT ![p] = @ + 1]
           /\ phase' = [phase EXCEPT ![p] = "verify"]
           /\ result' = result
        \/ /\ step' = [step EXCEPT ![p] = 1]
           /\ phase' = [phase EXCEPT ![p] = "exit"]
           /\ result' = [result EXCEPT ![p] = ExitCode(p)]
    BY <1>6 DEF FinishTable
  <2>2. step' \in [Passes -> 1..3]
    <3>1. CASE step' = [step EXCEPT ![p] = @ + 1] /\ step[p] < 3
      BY <3>1
    <3>2. CASE step' = [step EXCEPT ![p] = 1]
      BY <3>2
    <3> QED BY <2>1, <3>1, <3>2
  <2>3. phase' \in [Passes -> Phase]
    BY <2>1
  <2>4. result' \in [Passes -> Result]
    BY <2>1 DEF ExitCode
  <2>5. /\ StoresTypeOK'
        /\ UNCHANGED <<cutoff, cand, verified, deleted, kept, crashes>>
    BY <1>6 DEF FinishTable, storeVars, StoresTypeOK
  <2> QED BY <2>2, <2>3, <2>4, <2>5
<1>7. CASE Crash(p)
  BY <1>7 DEF Crash, storeVars, StoresTypeOK, NoCandidates
<1> QED BY <1>1, <1>2, <1>3, <1>4, <1>5, <1>6, <1>7 DEF PassStep

LEMMA TypeStep == TypeOK /\ [Next]_vars => TypeOK'
<1> SUFFICES ASSUME TypeOK, [Next]_vars
             PROVE  TypeOK'
  OBVIOUS
<1>1. CASE RetentionNext
  BY <1>1, PassStepType DEF RetentionNext
<1>2. CASE Environment /\ UNCHANGED <<passVars, crashes>>
  BY <1>2, EnvironmentType DEF TypeOK, passVars
<1>3. CASE Ingestion /\ UNCHANGED <<passVars, crashes>>
  BY <1>3, ReplicateType DEF Ingestion, TypeOK, passVars
<1>4. CASE UNCHANGED vars
  BY <1>4 DEF vars, storeVars, passVars, TypeOK, StoresTypeOK
<1> QED BY <1>1, <1>2, <1>3, <1>4 DEF Next

(* Every variable keeps its type: in particular a pass never runs past the *)
(* last table, and only job_ids that exist are ever classified or deleted. *)
THEOREM TypeCorrect == Spec => []TypeOK
BY TypeInit, TypeStep, PTL DEF Spec

-----------------------------------------------------------------------------
(* The inductive invariant. *)

(* Time does not run back and Iceberg loses no row. *)
LEMMA StoresGrow ==
  ASSUME TypeOK, [Next]_vars
  PROVE  now <= now' /\ \A t \in Table : Replicated(t) \subseteq Replicated(t)'
<1> USE StoresAssumption DEF TypeOK, StoresTypeOK
<1>1. CASE UNCHANGED vars
  BY <1>1 DEF vars, storeVars, Replicated
<1>2. ASSUME NEW p \in Passes, Start(p) \/ PassStep(p) \/ Crash(p)
      PROVE  now' = now /\ iceberg' = iceberg
  BY <1>2 DEF PassStep, Start, SelectOldJobIds, CheckTracePlausibility,
       ClassifyCandidates, DeleteBatch, FinishTable, Crash, storeVars
<1>3. CASE Environment
  <2>1. iceberg' = iceberg /\ (now' = now \/ now' = now + 1)
    BY <1>3 DEF Environment, Tick, WriteJobInfo, WriteTrace, WriteMonJdls, Land
  <2> QED BY <2>1 DEF Replicated
<1>4. CASE Ingestion
  <2>1. PICK t \in Table : \E j \in Rows(t) : Replicate(t, {j})
    BY <1>4 DEF Ingestion
  <2>2. PICK j \in Rows(t) : Replicate(t, {j})
    BY <2>1
  <2> DEFINE g == [k \in {j} |-> landing[t][k]]
             new == Upsert(iceberg[t], g)
  <2>3. g \in Contents /\ iceberg[t] \in Contents
    BY SliceContents DEF Rows
  <2>4. DOMAIN iceberg[t] \subseteq DOMAIN new
    <3> HIDE DEF g
    <3>1. DOMAIN new = DOMAIN iceberg[t] \cup DOMAIN g
      BY <2>3, UpsertContents
    <3> QED BY <3>1
  <2>5. iceberg' = [iceberg EXCEPT ![t] = new] /\ now' = now
    BY <2>2 DEF Replicate
  <2> HIDE DEF new
  <2>6. \A u \in Table : DOMAIN iceberg[u] \subseteq DOMAIN iceberg'[u]
    BY <2>4, <2>5
  <2> QED BY <2>5, <2>6 DEF Replicated
<1> QED
  BY <1>1, <1>2, <1>3, <1>4 DEF Next, RetentionNext, Replicated

(* A step of one pass leaves the memory of the others alone. *)
LEMMA OtherPasses ==
  ASSUME TypeOK, NEW p \in Passes, Start(p) \/ PassStep(p) \/ Crash(p),
         NEW q \in Passes, q # p
  PROVE  /\ phase'[q] = phase[q] /\ step'[q] = step[q]
         /\ cutoff'[q] = cutoff[q] /\ cand'[q] = cand[q]
         /\ verified'[q] = verified[q] /\ deleted'[q] = deleted[q]
         /\ kept'[q] = kept[q] /\ result'[q] = result[q]
<1> USE DEF TypeOK
<1>1. CASE Start(p)
  BY <1>1 DEF Start
<1>2. CASE SelectOldJobIds(p)
  BY <1>2 DEF SelectOldJobIds
<1>3. CASE CheckTracePlausibility(p)
  BY <1>3 DEF CheckTracePlausibility
<1>4. CASE ClassifyCandidates(p)
  BY <1>4 DEF ClassifyCandidates
<1>5. CASE DeleteBatch(p)
  BY <1>5 DEF DeleteBatch
<1>6. CASE FinishTable(p)
  BY <1>6 DEF FinishTable
<1>7. CASE Crash(p)
  BY <1>7 DEF Crash
<1> QED BY <1>1, <1>2, <1>3, <1>4, <1>5, <1>6, <1>7 DEF PassStep

(* A pass that does nothing keeps its invariant while the stores grow. *)
LEMMA IdlePassInv ==
  ASSUME TypeOK, [Next]_vars, NEW q \in Passes, PassInv(q),
         phase'[q] = phase[q], step'[q] = step[q],
         cutoff'[q] = cutoff[q], cand'[q] = cand[q],
         verified'[q] = verified[q], deleted'[q] = deleted[q],
         kept'[q] = kept[q], result'[q] = result[q]
  PROVE  PassInv(q)'
<1>1. now \in Int /\ now' \in Int /\ now <= now' /\ cutoff[q] \in Int
  BY StoresGrow, TypeStep, StoresAssumption DEF TypeOK, StoresTypeOK
<1>2. \A i \in 1..3 : Replicated(DELETE_ORDER[i]) \subseteq Replicated(DELETE_ORDER[i])'
  BY StoresGrow, TablesAreTable
<1>3. step[q] \in 1..3
  BY DEF TypeOK
<1>4. VerifiedAreReplicated(q)'
  BY <1>2, <1>3 DEF PassInv, VerifiedAreReplicated
<1>5. CutoffIsPast(q)'
  BY <1>1, RetentionAssumption DEF PassInv, CutoffIsPast
<1>6. GuardFirst(q)' /\ RunningHasNoResult(q)'
  BY DEF PassInv, GuardFirst, RunningHasNoResult, Active
<1>7. CandidatesAccounted(q)'
  BY <1>2 DEF PassInv, CandidatesAccounted, Classified
<1> QED BY <1>4, <1>5, <1>6, <1>7 DEF PassInv

(* A pass keeps its invariant through its own steps. *)
LEMMA OwnPassInv ==
  ASSUME TypeOK, NEW p \in Passes, PassInv(p),
         Start(p) \/ PassStep(p) \/ Crash(p)
  PROVE  PassInv(p)'
<1> USE DEF PassInv, VerifiedAreReplicated, CutoffIsPast, GuardFirst,
            RunningHasNoResult, CandidatesAccounted, Classified, Active
<1>1. /\ p \in DOMAIN phase /\ p \in DOMAIN step /\ p \in DOMAIN cutoff
      /\ p \in DOMAIN cand /\ p \in DOMAIN verified /\ p \in DOMAIN deleted
      /\ p \in DOMAIN kept /\ p \in DOMAIN result
      /\ step[p] \in 1..3 /\ now \in Int /\ RetentionDays \in Int
  BY StoresAssumption, RetentionAssumption DEF TypeOK, StoresTypeOK
<1>2. CASE Start(p)
  <2>1. /\ phase'[p] = "select" /\ cutoff'[p] = now - RetentionDays
        /\ now' = now /\ deleted'[p] = {} /\ result'[p] = "none"
    BY <1>1, <1>2 DEF Start, storeVars
  <2> QED BY <1>1, <2>1
<1>3. CASE SelectOldJobIds(p)
  BY <1>1, <1>3 DEF SelectOldJobIds, storeVars
<1>4. CASE CheckTracePlausibility(p)
  <2>1. /\ phase[p] = "check"
        /\ UNCHANGED <<now, iceberg, step, cutoff, cand, deleted, kept>>
        /\ \/ phase'[p] = "exit" /\ result'[p] = "aborted"
           \/ phase'[p] = "verify" /\ result'[p] = result[p]
    BY <1>1, <1>4 DEF CheckTracePlausibility, storeVars
  <2> QED BY <1>1, <2>1
<1>5. CASE ClassifyCandidates(p)
  <2> DEFINE t == DELETE_ORDER[step[p]]
  <2>1. /\ phase[p] = "verify" /\ phase'[p] = "delete"
        /\ verified'[p] = cand[p][t] \cap Replicated(t)
        /\ kept'[p] = kept[p] \cup ({t} \X (cand[p][t] \ Replicated(t)))
        /\ UNCHANGED <<now, landing, iceberg, step, cutoff, cand, deleted,
                       result>>
    BY <1>1, <1>5 DEF ClassifyCandidates, PresentJobIds, storeVars
  <2>2. /\ VerifiedAreReplicated(p)' /\ CutoffIsPast(p)'
        /\ GuardFirst(p)' /\ RunningHasNoResult(p)'
    BY <2>1 DEF Replicated
  <2>3. ASSUME NEW i \in 1..3, i <= step[p], NEW j \in cand[p][DELETE_ORDER[i]]
        PROVE  \/ j \in Replicated(DELETE_ORDER[i])
               \/ <<DELETE_ORDER[i], j>> \in kept'[p]
    <3>1. CASE i = step[p]
      BY <2>1, <2>3, <3>1
    <3>2. CASE i < step[p]
      BY <2>1, <2>3, <3>2
    <3> QED BY <1>1, <2>3, <3>1, <3>2
  <2>4. CandidatesAccounted(p)'
    BY <2>1, <2>3 DEF Replicated
  <2> QED BY <2>2, <2>4
<1>6. CASE DeleteBatch(p)
  <2>1. /\ phase[p] = "delete" /\ verified'[p] \subseteq verified[p]
        /\ UNCHANGED <<now, iceberg, phase, step, cutoff, cand, kept, result>>
    BY <1>1, <1>6 DEF DeleteBatch
  <2>2. VerifiedAreReplicated(p)' /\ GuardFirst(p)'
    BY <2>1 DEF Replicated
  <2>3. CutoffIsPast(p)' /\ RunningHasNoResult(p)' /\ CandidatesAccounted(p)'
    BY <2>1 DEF Replicated
  <2> QED BY <2>2, <2>3
<1>7. CASE FinishTable(p)
  <2>1. /\ phase[p] = "delete" /\ verified[p] = {} /\ result[p] = "none"
        /\ UNCHANGED <<now, iceberg, cutoff, cand, verified, deleted, kept>>
    BY <1>7 DEF FinishTable, storeVars
  <2>2. CASE /\ step[p] < 3 /\ step'[p] = step[p] + 1
             /\ phase'[p] = "verify" /\ result'[p] = result[p]
    BY <1>1, <2>1, <2>2 DEF Replicated
  <2>3. CASE step[p] = 3 /\ phase'[p] = "exit" /\ result'[p] = ExitCode(p)
    <3>1. /\ result'[p] # "aborted"
          /\ result'[p] = "ok" => kept[p] = {}
      BY <2>3 DEF ExitCode
    <3>2. \A i \in 1..3 : \A j \in cand[p][DELETE_ORDER[i]] :
            \/ j \in Replicated(DELETE_ORDER[i])
            \/ <<DELETE_ORDER[i], j>> \in kept[p]
      BY <2>1, <2>3
    <3> QED BY <2>1, <2>3, <3>1, <3>2 DEF Replicated
  <2> QED BY <1>1, <1>7, <2>2, <2>3 DEF FinishTable
<1>8. CASE Crash(p)
  <2>1. phase'[p] = "exit" /\ result'[p] = "failed"
    BY <1>1, <1>8 DEF Crash
  <2> QED BY <2>1
<1> QED BY <1>2, <1>3, <1>4, <1>5, <1>6, <1>7, <1>8 DEF PassStep

LEMMA IInvInit == Init => IInv
BY TypeInit DEF Init, IInv, PassInv, VerifiedAreReplicated, CutoffIsPast,
   GuardFirst, RunningHasNoResult, CandidatesAccounted, Classified, Active

LEMMA IInvStep == IInv /\ [Next]_vars => IInv'
<1> SUFFICES ASSUME IInv, [Next]_vars, NEW q \in Passes
             PROVE  PassInv(q)'
  BY TypeStep DEF IInv
<1>1. CASE UNCHANGED <<passVars, crashes>>
  BY <1>1, IdlePassInv DEF IInv, passVars
<1>2. ASSUME NEW p \in Passes, Start(p) \/ PassStep(p) \/ Crash(p)
      PROVE  PassInv(q)'
  <2>1. CASE q = p
    BY <1>2, <2>1, OwnPassInv DEF IInv
  <2>2. CASE q # p
    BY <1>2, <2>2, OtherPasses, IdlePassInv DEF IInv
  <2> QED BY <2>1, <2>2
<1> QED BY <1>1, <1>2 DEF Next, RetentionNext, vars, passVars

THEOREM InvariantHolds == Spec => []IInv
BY IInvInit, IInvStep, PTL DEF Spec

-----------------------------------------------------------------------------
(* The safety properties. *)

(* The only step that takes a row out of landing is the DELETE of a batch. *)
LEMMA OnlyBatchesDelete ==
  ASSUME TypeOK, [Next]_vars, NEW t \in Table, NEW j \in Rows(t),
         j \notin DOMAIN landing'[t]
  PROVE  \E p \in Passes : /\ phase[p] = "delete"
                           /\ t = DELETE_ORDER[step[p]]
                           /\ j \in verified[p]
                           /\ j \in AgedRows(t, cutoff[p])
<1> USE StoresAssumption DEF TypeOK, StoresTypeOK
<1>1. landing' # landing
  BY DEF Rows
<1>2. ASSUME NEW u \in Table, NEW k \in Jobs, NEW s \in Stamp, Land(u, k, s)
      PROVE  FALSE
  <2> DEFINE row == [i \in {k} |-> s]
             new == Upsert(landing[u], row)
  <2>1. DOMAIN landing[u] \subseteq DOMAIN new
    <3>1. landing[u] \in Contents /\ row \in Contents
      BY SingleRow
    <3> HIDE DEF row
    <3>2. DOMAIN new = DOMAIN landing[u] \cup DOMAIN row
      BY <3>1, UpsertContents
    <3> QED BY <3>2
  <2>2. landing' = [landing EXCEPT ![u] = new]
    BY <1>2 DEF Land
  <2> HIDE DEF new
  <2> QED BY <2>1, <2>2 DEF Rows
<1>3. ~Environment
  <2>1. ASSUME NEW k \in Jobs, WriteJobInfo(k) PROVE FALSE
    <3>1. PICK s \in (now - MaxLag)..now : s > 0 /\ Land("job_info", k, s)
      BY <2>1 DEF WriteJobInfo
    <3>2. s \in Stamp
      BY <3>1 DEF Stamp
    <3> QED BY <1>2, <3>1, <3>2 DEF Table
  <2>2. ASSUME NEW k \in Jobs, WriteTrace(k) PROVE FALSE
    <3>1. PICK s \in ((now - MaxLag)..now) \cup CorruptStamps :
            (s > 0 \/ s \in CorruptStamps) /\ Land("trace", k, s)
      BY <2>2 DEF WriteTrace
    <3>2. s \in Stamp
      BY <3>1 DEF Stamp
    <3> QED BY <1>2, <3>1, <3>2 DEF Table
  <2>3. ASSUME NEW k \in Jobs, WriteMonJdls(k) PROVE FALSE
    <3>1. Land("mon_jdls", k, NoStamp)
      BY <2>3 DEF WriteMonJdls
    <3>2. NoStamp \in Stamp
      BY DEF NoStamp, Stamp
    <3> QED BY <1>2, <3>1, <3>2 DEF Table
  <2>4. ~Tick
    BY <1>1 DEF Tick
  <2> QED BY <2>1, <2>2, <2>3, <2>4 DEF Environment
<1>4. \E p \in Passes : DeleteBatch(p)
  BY <1>1, <1>3 DEF Next, RetentionNext, Ingestion, Replicate, PassStep, Start,
     SelectOldJobIds, CheckTracePlausibility, ClassifyCandidates, FinishTable,
     Crash, vars, storeVars
<1>5. PICK p \in Passes : DeleteBatch(p)
  BY <1>4
<1> DEFINE u == DELETE_ORDER[step[p]]
<1>6. PICK batch \in Batches(verified[p]) :
        landing' = [landing EXCEPT ![u] =
                      Without(@, DeletableRows(u, batch, cutoff[p]))]
  BY <1>5 DEF DeleteBatch
<1>7. u \in Table /\ phase[p] = "delete" /\ batch \subseteq verified[p]
  BY <1>5, TablesAreTable DEF DeleteBatch, Batches
<1>8. u = t /\ j \in DeletableRows(u, batch, cutoff[p])
  <2> DEFINE gone == DeletableRows(u, batch, cutoff[p])
             left == Without(landing[u], gone)
  <2>1. DOMAIN left = DOMAIN landing[u] \ gone
    BY <1>7, WithoutContents
  <2>2. landing' = [landing EXCEPT ![u] = left]
    BY <1>6
  <2> HIDE DEF gone, left
  <2>3. u = t
    BY <1>7, <2>2 DEF Rows
  <2>4. DOMAIN landing'[t] = DOMAIN landing[t] \ gone
    BY <1>7, <2>1, <2>2, <2>3
  <2>5. j \in gone
    BY <2>4 DEF Rows
  <2> QED BY <2>3, <2>5 DEF gone
<1> QED BY <1>7, <1>8 DEF DeletableRows

(* The cutoff of a pass that is deleting is at least a full window ago. *)
LEMMA OldIsOutOfWindow ==
  ASSUME IInv, NEW p \in Passes, phase[p] = "delete", NEW t \in Table,
         NEW j \in OlderThan(t, cutoff[p])
  PROVE  j \in Rows(t) /\ landing[t][j] + RetentionDays < now
<1>1. j \in Rows(t) /\ landing[t][j] < cutoff[p]
  BY DEF OlderThan
<1>2. landing[t][j] \in Int
  BY <1>1, ContentsAre, StoresAssumption
  DEF IInv, TypeOK, StoresTypeOK, Rows, Stamp
<1>3. cutoff[p] <= now - RetentionDays
  BY DEF IInv, PassInv, CutoffIsPast, Active
<1>4. cutoff[p] \in Int /\ now \in Int /\ RetentionDays \in Int
  BY StoresAssumption, RetentionAssumption DEF IInv, TypeOK, StoresTypeOK
<1> QED BY <1>1, <1>2, <1>3, <1>4

(* No landing row leaves before its job_id is in Iceberg, whatever the     *)
(* writers, ingestion and other passes do between a pass's statements.     *)
THEOREM DeletesOnlyReplicatedHolds == Spec => DeletesOnlyReplicated
<1>1. IInv /\ [Next]_vars => [OnlyReplicatedLeave]_vars
  <2> SUFFICES ASSUME IInv, [Next]_vars PROVE OnlyReplicatedLeave
    OBVIOUS
  <2>1. ASSUME NEW t \in Table, NEW j \in Rows(t), j \notin DOMAIN landing'[t]
        PROVE  j \in Replicated(t)
    BY <2>1, OnlyBatchesDelete DEF IInv, PassInv, VerifiedAreReplicated
  <2> QED BY <2>1 DEF OnlyReplicatedLeave
<1> QED BY <1>1, InvariantHolds, PTL DEF Spec, DeletesOnlyReplicated

(* No job_info or trace row leaves while it is in the retention window. *)
THEOREM DeletesOnlyOldHolds == Spec => DeletesOnlyOld
<1>1. IInv /\ [Next]_vars => [OnlyOldLeave]_vars
  <2> SUFFICES ASSUME IInv, [Next]_vars PROVE OnlyOldLeave
    OBVIOUS
  <2>1. ASSUME NEW t \in {"job_info", "trace"}, NEW j \in Rows(t),
               j \notin DOMAIN landing'[t]
        PROVE  landing[t][j] + RetentionDays < now
    <3>1. t \in Table /\ t # "mon_jdls"
      BY DEF Table
    <3>2. PICK p \in Passes : phase[p] = "delete" /\ j \in AgedRows(t, cutoff[p])
      BY <2>1, <3>1, OnlyBatchesDelete DEF IInv
    <3> QED BY <3>1, <3>2, OldIsOutOfWindow DEF AgedRows
  <2> QED BY <2>1 DEF OnlyOldLeave
<1> QED BY <1>1, InvariantHolds, PTL DEF Spec, DeletesOnlyOld

(* Where job_ids land in order, a JDL never leaves before its parent could *)
(* still land, nor while the parent is in the retention window.            *)
THEOREM JdlLeavesWithItsParentHolds ==
  OrderedLanding /\ Spec => JdlLeavesWithItsParent
<1> SUFFICES ASSUME OrderedLanding
             PROVE  Spec => JdlLeavesWithItsParent
  OBVIOUS
<1>1. IInv /\ [Next]_vars => [JdlNeedsNoParent]_vars
  <2> SUFFICES ASSUME IInv, [Next]_vars,
                      NEW j \in Rows("mon_jdls"),
                      j \notin DOMAIN landing'["mon_jdls"]
               PROVE  IF j \in Rows("job_info")
                      THEN landing["job_info"][j] + RetentionDays < now
                      ELSE ~MayStillLand(j)
    BY DEF JdlNeedsNoParent
  <2>1. PICK p \in Passes :
          phase[p] = "delete" /\ j \in AgedRows("mon_jdls", cutoff[p])
    BY OnlyBatchesDelete DEF IInv, Table
  <2>2. CASE j \in OlderThan("job_info", cutoff[p])
    BY <2>1, <2>2, OldIsOutOfWindow DEF Table
  <2>3. CASE j \in BoundedOrphans
    <3>1. PICK k \in Rows("job_info") : j < k
      BY <2>3 DEF BoundedOrphans, BelowEverySurvivor
    <3>2. j \in Nat /\ k \in Nat
      BY RowsAreJobs, StoresAssumption DEF IInv, TypeOK, Table
    <3>3. j \notin Rows("job_info")
      BY <2>3 DEF BoundedOrphans
    <3> QED BY <3>1, <3>2, <3>3 DEF MayStillLand, LandsInOrder
  <2> QED BY <2>1, <2>2, <2>3 DEF AgedRows
<1> QED BY <1>1, InvariantHolds, PTL DEF Spec, JdlLeavesWithItsParent

(* A pass the plausibility guard stopped has deleted nothing at all. *)
THEOREM AbortDeletesNothingHolds == Spec => []AbortDeletesNothing
<1>1. IInv => AbortDeletesNothing
  BY DEF IInv, PassInv, GuardFirst, AbortDeletesNothing
<1> QED BY <1>1, InvariantHolds, PTL

(* A pass that exits 0 found every candidate of every table in Iceberg. *)
THEOREM ExitZeroMeansReplicatedHolds == Spec => []ExitZeroMeansReplicated
<1>1. ASSUME IInv, NEW p \in Passes, phase[p] = "exit", result[p] = "ok",
             NEW t \in Table, NEW j \in cand[p][t]
      PROVE  j \in Replicated(t)
  <2>1. PICK i \in 1..3 : t = DELETE_ORDER[i]
    <3>1. /\ DELETE_ORDER[1] = "mon_jdls" /\ DELETE_ORDER[2] = "job_info"
          /\ DELETE_ORDER[3] = "trace"
      BY DEF DELETE_ORDER
    <3> QED BY <3>1 DEF Table
  <2> QED BY <1>1, <2>1 DEF IInv, PassInv, CandidatesAccounted, Classified
<1>2. IInv => ExitZeroMeansReplicated
  BY <1>1 DEF ExitZeroMeansReplicated
<1> QED BY <1>2, InvariantHolds, PTL

-----------------------------------------------------------------------------
(* Retention implements the hand-over contract of Handoff, and so loses no *)
(* row.                                                                    *)

(* Two tables that have the same rows, and rows of a table, seen as pairs. *)
LEMMA HeldRow ==
  ASSUME TypeOK
  PROVE  \A t \in Table, j \in Jobs :
           /\ <<t, j>> \in HeldRows <=> j \in Rows(t)
           /\ <<t, j>> \in LakeRows <=> j \in Replicated(t)
BY DEF HeldRows, LakeRows

(* A writer's row arrives. *)
LEMMA LandArrives ==
  ASSUME TypeOK, NEW t \in Table, NEW j \in Jobs, NEW s \in Stamp, Land(t, j, s)
  PROVE  Contract!HandoffNext
<1> DEFINE row == [k \in {j} |-> s]
           new == Upsert(landing[t], row)
<1>1. DOMAIN new = DOMAIN landing[t] \cup {j}
  <2>1. landing[t] \in Contents /\ row \in Contents /\ DOMAIN row = {j}
    BY SingleRow DEF TypeOK, StoresTypeOK
  <2> HIDE DEF row
  <2> QED BY <2>1, UpsertContents
<1>2. landing' = [landing EXCEPT ![t] = new] /\ iceberg' = iceberg
  BY DEF Land
<1> HIDE DEF new
<1>3. HeldRows' = HeldRows \cup {<<t, j>>}
  BY <1>1, <1>2 DEF HeldRows, Rows, TypeOK, StoresTypeOK
<1>4. LakeRows' = LakeRows
  BY <1>2 DEF LakeRows, Replicated
<1> QED BY <1>3, <1>4 DEF Contract!HandoffNext, Contract!Arrive

(* An ingestion commit copies a row. *)
LEMMA ReplicateCopies ==
  ASSUME TypeOK, NEW t \in Table, NEW j \in Rows(t), Replicate(t, {j})
  PROVE  Contract!HandoffNext
<1> DEFINE row == [k \in {j} |-> landing[t][k]]
           new == Upsert(iceberg[t], row)
<1>1. DOMAIN new = DOMAIN iceberg[t] \cup {j} /\ j \in Jobs
  <2>1. /\ row \in Contents /\ DOMAIN row = {j} /\ iceberg[t] \in Contents
        /\ j \in Jobs
    BY SliceContents, RowsAreJobs DEF TypeOK, StoresTypeOK, Rows
  <2> HIDE DEF row
  <2> QED BY <2>1, UpsertContents
<1>2. iceberg' = [iceberg EXCEPT ![t] = new] /\ landing' = landing
  BY DEF Replicate
<1> HIDE DEF new
<1>3. LakeRows' = LakeRows \cup {<<t, j>>}
  BY <1>1, <1>2 DEF LakeRows, Replicated, TypeOK, StoresTypeOK
<1>4. HeldRows' = HeldRows
  BY <1>2 DEF HeldRows, Rows
<1>5. {<<t, j>>} \in SUBSET HeldRows
  BY <1>1, HeldRow
<1> QED BY <1>3, <1>4, <1>5 DEF Contract!HandoffNext, Contract!Copy

(* A step of a pass retires rows the lake has, or changes neither store.   *)
LEMMA PassRetires ==
  ASSUME IInv, [Next]_vars, NEW p \in Passes, Start(p) \/ PassStep(p) \/ Crash(p)
  PROVE  Contract!HandoffNext
<1>1. iceberg' = iceberg /\ \A t \in Table : DOMAIN landing'[t] \subseteq Rows(t)
  <2>1. CASE landing' = landing /\ iceberg' = iceberg
    BY <2>1 DEF Rows
  <2>2. CASE DeleteBatch(p)
    <3> DEFINE u == DELETE_ORDER[step[p]]
    <3>1. PICK batch \in Batches(verified[p]) :
            landing' = [landing EXCEPT ![u] =
                          Without(@, DeletableRows(u, batch, cutoff[p]))]
      BY <2>2 DEF DeleteBatch
    <3> DEFINE left == Without(landing[u], DeletableRows(u, batch, cutoff[p]))
    <3>2. DOMAIN left \subseteq DOMAIN landing[u]
      BY DEF Without
    <3>3. landing' = [landing EXCEPT ![u] = left]
      BY <3>1
    <3> HIDE DEF left
    <3>4. \A t \in Table : DOMAIN landing'[t] \subseteq Rows(t)
      BY <3>2, <3>3 DEF Rows, IInv, TypeOK, StoresTypeOK
    <3> QED BY <2>2, <3>4 DEF DeleteBatch
  <2> QED BY <2>1, <2>2 DEF PassStep, Start, SelectOldJobIds,
       CheckTracePlausibility, ClassifyCandidates, FinishTable, Crash, storeVars
<1> DEFINE S == HeldRows \ HeldRows'
<1>2. S \subseteq HeldRows \cap LakeRows
  <2>1. ASSUME NEW t \in Table, NEW j \in Rows(t), j \notin DOMAIN landing'[t]
        PROVE  j \in Replicated(t)
    BY <2>1, OnlyBatchesDelete DEF IInv, PassInv, VerifiedAreReplicated
  <2> QED BY <2>1 DEF HeldRows, LakeRows, Rows
<1>3. HeldRows' = HeldRows \ S
  BY <1>1 DEF HeldRows, Rows
<1>4. LakeRows' = LakeRows
  BY <1>1 DEF LakeRows, Replicated
<1> HIDE DEF S
<1> QED BY <1>2, <1>3, <1>4 DEF Contract!HandoffNext, Contract!Retire

LEMMA HandoffStep ==
  IInv /\ [Next]_vars => [Contract!HandoffNext]_Contract!handoffVars
<1> SUFFICES ASSUME IInv, [Next]_vars
             PROVE  Contract!HandoffNext \/ UNCHANGED Contract!handoffVars
  OBVIOUS
<1> USE DEF IInv, TypeOK
<1>1. CASE landing' = landing /\ iceberg' = iceberg
  BY <1>1 DEF Contract!handoffVars, HeldRows, LakeRows, Rows, Replicated
<1>2. CASE RetentionNext
  BY <1>2, PassRetires DEF RetentionNext
<1>3. CASE Environment
  <2>1. ASSUME NEW j \in Jobs, WriteJobInfo(j)
        PROVE  Contract!HandoffNext
    <3>1. PICK s \in (now - MaxLag)..now : s > 0 /\ Land("job_info", j, s)
      BY <2>1 DEF WriteJobInfo
    <3>2. s \in Stamp
      BY <3>1, StoresAssumption DEF Stamp, StoresTypeOK
    <3> QED BY <3>1, <3>2, LandArrives DEF Table
  <2>2. ASSUME NEW j \in Jobs, WriteTrace(j)
        PROVE  Contract!HandoffNext
    <3>1. PICK s \in ((now - MaxLag)..now) \cup CorruptStamps :
            (s > 0 \/ s \in CorruptStamps) /\ Land("trace", j, s)
      BY <2>2 DEF WriteTrace
    <3>2. s \in Stamp
      BY <3>1, StoresAssumption DEF Stamp, StoresTypeOK
    <3> QED BY <3>1, <3>2, LandArrives DEF Table
  <2>3. ASSUME NEW j \in Jobs, WriteMonJdls(j)
        PROVE  Contract!HandoffNext
    <3>1. Land("mon_jdls", j, NoStamp) /\ NoStamp \in Stamp
      BY <2>3, StoresAssumption DEF WriteMonJdls, NoStamp, Stamp
    <3> QED BY <3>1, LandArrives DEF Table
  <2> QED BY <1>1, <1>3, <2>1, <2>2, <2>3 DEF Environment, Tick
<1>4. CASE Ingestion
  BY <1>4, ReplicateCopies DEF Ingestion
<1> QED BY <1>1, <1>2, <1>3, <1>4 DEF Next, vars, storeVars

(* Retention implements the contract: whatever is interleaved, rows only   *)
(* arrive, are copied, or are retired once the lake has them.              *)
THEOREM RetentionImplementsHandoff == Spec => ImplementsHandoff
<1>1. Init => Contract!HandoffInit
  BY DEF Init, StoresInit, NoRows, Contract!HandoffInit, HeldRows, LakeRows,
         Rows, Replicated
<1> QED
  BY <1>1, HandoffStep, InvariantHolds, PTL
  DEF Spec, ImplementsHandoff, Contract!HandoffSpec

(* A job_id of a table known to either store stays known to one of them.   *)
THEOREM RetentionLosesNoRow == Spec => Contract!NoRowLost
<1>1. [Contract!HandoffNext]_Contract!handoffVars =>
        [HeldRows \cup LakeRows \subseteq HeldRows' \cup LakeRows']_Contract!handoffVars
  BY DEF Contract!HandoffNext, Contract!Arrive, Contract!Copy, Contract!Retire,
         Contract!handoffVars
<1> QED
  BY <1>1, RetentionImplementsHandoff, PTL
  DEF ImplementsHandoff, Contract!HandoffSpec, Contract!NoRowLost
-----------------------------------------------------------------------------
(* A clean exit has collected its candidates. *)

(* No pass beside another, and rows that become visible within the window. *)
OnePass == \A p, q \in Passes : p = q
RowsArePrompt == MaxLag <= RetentionDays /\ CorruptStamps = {}

(* Row j is out of reach of every later DELETE with this cutoff.           *)
Collected(t, j, c) ==
  IF t = "mon_jdls"
  THEN \/ j \in Replicated(t) /\ j \notin Rows(t)
       \/ /\ j \in Rows("job_info") => landing["job_info"][j] >= c
          /\ \E k \in Rows("job_info") : k <= j /\ landing["job_info"][k] >= c
  ELSE j \in Rows(t) => landing[t][j] >= c

(* A JDL chosen as a candidate: its parent is there, or every parent that  *)
(* could keep it from being a bounded orphan is young.                     *)
Waiting(j, c) ==
  \/ j \in Rows("job_info")
  \/ /\ Rows("job_info") # {}
     /\ \A k \in Rows("job_info") : k <= j => landing["job_info"][k] >= c

JdlsAreNext(p) ==
  \/ phase[p] \in {"select", "check"}
  \/ phase[p] \in {"verify", "delete"} /\ step[p] = 1

(* The pass is through with candidate j of the i-th table. *)
Handled(p, i, j) ==
  \/ phase[p] \in {"verify", "delete"} /\ i < step[p]
  \/ phase[p] = "delete" /\ i = step[p] /\ j \notin verified[p]
  \/ phase[p] = "exit" /\ result[p] = "ok"

HandledAreCollected(p) ==
  \A i \in 1..3 : \A j \in cand[p][DELETE_ORDER[i]] :
    Handled(p, i, j) =>
      \/ <<DELETE_ORDER[i], j>> \in kept[p]
      \/ Collected(DELETE_ORDER[i], j, cutoff[p])

CollectInv(p) ==
  /\ phase[p] # "idle" => cutoff[p] <= now - RetentionDays
  /\ JdlsAreNext(p) => \A j \in cand[p]["mon_jdls"] : Waiting(j, cutoff[p])
  /\ HandledAreCollected(p)

(* How the stores move under a cutoff that is a full window old.           *)
StoresMove(c) ==
  /\ \A t \in Table : Replicated(t) \subseteq Replicated(t)'
  /\ \A j \in Rows("mon_jdls")' : j \in Rows("mon_jdls") \/ j \notin Replicated("mon_jdls")
  /\ \A t \in {"job_info", "trace"} :
       /\ \A k \in Rows(t)' : \/ k \in Rows(t) /\ landing'[t][k] = landing[t][k]
                              \/ landing'[t][k] >= c
       /\ \A k \in Rows(t) : landing[t][k] >= c => k \in Rows(t)' /\ landing'[t][k] >= c

LEMMA CollectedStays ==
  ASSUME NEW c, StoresMove(c), NEW t \in Table, NEW j, Collected(t, j, c)
  PROVE  Collected(t, j, c)'
<1>1. CASE t = "mon_jdls" /\ j \in Replicated(t) /\ j \notin Rows(t)
  BY <1>1 DEF StoresMove, Collected
<1>2. CASE t = "mon_jdls" /\ ~(j \in Replicated(t) /\ j \notin Rows(t))
  <2>1. PICK k \in Rows("job_info") : k <= j /\ landing["job_info"][k] >= c
    BY <1>2 DEF Collected
  <2>2. k \in Rows("job_info")' /\ landing'["job_info"][k] >= c
    BY <2>1 DEF StoresMove
  <2>3. j \in Rows("job_info")' => landing'["job_info"][j] >= c
    BY <1>2 DEF StoresMove, Collected
  <2> QED  BY <1>2, <2>1, <2>2, <2>3 DEF Collected
<1>3. CASE t # "mon_jdls"
  <2>1. t \in {"job_info", "trace"}
    BY <1>3 DEF Table
  <2> QED  BY <1>3, <2>1 DEF StoresMove, Collected
<1> QED  BY <1>1, <1>2, <1>3

LEMMA WaitingStays ==
  ASSUME NEW c, StoresMove(c), Rows("job_info") \subseteq Rows("job_info")', NEW j, Waiting(j, c)
  PROVE  Waiting(j, c)'
BY DEF Waiting, StoresMove

(* What one DELETE takes. *)
LEMMA BatchTakes ==
  ASSUME TypeOK, NEW p \in Passes, DeleteBatch(p)
  PROVE  \E batch \in SUBSET verified[p], t \in Table :
           /\ t = DELETE_ORDER[step[p]]
           /\ Rows(t)' = Rows(t) \ DeletableRows(t, batch, cutoff[p])
           /\ \A k \in Rows(t)' : landing'[t][k] = landing[t][k]
           /\ \A u \in Table \ {t} : landing'[u] = landing[u] /\ Rows(u)' = Rows(u)
           /\ verified'[p] = verified[p] \ batch
           /\ UNCHANGED <<now, iceberg, phase, step, cutoff, cand, kept, result>>
<1>1. PICK t \in Table : t = DELETE_ORDER[step[p]]
  BY TablesAreTable DEF TypeOK
<1>2. PICK batch \in Batches(verified[p]) :
        /\ landing' = [landing EXCEPT ![t] = Without(@, DeletableRows(t, batch, cutoff[p]))]
        /\ verified' = [verified EXCEPT ![p] = @ \ batch]
  BY <1>1 DEF DeleteBatch
<1>3. PICK gone : gone = DeletableRows(t, batch, cutoff[p])
  OBVIOUS
<1>4. PICK f \in Contents : f = landing[t]
  BY DEF TypeOK, StoresTypeOK
<1>5. DOMAIN Without(f, gone) = DOMAIN f \ gone
  BY WithoutContents
<1>6. \A k \in DOMAIN f \ gone : Without(f, gone)[k] = f[k]
  BY DEF Without
<1>7. landing'[t] = Without(f, gone) /\ \A u \in Table \ {t} : landing'[u] = landing[u]
  BY <1>2, <1>3, <1>4 DEF TypeOK, StoresTypeOK
<1>8. /\ Rows(t)' = Rows(t) \ gone /\ \A k \in Rows(t)' : landing'[t][k] = landing[t][k]
      /\ \A u \in Table \ {t} : landing'[u] = landing[u] /\ Rows(u)' = Rows(u)
  BY <1>4, <1>5, <1>6, <1>7 DEF Rows
<1>9. verified'[p] = verified[p] \ batch /\ batch \in SUBSET verified[p]
  BY <1>2 DEF TypeOK, Batches
<1>10. UNCHANGED <<now, iceberg, phase, step, cutoff, cand, kept, result>>
  BY DEF DeleteBatch
<1> QED  BY <1>1, <1>3, <1>8, <1>9, <1>10

LEMMA StampsAreNat ==
  ASSUME StoresTypeOK, NEW t \in Table, NEW j \in Rows(t)
  PROVE  landing[t][j] \in Nat
<1>1. landing[t] \in Contents /\ j \in DOMAIN landing[t]
  BY DEF StoresTypeOK, Rows
<1>2. landing[t][j] \in Stamp
  BY <1>1, ContentsAre
<1>3. Stamp \subseteq Nat
  <2>1. CorruptStamps \subseteq Nat /\ MaxTime \in Nat
    BY StoresAssumption
  <2> QED  BY <2>1 DEF Stamp
<1> QED  BY <1>2, <1>3

LEMMA LandMoves ==
  ASSUME TypeOK, NEW t \in Table, NEW j \in Jobs, NEW s \in Stamp, NEW c, Land(t, j, s),
         IF t = "mon_jdls" THEN j \notin Replicated(t) ELSE s >= c
  PROVE  StoresMove(c) /\ \A u \in Table : Rows(u) \subseteq Rows(u)'
<1> DEFINE row == [k \in {j} |-> s]
           new == Upsert(landing[t], row)
<1>1. PICK f \in Contents : f = landing[t]
  BY DEF TypeOK, StoresTypeOK
<1>2. landing'[t] = new /\ (\A u \in Table \ {t} : landing'[u] = landing[u]) /\ iceberg' = iceberg
  BY DEF Land, TypeOK, StoresTypeOK
<1>3. /\ DOMAIN new = DOMAIN f \cup {j} /\ new[j] = s
      /\ \A k \in DOMAIN f \ {j} : new[k] = f[k]
  BY <1>1 DEF Upsert
<1> HIDE DEF new
<1>4. /\ Rows(t)' = Rows(t) \cup {j} /\ landing'[t][j] = s
      /\ \A k \in Rows(t) \ {j} : landing'[t][k] = landing[t][k]
      /\ \A u \in Table \ {t} : landing'[u] = landing[u] /\ Rows(u)' = Rows(u)
      /\ \A u \in Table : Replicated(u)' = Replicated(u)
  BY <1>1, <1>2, <1>3 DEF Rows, Replicated
<1>5. \A j2 \in Rows("mon_jdls")' : j2 \in Rows("mon_jdls") \/ j2 \notin Replicated("mon_jdls")
  BY <1>4 DEF Table
<1>6. ASSUME NEW u \in {"job_info", "trace"}
      PROVE  /\ \A k \in Rows(u)' : \/ k \in Rows(u) /\ landing'[u][k] = landing[u][k]
                                    \/ landing'[u][k] >= c
             /\ \A k \in Rows(u) : landing[u][k] >= c => k \in Rows(u)' /\ landing'[u][k] >= c
  <2>1. u \in Table /\ u # "mon_jdls"
    BY DEF Table
  <2>2. CASE u = t
    BY <1>4, <2>1, <2>2
  <2>3. CASE u # t
    BY <1>4, <2>1, <2>3
  <2> QED  BY <2>2, <2>3
<1> QED  BY <1>4, <1>5, <1>6 DEF StoresMove

(* With one pass, every step moves the stores so. *)
LEMMA StoresMoveOn ==
  ASSUME OnePass, RowsArePrompt, IInv, [Next]_vars, NEW p \in Passes, NEW c \in Int,
         c = cutoff[p], c <= now - RetentionDays
  PROVE  /\ StoresMove(c)
         /\ (\A q \in Passes : ~DeleteBatch(q)) => Rows("job_info") \subseteq Rows("job_info")'
<1>0. TypeOK /\ now \in Nat /\ RetentionDays \in Nat /\ MaxLag \in Nat
  BY StoresAssumption, RetentionAssumption DEF IInv, TypeOK, StoresTypeOK
<1>1. \A t \in Table : Replicated(t) \subseteq Replicated(t)'
  BY <1>0, StoresGrow
<1>2. CASE DeleteBatch(p)
  <2>1. PICK batch \in SUBSET verified[p], t \in Table :
          /\ Rows(t)' = Rows(t) \ DeletableRows(t, batch, cutoff[p])
          /\ \A k \in Rows(t)' : landing'[t][k] = landing[t][k]
          /\ \A u \in Table \ {t} : landing'[u] = landing[u] /\ Rows(u)' = Rows(u)
    BY <1>0, <1>2, BatchTakes
  <2>2. ASSUME NEW u \in {"job_info", "trace"}, NEW k \in Rows(u), landing[u][k] >= c
        PROVE  k \in Rows(u)' /\ landing'[u][k] >= c
    <3>0. u \in Table /\ u # "mon_jdls"
      BY DEF Table
    <3>1. landing[u][k] \in Nat
      BY <1>0, <3>0, StampsAreNat DEF TypeOK
    <3>2. k \notin AgedRows(u, cutoff[p])
      BY <2>2, <3>0, <3>1 DEF AgedRows, OlderThan
    <3> QED  BY <2>1, <2>2, <3>0, <3>2 DEF DeletableRows
  <2>3. \A u \in Table : Rows(u)' \subseteq Rows(u) /\ \A k \in Rows(u)' : landing'[u][k] = landing[u][k]
    BY <2>1 DEF Rows
  <2> QED  BY <1>1, <1>2, <2>2, <2>3 DEF StoresMove, Table
<1>3. ASSUME landing' = landing
      PROVE  StoresMove(c) /\ Rows("job_info") \subseteq Rows("job_info")'
  BY <1>1, <1>3 DEF StoresMove, Rows
<1>4. ASSUME NEW j \in Jobs, WriteJobInfo(j)
      PROVE  StoresMove(c) /\ Rows("job_info") \subseteq Rows("job_info")'
  <2>1. PICK s \in (now - MaxLag)..now : s > 0 /\ Land("job_info", j, s)
    BY <1>4 DEF WriteJobInfo
  <2>0. now \in 1..MaxTime /\ MaxTime \in Nat
    BY <1>0, StoresAssumption DEF TypeOK, StoresTypeOK
  <2>2. s \in Stamp
    BY <2>0, <1>0, <2>1 DEF Stamp
  <2>3. s >= c
    BY <2>0, <1>0, <2>1 DEF RowsArePrompt
  <2> QED  BY <1>0, <2>1, <2>2, <2>3, LandMoves DEF Table
<1>5. ASSUME NEW j \in Jobs, WriteTrace(j)
      PROVE  StoresMove(c) /\ Rows("job_info") \subseteq Rows("job_info")'
  <2>1. PICK s \in ((now - MaxLag)..now) \cup CorruptStamps :
          (s > 0 \/ s \in CorruptStamps) /\ Land("trace", j, s)
    BY <1>5 DEF WriteTrace
  <2>0. now \in 1..MaxTime /\ MaxTime \in Nat /\ CorruptStamps = {}
    BY <1>0, StoresAssumption DEF TypeOK, StoresTypeOK, RowsArePrompt
  <2>4. s \in (now - MaxLag)..now /\ s > 0
    BY <2>0, <2>1
  <2>2. s \in Stamp
    BY <2>0, <1>0, <2>4 DEF Stamp
  <2>3. s >= c
    BY <2>0, <1>0, <2>4 DEF RowsArePrompt
  <2> QED  BY <1>0, <2>1, <2>2, <2>3, LandMoves DEF Table
<1>6. ASSUME NEW j \in Jobs, WriteMonJdls(j)
      PROVE  StoresMove(c) /\ Rows("job_info") \subseteq Rows("job_info")'
  <2>1. Land("mon_jdls", j, NoStamp) /\ j \notin Replicated("mon_jdls")
    BY <1>6 DEF WriteMonJdls
  <2>2. NoStamp \in Stamp
    BY StoresAssumption DEF NoStamp, Stamp
  <2> QED  BY <1>0, <2>1, <2>2, LandMoves DEF Table
<1>7. ASSUME Environment
      PROVE  StoresMove(c) /\ Rows("job_info") \subseteq Rows("job_info")'
  BY <1>3, <1>4, <1>5, <1>6, <1>7 DEF Environment, Tick
<1>8. ASSUME NEW q \in Passes, Start(q) \/ PassStep(q) \/ Crash(q), ~DeleteBatch(q)
      PROVE  landing' = landing
  BY <1>8 DEF PassStep, Start, SelectOldJobIds, CheckTracePlausibility,
       ClassifyCandidates, FinishTable, Crash, storeVars
<1>9. Ingestion => landing' = landing
  BY DEF Ingestion, Replicate
<1>10. UNCHANGED vars => landing' = landing
  BY DEF vars, storeVars
<1>11. \A q \in Passes : q = p
  BY DEF OnePass
<1> QED  BY <1>2, <1>3, <1>7, <1>8, <1>9, <1>10, <1>11 DEF Next, RetentionNext

(* While the memory of the pass stays as it is, so does what it says.      *)
LEMMA CollectStays ==
  ASSUME OnePass, RowsArePrompt, IInv, [Next]_vars, NEW p \in Passes, CollectInv(p),
         \A q \in Passes : ~DeleteBatch(q),
         phase'[p] = phase[p], step'[p] = step[p], cutoff'[p] = cutoff[p],
         cand'[p] = cand[p], verified'[p] = verified[p], kept'[p] = kept[p],
         result'[p] = result[p]
  PROVE  CollectInv(p)'
<1>0. /\ TypeOK /\ cutoff[p] \in Int /\ now \in Int /\ now' \in Int /\ now <= now'
      /\ RetentionDays \in Int
  BY StoresGrow, TypeStep, StoresAssumption, RetentionAssumption DEF IInv, TypeOK, StoresTypeOK
<1>1. phase'[p] # "idle" => cutoff'[p] <= now' - RetentionDays
  BY <1>0 DEF CollectInv
<1>2. CASE phase[p] = "idle"
  BY <1>1, <1>2 DEF CollectInv, JdlsAreNext, HandledAreCollected, Handled
<1>3. CASE phase[p] # "idle"
  <2>1. PICK c \in Int : c = cutoff[p]
    BY <1>0
  <2>2. StoresMove(c) /\ Rows("job_info") \subseteq Rows("job_info")'
    BY <1>3, <2>1, StoresMoveOn DEF CollectInv
  <2>3. JdlsAreNext(p)' => \A j \in cand'[p]["mon_jdls"] : Waiting(j, c)'
    BY <2>1, <2>2, WaitingStays DEF CollectInv, JdlsAreNext
  <2>4. ASSUME NEW i \in 1..3, NEW j \in cand'[p][DELETE_ORDER[i]], Handled(p, i, j)'
        PROVE  \/ <<DELETE_ORDER[i], j>> \in kept'[p]
               \/ Collected(DELETE_ORDER[i], j, c)'
    <3>1. Handled(p, i, j)
      BY <2>4 DEF Handled
    <3>2. \/ <<DELETE_ORDER[i], j>> \in kept[p]
          \/ Collected(DELETE_ORDER[i], j, c)
      BY <2>1, <2>4, <3>1 DEF CollectInv, HandledAreCollected
    <3> QED  BY <2>2, <3>2, CollectedStays, TablesAreTable
  <2>5. c = cutoff'[p]
    BY <2>1
  <2>6. /\ JdlsAreNext(p)' => \A j \in cand'[p]["mon_jdls"] : Waiting(j, cutoff[p])'
        /\ \A i \in 1..3 : \A j \in cand'[p][DELETE_ORDER[i]] :
             Handled(p, i, j)' =>
               \/ <<DELETE_ORDER[i], j>> \in kept'[p]
               \/ Collected(DELETE_ORDER[i], j, cutoff[p])'
    BY <2>3, <2>4, <2>5 DEF Waiting, Collected
  <2> QED  BY <1>1, <2>6 DEF CollectInv, HandledAreCollected
<1> QED  BY <1>2, <1>3

(* The DELETE of a batch collects it: what it leaves is out of reach.      *)
LEMMA BatchIsCollected ==
  ASSUME OnePass, RowsArePrompt, IInv, [Next]_vars, NEW p \in Passes, CollectInv(p),
         DeleteBatch(p)
  PROVE  CollectInv(p)'
<1>0. /\ TypeOK /\ cutoff[p] \in Int /\ StoresTypeOK /\ StoresTypeOK' /\ Jobs \subseteq Nat
      /\ step[p] \in 1..3 /\ phase[p] = "delete" /\ cand[p] \in [Table -> SUBSET Jobs]
  BY TypeStep, StoresAssumption DEF IInv, TypeOK, DeleteBatch
<1>1. PICK batch \in SUBSET verified[p], t \in Table :
        /\ t = DELETE_ORDER[step[p]]
        /\ Rows(t)' = Rows(t) \ DeletableRows(t, batch, cutoff[p])
        /\ \A k \in Rows(t)' : landing'[t][k] = landing[t][k]
        /\ \A u \in Table \ {t} : landing'[u] = landing[u] /\ Rows(u)' = Rows(u)
        /\ verified'[p] = verified[p] \ batch
        /\ UNCHANGED <<now, iceberg, phase, step, cutoff, cand, kept, result>>
  BY <1>0, BatchTakes
<1>2. PICK c \in Int : c = cutoff[p]
  BY <1>0
<1>3. StoresMove(c)
  BY <1>0, <1>2, StoresMoveOn DEF CollectInv
<1>4. ASSUME t = "mon_jdls", NEW j \in cand[p][t] PROVE Waiting(j, c)
  <2>1. step[p] = 1
    BY <1>0, <1>1, <1>4 DEF DELETE_ORDER
  <2> QED  BY <1>0, <1>2, <1>4, <2>1 DEF CollectInv, JdlsAreNext
<1>5. JdlsAreNext(p)' => \A j \in cand'[p]["mon_jdls"] : Waiting(j, c)'
  <2> SUFFICES ASSUME JdlsAreNext(p)', NEW j \in cand'[p]["mon_jdls"] PROVE Waiting(j, c)'
    OBVIOUS
  <2>1. t = "mon_jdls"
    BY <1>0, <1>1 DEF JdlsAreNext, DELETE_ORDER
  <2>2. Rows("job_info")' = Rows("job_info")
    BY <1>1, <2>1 DEF Table
  <2> QED  BY <1>1, <1>3, <1>4, <2>1, <2>2, WaitingStays
<1>6. ASSUME NEW j \in cand[p][t], j \in batch
      PROVE  Collected(t, j, c)'
  <2>0. j \in Jobs /\ j \in Nat
    BY <1>0, <1>6
  <2>1. j \in Replicated(t)'
    BY <1>0, <1>1, <1>6 DEF IInv, PassInv, VerifiedAreReplicated, Replicated
  <2>2. j \in Rows(t)' => j \in Rows(t) /\ j \notin AgedRows(t, c)
    BY <1>1, <1>2, <1>6 DEF DeletableRows
  <2>3. CASE t = "mon_jdls"
    <3>1. CASE j \notin Rows(t)'
      BY <2>1, <2>3, <3>1 DEF Collected
    <3>2. CASE j \in Rows(t)'
      <4>1. j \notin OlderThan("job_info", c) /\ j \notin BoundedOrphans /\ j \in Rows("mon_jdls")
        BY <2>2, <2>3, <3>2 DEF AgedRows
      <4>2. j \in Rows("job_info") => landing["job_info"][j] >= c
        <5>1. SUFFICES ASSUME j \in Rows("job_info") PROVE landing["job_info"][j] >= c
          OBVIOUS
        <5>2. landing["job_info"][j] \in Nat
          BY <1>0, <5>1, StampsAreNat DEF Table
        <5> QED  BY <4>1, <5>1, <5>2 DEF OlderThan
      <4>3. \E k \in Rows("job_info") : k <= j /\ landing["job_info"][k] >= c
        <5>1. CASE j \in Rows("job_info")
          BY <2>0, <4>2, <5>1
        <5>2. CASE j \notin Rows("job_info")
          <6>1. /\ Rows("job_info") # {}
                /\ \A k \in Rows("job_info") : k <= j => landing["job_info"][k] >= c
            BY <1>4, <1>6, <2>3, <5>2 DEF Waiting
          <6>2. PICK k \in Rows("job_info") : ~(j < k)
            BY <4>1, <5>2, <6>1 DEF BoundedOrphans, BelowEverySurvivor
          <6>3. k \in Nat
            BY <1>0, RowsAreJobs DEF Table
          <6> QED  BY <2>0, <6>1, <6>2, <6>3
        <5> QED  BY <5>1, <5>2
      <4>4. Rows("job_info")' = Rows("job_info") /\ landing'["job_info"] = landing["job_info"]
        BY <1>1, <2>3 DEF Table
      <4> QED  BY <2>3, <4>2, <4>3, <4>4 DEF Collected
    <3> QED  BY <3>1, <3>2
  <2>4. CASE t # "mon_jdls"
    <3>1. ASSUME j \in Rows(t)' PROVE landing'[t][j] >= c
      <4>1. j \in Rows(t) /\ ~(landing[t][j] < c) /\ landing'[t][j] = landing[t][j]
        BY <1>1, <2>2, <2>4, <3>1 DEF AgedRows, OlderThan
      <4>2. landing[t][j] \in Nat
        BY <1>0, <4>1, StampsAreNat
      <4> QED  BY <4>1, <4>2
    <3> QED  BY <2>4, <3>1 DEF Collected
  <2> QED  BY <2>3, <2>4
<1>7. ASSUME NEW i \in 1..3, NEW j \in cand[p][DELETE_ORDER[i]], Handled(p, i, j)'
      PROVE  <<DELETE_ORDER[i], j>> \in kept[p] \/ Collected(DELETE_ORDER[i], j, c)'
  <2>1. CASE Handled(p, i, j)
    <3>1. <<DELETE_ORDER[i], j>> \in kept[p] \/ Collected(DELETE_ORDER[i], j, c)
      BY <1>2, <1>7, <2>1 DEF CollectInv, HandledAreCollected
    <3> QED  BY <1>3, <3>1, CollectedStays, TablesAreTable
  <2>2. CASE ~Handled(p, i, j)
    <3>1. i = step[p] /\ j \in batch
      BY <1>0, <1>1, <1>7, <2>2 DEF Handled
    <3> QED  BY <1>1, <1>6, <1>7, <3>1
  <2> QED  BY <2>1, <2>2
<1>8. c = cutoff'[p]
  BY <1>1, <1>2
<1>9. /\ JdlsAreNext(p)' => \A j \in cand'[p]["mon_jdls"] : Waiting(j, cutoff[p])'
      /\ \A i \in 1..3 : \A j \in cand'[p][DELETE_ORDER[i]] :
           Handled(p, i, j)' =>
             <<DELETE_ORDER[i], j>> \in kept'[p] \/ Collected(DELETE_ORDER[i], j, cutoff[p])'
  BY <1>1, <1>5, <1>7, <1>8 DEF Waiting, Collected
<1>10. phase'[p] # "idle" => cutoff'[p] <= now' - RetentionDays
  BY <1>1 DEF CollectInv
<1> QED  BY <1>9, <1>10 DEF CollectInv, HandledAreCollected

(* The other steps of the pass leave the stores alone. *)
LEMMA PassCollects ==
  ASSUME IInv, NEW p \in Passes, CollectInv(p),
         Start(p) \/ PassStep(p) \/ Crash(p), ~DeleteBatch(p)
  PROVE  CollectInv(p)'
<1>0. /\ TypeOK /\ cutoff[p] \in Int /\ now \in Int /\ RetentionDays \in Int /\ Jobs \subseteq Nat
      /\ step[p] \in 1..3 /\ cand[p] \in [Table -> SUBSET Jobs]
  BY StoresAssumption, RetentionAssumption DEF IInv, TypeOK, StoresTypeOK
<1>1. UNCHANGED <<now, landing, iceberg>>
  BY DEF PassStep, Start, SelectOldJobIds, CheckTracePlausibility,
         ClassifyCandidates, FinishTable, Crash, storeVars
<1>2. ASSUME NEW j, NEW c PROVE /\ Waiting(j, c)' <=> Waiting(j, c)
                                /\ \A t \in Table : Collected(t, j, c)' <=> Collected(t, j, c)
  BY <1>1 DEF Waiting, Collected, Rows, Replicated
<1>3. ASSUME phase'[p] # "idle" => cutoff'[p] <= now - RetentionDays,
             JdlsAreNext(p)' => \A j \in cand'[p]["mon_jdls"] : Waiting(j, cutoff'[p]),
             \A i \in 1..3 : \A j \in cand'[p][DELETE_ORDER[i]] : Handled(p, i, j)' =>
               \/ <<DELETE_ORDER[i], j>> \in kept'[p]
               \/ Collected(DELETE_ORDER[i], j, cutoff'[p])
      PROVE  CollectInv(p)'
  <2>1. PICK c : c = cutoff'[p]
    OBVIOUS
  <2>2. /\ JdlsAreNext(p)' => \A j \in cand'[p]["mon_jdls"] : Waiting(j, c)'
        /\ \A i \in 1..3 : \A j \in cand'[p][DELETE_ORDER[i]] : Handled(p, i, j)' =>
             <<DELETE_ORDER[i], j>> \in kept'[p] \/ Collected(DELETE_ORDER[i], j, c)'
    BY <1>2, <1>3, <2>1, TablesAreTable
  <2>3. /\ JdlsAreNext(p)' => \A j \in cand'[p]["mon_jdls"] : Waiting(j, cutoff[p])'
        /\ \A i \in 1..3 : \A j \in cand'[p][DELETE_ORDER[i]] : Handled(p, i, j)' =>
             <<DELETE_ORDER[i], j>> \in kept'[p] \/ Collected(DELETE_ORDER[i], j, cutoff[p])'
    BY <2>1, <2>2 DEF Waiting, Collected
  <2> QED  BY <1>1, <1>3, <2>3 DEF CollectInv, HandledAreCollected
<1>4. /\ phase[p] # "idle" => cutoff[p] <= now - RetentionDays
      /\ JdlsAreNext(p) => \A j \in cand[p]["mon_jdls"] : Waiting(j, cutoff[p])
      /\ \A i \in 1..3 : \A j \in cand[p][DELETE_ORDER[i]] : Handled(p, i, j) =>
           <<DELETE_ORDER[i], j>> \in kept[p] \/ Collected(DELETE_ORDER[i], j, cutoff[p])
  BY DEF CollectInv, HandledAreCollected
<1>5. CASE Start(p)
  <2>1. /\ phase'[p] = "select" /\ cutoff'[p] = now - RetentionDays
        /\ \A t \in Table : cand'[p][t] = {}
    BY <1>0, <1>5 DEF Start, TypeOK, NoCandidates
  <2>2. \A i \in 1..3 : ~ \E j \in cand'[p][DELETE_ORDER[i]] : TRUE
    BY <2>1, TablesAreTable
  <2> QED  BY <1>0, <1>3, <2>1, <2>2 DEF Table
<1>6. CASE SelectOldJobIds(p)
  <2>0. PICK t \in Table : t = TABLES[step[p]]
    BY <1>0, TablesAreTable
  <2>1. /\ phase[p] = "select" /\ phase'[p] \in {"select", "check"}
        /\ cutoff' = cutoff /\ kept' = kept
        /\ cand'[p][t] = AgedRows(t, cutoff[p])
        /\ \A u \in Table \ {t} : cand'[p][u] = cand[p][u]
    BY <1>0, <1>6, <2>0 DEF SelectOldJobIds, TypeOK
  <2>2. ASSUME NEW j \in AgedRows("mon_jdls", cutoff[p]) PROVE Waiting(j, cutoff[p])
    <3>1. j \in Rows("mon_jdls")
      BY <2>2, AgedRowsAreRows DEF Table
    <3>2. j \in Nat /\ \A k \in Rows("job_info") : k \in Nat
      BY <1>0, <3>1, RowsAreJobs DEF TypeOK, Table
    <3>3. CASE j \in Rows("job_info")
      BY <3>3 DEF Waiting
    <3>4. CASE j \notin Rows("job_info")
      <4>1. BelowEverySurvivor(j)
        BY <2>2, <3>4 DEF AgedRows, OlderThan, BoundedOrphans
      <4> QED  BY <3>2, <4>1 DEF BelowEverySurvivor, Waiting
    <3> QED  BY <3>3, <3>4
  <2>3. \A j \in cand'[p]["mon_jdls"] : Waiting(j, cutoff[p])
    <3>1. CASE t = "mon_jdls"
      BY <2>1, <2>2, <3>1
    <3>2. CASE t # "mon_jdls"
      BY <1>4, <2>1, <3>2 DEF JdlsAreNext, Table
    <3> QED  BY <3>1, <3>2
  <2>4. \A i \in 1..3 : \A j : ~Handled(p, i, j)'
    BY <2>1 DEF Handled
  <2> QED  BY <1>3, <1>4, <2>1, <2>3, <2>4
<1>7. CASE CheckTracePlausibility(p)
  <2>1. /\ phase[p] = "check" /\ UNCHANGED <<step, cutoff, cand, verified, kept>>
        /\ \/ phase'[p] = "exit" /\ result'[p] = "aborted"
           \/ phase'[p] = "verify"
        /\ step[p] = 1
    BY <1>0, <1>7 DEF CheckTracePlausibility, TypeOK, IInv, PassInv, GuardFirst
  <2>2. \A i \in 1..3 : \A j : ~Handled(p, i, j)'
    BY <2>1 DEF Handled
  <2>3. JdlsAreNext(p)
    BY <2>1 DEF JdlsAreNext
  <2> QED  BY <1>3, <1>4, <2>1, <2>2, <2>3
<1>8. CASE ClassifyCandidates(p)
  <2>0. PICK t \in Table : t = DELETE_ORDER[step[p]]
    BY <1>0, TablesAreTable
  <2>1. /\ phase[p] = "verify" /\ phase'[p] = "delete"
        /\ UNCHANGED <<step, cutoff, cand>>
        /\ verified'[p] = cand[p][t] \cap Replicated(t)
        /\ kept'[p] = kept[p] \cup ({t} \X (cand[p][t] \ Replicated(t)))
    BY <1>0, <1>8, <2>0 DEF ClassifyCandidates, PresentJobIds, TypeOK
  <2>2. JdlsAreNext(p)' => JdlsAreNext(p)
    BY <2>1 DEF JdlsAreNext
  <2>3. ASSUME NEW i \in 1..3, NEW j \in cand[p][DELETE_ORDER[i]], Handled(p, i, j)'
        PROVE  <<DELETE_ORDER[i], j>> \in kept'[p] \/ Collected(DELETE_ORDER[i], j, cutoff[p])
    <3>1. CASE i < step[p]
      BY <1>4, <2>1, <2>3, <3>1 DEF Handled
    <3>2. CASE i = step[p]
      <4>1. j \notin verified'[p]
        BY <1>0, <2>1, <2>3, <3>2 DEF Handled
      <4> QED  BY <2>0, <2>1, <2>3, <3>2, <4>1
    <3> QED  BY <1>0, <2>1, <2>3, <3>1, <3>2 DEF Handled
  <2> QED  BY <1>3, <1>4, <2>1, <2>2, <2>3
<1>9. CASE FinishTable(p)
  <2>1. /\ phase[p] = "delete" /\ verified[p] = {}
        /\ UNCHANGED <<cutoff, cand, kept>>
        /\ \/ phase'[p] = "verify" /\ step'[p] = step[p] + 1
           \/ phase'[p] = "exit" /\ step[p] = 3
    BY <1>0, <1>9 DEF FinishTable, TypeOK
  <2>2. ~JdlsAreNext(p)'
    BY <1>0, <2>1 DEF JdlsAreNext
  <2>3. ASSUME NEW i \in 1..3, NEW j, Handled(p, i, j)' PROVE Handled(p, i, j)
    BY <1>0, <2>1, <2>3 DEF Handled
  <2> QED  BY <1>3, <1>4, <2>1, <2>2, <2>3
<1>10. CASE Crash(p)
  <2>1. /\ phase[p] # "idle" /\ phase'[p] = "exit" /\ result'[p] = "failed" /\ cutoff' = cutoff
    BY <1>10 DEF Crash, TypeOK, IInv, Active
  <2>2. (\A i \in 1..3 : \A j : ~Handled(p, i, j)') /\ ~JdlsAreNext(p)'
    BY <2>1 DEF Handled, JdlsAreNext
  <2> QED  BY <1>3, <1>4, <2>1, <2>2
<1> QED  BY <1>5, <1>6, <1>7, <1>8, <1>9, <1>10 DEF PassStep

LEMMA CollectStep ==
  ASSUME OnePass, RowsArePrompt, IInv, [Next]_vars, NEW p \in Passes, CollectInv(p)
  PROVE  CollectInv(p)'
<1>1. \A q \in Passes : q = p
  BY DEF OnePass
<1>2. CASE DeleteBatch(p)
  BY <1>2, BatchIsCollected
<1>3. CASE ~DeleteBatch(p) /\ (Start(p) \/ PassStep(p) \/ Crash(p))
  BY <1>3, PassCollects
<1>4. CASE ~DeleteBatch(p) /\ UNCHANGED <<passVars, crashes>>
  BY <1>1, <1>4, CollectStays DEF passVars
<1> QED  BY <1>1, <1>2, <1>3, <1>4 DEF Next, RetentionNext, PassStep, vars

(* A pass that no other overlaps and that exits 0 has left no candidate in *)
(* the reach of its DELETEs, although writers revive rows and new jobs     *)
(* arrive between its statements, as long as rows become visible within    *)
(* the retention window.  mon_jdls goes first for this reason.             *)
THEOREM CleanExitCollectsHolds ==
  OnePass /\ RowsArePrompt /\ Spec => []CleanExitCollects
<1> SUFFICES ASSUME OnePass, RowsArePrompt PROVE Spec => []CleanExitCollects
  OBVIOUS
<1> DEFINE Inv == IInv /\ \A p \in Passes : CollectInv(p)
<1>1. Init => Inv
  <2>1. Init => \A p \in Passes : CollectInv(p)
    BY DEF Init, CollectInv, JdlsAreNext, HandledAreCollected, Handled
  <2> QED  BY <2>1, IInvInit
<1>2. Inv /\ [Next]_vars => Inv'
  BY IInvStep, CollectStep
<1>3. Inv => CleanExitCollects
  <2> SUFFICES ASSUME Inv, NEW p \in Passes, phase[p] = "exit", result[p] = "ok",
                      NEW t \in Table, NEW j \in cand[p][t], j \in AgedRows(t, cutoff[p])
               PROVE  FALSE
    BY DEF CleanExitCollects
  <2>1. PICK i \in 1..3 : t = DELETE_ORDER[i]
    <3>1. \E i \in 1..3 : t = DELETE_ORDER[i]
      <4>1. t = DELETE_ORDER[1] \/ t = DELETE_ORDER[2] \/ t = DELETE_ORDER[3]
        BY DEF Table, DELETE_ORDER
      <4> QED  BY <4>1
    <3> QED  BY <3>1
  <2>2. kept[p] = {}
    BY DEF IInv, PassInv, CandidatesAccounted
  <2>3. Collected(t, j, cutoff[p])
    BY <2>1, <2>2 DEF CollectInv, HandledAreCollected, Handled
  <2>4. /\ TypeOK /\ cutoff[p] \in Int
        /\ \A k \in Rows("job_info") : k \in Nat
        /\ \A u \in Table : \A k \in Rows(u) : landing[u][k] \in Int
    <3>1. TypeOK /\ cutoff[p] \in Int
      BY DEF IInv, TypeOK
    <3>2. \A k \in Rows("job_info") : k \in Nat
      BY <3>1, RowsAreJobs, StoresAssumption DEF TypeOK, Table
    <3>3. ASSUME NEW u \in Table, NEW k \in Rows(u) PROVE landing[u][k] \in Int
      BY <3>1, <3>3, StampsAreNat DEF TypeOK
    <3> QED  BY <3>1, <3>2, <3>3
  <2>5. j \in Rows(t) /\ j \in Nat
    BY <2>4, AgedRowsAreRows, RowsAreJobs, StoresAssumption DEF TypeOK
  <2>6. CASE t = "mon_jdls"
    <3>1. PICK k \in Rows("job_info") : k <= j /\ landing["job_info"][k] >= cutoff[p]
      BY <2>3, <2>5, <2>6 DEF Collected
    <3>2. j \in Rows("job_info") => landing["job_info"][j] >= cutoff[p]
      BY <2>3, <2>5, <2>6 DEF Collected
    <3>3. j \notin OlderThan("job_info", cutoff[p])
      BY <2>4, <3>2 DEF OlderThan, Table
    <3>4. j \in AgedRows("mon_jdls", cutoff[p])
      BY <2>6
    <3>5. j \in BoundedOrphans
      BY <3>3, <3>4 DEF AgedRows
    <3>6. BelowEverySurvivor(j)
      BY <3>5 DEF BoundedOrphans
    <3>7. j < k /\ k \in Nat
      BY <2>4, <3>1, <3>6 DEF BelowEverySurvivor
    <3> QED  BY <2>5, <3>1, <3>7
  <2>7. CASE t # "mon_jdls"
    BY <2>3, <2>4, <2>5, <2>7 DEF Collected, AgedRows, OlderThan
  <2> QED  BY <2>6, <2>7
<1> HIDE DEF Inv
<1> QED  BY <1>1, <1>2, <1>3, PTL DEF Spec
=============================================================================
