--------------------------- MODULE SiteSonarProofs ---------------------------
(***************************************************************************)
(* What the two cursors of the Site Sonar scrape promise: for any dumps    *)
(* whose rows are in order, any number of failed runs and any limits.      *)
(***************************************************************************)
EXTENDS SiteSonar, MaxProofs

-----------------------------------------------------------------------------
(* Marks, rows and the row cursor.                                         *)

LEMMA RowsAre ==
  /\ \A e \in Epochs : Dump[e] \subseteq AllRows /\ IsFiniteSet(Dump[e])
  /\ \A r \in AllRows : Updated(r) \in Nat /\ \E e \in Epochs : r \in Dump[e]
  /\ {0} \cup Epochs \subseteq Nat
<1>1. \A e \in Epochs : Dump[e] \subseteq AllRows
  BY DEF AllRows
<1>2. \A r \in AllRows : \E e \in Epochs : r \in Dump[e]
  BY DEF AllRows
<1>3. \A e \in Epochs : \A r \in Dump[e] : Updated(r) \in Nat
  BY SiteSonarAssumption DEF Updated
<1> QED  BY <1>1, <1>2, <1>3, SiteSonarAssumption

(* A row is in one dump only, and a later dump's rows are not older.       *)
LEMMA DumpsInOrder ==
  ASSUME NEW e \in Epochs, NEW f \in Epochs, e < f, NEW r \in Dump[e], NEW s \in Dump[f]
  PROVE  r # s /\ Updated(r) <= Updated(s)
BY SiteSonarAssumption DEF Updated

LEMMA RowHasOneDump ==
  ASSUME NEW e \in Epochs, NEW f \in Epochs, NEW r, r \in Dump[e], r \in Dump[f]
  PROVE  e = f
<1>1. e \in Nat /\ f \in Nat
  BY SiteSonarAssumption
<1> QED  BY <1>1, DumpsInOrder

LEMMA MaxOfTwo ==
  ASSUME NEW x \in Nat, NEW y \in Nat
  PROVE  Max({x, y}) \in {x, y} /\ x <= Max({x, y}) /\ y <= Max({x, y})
<1>1. {x, y} \in SUBSET Nat /\ {x, y} # {} /\ \A z \in {x, y} : z <= x + y
  OBVIOUS
<1> QED  BY <1>1, MaxOfBounded

LEMMA MostRecent ==
  ASSUME NEW S \in SUBSET Epochs, S # {}
  PROVE  Max(S) \in S /\ \A e \in S : e <= Max(S)
<1>1. S \in SUBSET Nat /\ IsFiniteSet(S)
  BY SiteSonarAssumption, FS_Subset
<1> QED  BY <1>1, MaxOfFinite

LEMMA AdvanceIs ==
  ASSUME NEW w \in State, NEW e \in Epochs, NEW S \in SUBSET Dump[e]
  PROVE  /\ Advance(w, S) \in State
         /\ Advance(w, S).high_water_mark = w.high_water_mark
         /\ Advance(w, S).last = w.last \/ \E r \in S : Updated(r) = Advance(w, S).last
         /\ Advance(w, S).edge \subseteq w.edge \cup S
<1> DEFINE times == {Updated(r) : r \in S}
           seen == {w.last} \cup times
           last == Max(seen)
           atLast == {r \in S : Updated(r) = last}
           edge == IF last = w.last THEN w.edge \cup atLast ELSE atLast
<1>1. IsFiniteSet(S) /\ S \subseteq AllRows
  BY RowsAre, FS_Subset
<1>2. IsFiniteSet(times)
  <2> DEFINE time == [r \in S |-> Updated(r)]
  <2>1. time \in [S -> times] /\ \A x \in times : \E r \in S : time[r] = x
    OBVIOUS
  <2> HIDE DEF time, times
  <2>2. time \in Surjection(S, times)
    BY <2>1 DEF Surjection
  <2> QED  BY <1>1, <2>2, FS_Surjection
<1>3. w.last \in Nat /\ w.edge \subseteq AllRows
  BY DEF State
<1>4. seen \in SUBSET Nat /\ seen # {}
  BY <1>1, <1>3, RowsAre
<1>5. IsFiniteSet(seen)
  <2> HIDE DEF times
  <2>1. IsFiniteSet({w.last})
    BY FS_Singleton
  <2> QED  BY <1>2, <2>1, FS_Union
<1>6. last \in seen /\ last \in Nat
  <2> HIDE DEF seen
  <2> QED  BY <1>4, <1>5, MaxOfFinite
<1>7. last = w.last \/ \E r \in S : Updated(r) = last
  <2>1. \A x \in seen : x = w.last \/ \E r \in S : Updated(r) = x
    OBVIOUS
  <2> HIDE DEF seen, last
  <2> QED  BY <1>6, <2>1
<1>8. edge \subseteq w.edge \cup S /\ edge \subseteq AllRows
  <2> HIDE DEF last
  <2> QED  BY <1>1, <1>3
<1>9. Advance(w, S) = [w EXCEPT !.last = last, !.edge = edge]
  BY DEF Advance
<1> HIDE DEF last, edge
<1>10. /\ [w EXCEPT !.last = last, !.edge = edge] \in State
       /\ [w EXCEPT !.last = last, !.edge = edge].high_water_mark = w.high_water_mark
       /\ [w EXCEPT !.last = last, !.edge = edge].last = last
       /\ [w EXCEPT !.last = last, !.edge = edge].edge = edge
  BY <1>6, <1>8 DEF State
<1> QED  BY <1>7, <1>8, <1>9, <1>10

-----------------------------------------------------------------------------
(* Type correctness. *)

LEMMA FreshIs == Fresh \in State
BY DEF Fresh, State

LEMMA SonarTypeInit == SonarInit => SonarTypeOK
<1> SUFFICES ASSUME SonarInit PROVE SonarTypeOK
  OBVIOUS
<1> QED  BY FreshIs, SiteSonarAssumption DEF SonarInit, SonarTypeOK

LEMMA SonarTypeStep == SonarTypeOK /\ [SonarNext]_sonarVars => SonarTypeOK'
<1> SUFFICES ASSUME SonarTypeOK, [SonarNext]_sonarVars PROVE SonarTypeOK'
  OBVIOUS
<1> USE DEF SonarTypeOK
<1>1. ASSUME NEW e \in Epochs, Publish(e) PROVE SonarTypeOK'
  BY <1>1 DEF Publish
<1>2. ASSUME NEW n \in Limits, StartRun(n) PROVE SonarTypeOK'
  <2>1. NewFiles(bucket.high_water_mark, n) \subseteq Epochs
    BY DEF NewFiles, SelectFilesToFetch
  <2>2. bucket.high_water_mark \in {0} \cup Epochs
    BY DEF State
  <2>3. leftOut' \subseteq Epochs
    BY <1>2 DEF StartRun, SelectFilesToFetch
  <2> QED  BY <1>2, <2>1, <2>2, <2>3 DEF StartRun
<1>3. CASE FetchFile
  <2>1. Max(todo) \in todo /\ Max(todo) \in Epochs
    BY <1>3, MostRecent DEF FetchFile
  <2> DEFINE S == LetThrough(Max(todo))
  <2>2. S \in SUBSET Dump[Max(todo)] /\ S \subseteq AllRows
    BY <2>1, RowsAre DEF LetThrough
  <2>3. rows' = rows \cup S /\ local' = Advance(local, S)
    BY <1>3 DEF FetchFile
  <2> HIDE DEF S
  <2>4. local' \in State /\ rows' \subseteq AllRows
    BY <2>1, <2>2, <2>3, AdvanceIs
  <2>5. Max({top, Max(todo)}) \in {0} \cup Epochs
    <3>1. top \in Nat /\ Max(todo) \in Nat
      BY <2>1, RowsAre
    <3>2. Max({top, Max(todo)}) \in {top, Max(todo)}
      BY <3>1, MaxOfTwo
    <3> QED  BY <2>1, <3>2
  <2> QED  BY <1>3, <2>4, <2>5 DEF FetchFile
<1>4. CASE EndFetch
  <2>1. local.high_water_mark \in {0} \cup Epochs
    BY DEF State
  <2>2. Max({local.high_water_mark, top}) \in {0} \cup Epochs
    <3>1. local.high_water_mark \in Nat /\ top \in Nat
      BY <2>1, RowsAre
    <3>2. Max({local.high_water_mark, top}) \in {local.high_water_mark, top}
      BY <3>1, MaxOfTwo
    <3> QED  BY <2>1, <3>2
  <2>3. local' \in State
    BY <1>4, <2>2 DEF EndFetch, State
  <2> QED  BY <1>4, <2>3 DEF EndFetch
<1>5. CASE AppendChunk
  <2>1. PICK S \in SUBSET rows :
          sonar' = [r \in AllRows |-> sonar[r] + IF r \in S THEN 1 ELSE 0] /\ rows' = rows \ S
    BY <1>5 DEF AppendChunk
  <2>2. sonar' \in [AllRows -> Nat]
    BY <2>1
  <2> QED  BY <1>5, <2>1, <2>2 DEF AppendChunk
<1>6. CASE Persist
  BY <1>6 DEF Persist, PassOver
<1>7. CASE Kill
  BY <1>7, FreshIs, SiteSonarAssumption DEF Kill
<1>8. CASE UNCHANGED sonarVars
  BY <1>8 DEF sonarVars
<1> QED  BY <1>1, <1>2, <1>3, <1>4, <1>5, <1>6, <1>7, <1>8 DEF SonarNext, Scrape

(* The marks are epochs of dumps, the cursor's edge consists of rows, and  *)
(* the table counts copies, through any number of failed runs.             *)
THEOREM SonarTypeCorrect == SonarSpec => []SonarTypeOK
BY SonarTypeInit, SonarTypeStep, PTL DEF SonarSpec

-----------------------------------------------------------------------------
(* The inductive invariant: where the cursors stand, and where the rows    *)
(* that are on their way come from.                                        *)

(* The row cursor stands at rows of dumps up to the mark.                  *)
FromDumps(last, edge, mark) ==
  /\ last = 0 \/ \E e \in Epochs : e <= mark /\ \E r \in Dump[e] : Updated(r) = last
  /\ \A r \in edge : \E e \in Epochs : e <= mark /\ r \in Dump[e]

(* How far the run is: its rows are from dumps above the mark it started   *)
(* with, and up to this one.                                               *)
Reached == IF at = "load" THEN local.high_water_mark ELSE top

Marks ==
  /\ todo \subseteq published
  /\ top \in {0} \cup published /\ bucket.high_water_mark \in {0} \cup published
  /\ \A e \in todo : e > bucket.high_water_mark
  /\ at # "fetch" => todo = {}
  /\ at = "idle" => rows = {}
  /\ at = "fetch" => local.high_water_mark = bucket.high_water_mark
  /\ at = "load" => local.high_water_mark \in {0} \cup published
  /\ FromDumps(bucket.last, bucket.edge, bucket.high_water_mark)

Underway ==
  at # "idle" =>
    /\ bucket.high_water_mark <= Reached
    /\ FromDumps(local.last, local.edge, Reached)
    /\ \A r \in rows : \E e \in Epochs :
         r \in Dump[e] /\ bucket.high_water_mark < e /\ e <= Reached

(* A row whose dump is still to be fetched has a copy per failure at most. *)
Copies ==
  /\ \A r \in AllRows : sonar[r] <= 1 + kills
  /\ \A r \in rows : sonar[r] <= kills
  /\ \A e \in Epochs : \A r \in Dump[e] :
       \/ e <= bucket.high_water_mark
       \/ at = "load" /\ e <= local.high_water_mark
       \/ sonar[r] <= kills

SInv == SonarTypeOK /\ Marks /\ Underway /\ Copies

Accounted(e) == \A r \in Dump[e] : r \in rows \/ sonar[r] > 0

(* Every dump that the run has passed by is accounted for, except those    *)
(* that its limit, or the limit of an earlier run, left out.               *)
NoneLeftOut ==
  /\ SkippedAreProcessed
  /\ \A e \in published \ (passedOver \cup leftOut) :
       /\ at = "load" /\ e <= local.high_water_mark => Accounted(e)
       /\ at = "fetch" /\ e \notin todo /\ (e <= top \/ \E f \in todo : e < f) => Accounted(e)

LEMMA SonarNumbers ==
  ASSUME SonarTypeOK
  PROVE  /\ top \in Nat /\ kills \in Nat /\ todo \subseteq Epochs /\ published \subseteq Epochs
         /\ local.high_water_mark \in Nat /\ bucket.high_water_mark \in Nat
         /\ local.last \in Nat /\ bucket.last \in Nat
         /\ \A r \in AllRows : sonar[r] \in Nat
         /\ \A e \in Epochs : e \in Nat /\ e > 0
<1>1. \A e \in Epochs : e \in Nat /\ e > 0
  <2>1. Epochs \subseteq Nat \ {0}
    BY SiteSonarAssumption
  <2> QED  BY <2>1
<1>2. local.high_water_mark \in {0} \cup Epochs /\ bucket.high_water_mark \in {0} \cup Epochs
      /\ local.last \in Nat /\ bucket.last \in Nat
  BY DEF SonarTypeOK, State
<1>3. kills \in Nat
  BY SiteSonarAssumption DEF SonarTypeOK
<1> QED  BY <1>1, <1>2, <1>3 DEF SonarTypeOK

LEMMA FurtherMark ==
  ASSUME NEW last, NEW edge, NEW m \in Nat, NEW n \in Nat, m <= n, FromDumps(last, edge, m)
  PROVE  FromDumps(last, edge, n)
<1>1. \A e \in Epochs : e <= m => e <= n
  BY RowsAre
<1> QED  BY <1>1 DEF FromDumps

LEMMA SInvInit == SonarInit => SInv
<1> SUFFICES ASSUME SonarInit PROVE SInv
  OBVIOUS
<1> USE DEF SonarInit
<1>1. /\ bucket.high_water_mark = 0 /\ bucket.last = 0 /\ bucket.edge = {}
      /\ \A r \in AllRows : sonar[r] = 0
  BY DEF Fresh
<1>2. Marks /\ Underway
  BY <1>1 DEF Marks, Underway, FromDumps
<1>3. Copies
  <2>1. \A e \in Epochs : \A r \in Dump[e] : sonar[r] = 0
    BY <1>1, RowsAre
  <2> QED  BY <1>1, <2>1 DEF Copies
<1> QED  BY <1>2, <1>3, SonarTypeInit DEF SInv

LEMMA PublishKeeps ==
  ASSUME SInv, SonarTypeOK', NEW e \in Epochs, Publish(e) PROVE SInv'
<1>1. /\ published \subseteq published'
      /\ UNCHANGED <<at, todo, top, local, rows, sonar, bucket, kills>>
  BY DEF Publish
<1>2. Marks'
  BY <1>1 DEF SInv, Marks
<1>3. Underway' /\ Copies'
  BY <1>1 DEF SInv, Underway, Reached, Copies
<1> QED  BY <1>2, <1>3 DEF SInv

LEMMA StartRunKeeps ==
  ASSUME SInv, SonarTypeOK', NEW n \in Limits, StartRun(n) PROVE SInv'
<1>0. SonarTypeOK /\ Marks /\ Copies /\ bucket.high_water_mark \in Nat
  BY SonarNumbers DEF SInv
<1>1. /\ at = "idle" /\ at' = "fetch" /\ local' = bucket /\ top' = bucket.high_water_mark
      /\ todo' = NewFiles(bucket.high_water_mark, n)
      /\ UNCHANGED <<published, rows, sonar, bucket, kills>>
  BY DEF StartRun
<1>2. \A e \in todo' : e \in published /\ e > bucket.high_water_mark
  BY <1>1 DEF NewFiles, SelectFilesToFetch
<1>3. Marks'
  BY <1>0, <1>1, <1>2 DEF Marks
<1>4. Underway'
  BY <1>0, <1>1 DEF Marks, Underway, Reached
<1>5. Copies'
  BY <1>0, <1>1 DEF Copies
<1> QED  BY <1>3, <1>4, <1>5 DEF SInv

(* Nothing of a dump above the mark is held back by the row cursor.        *)
LEMMA AllLetThrough ==
  ASSUME SInv, NEW e \in Epochs, e > bucket.high_water_mark
  PROVE  LetThrough(e) = Dump[e]
<1>0. /\ bucket.high_water_mark \in Nat /\ e \in Nat
      /\ FromDumps(bucket.last, bucket.edge, bucket.high_water_mark)
  BY SonarNumbers DEF SInv, Marks
<1>1. ASSUME NEW f \in Epochs, f <= bucket.high_water_mark PROVE f < e
  BY <1>0, <1>1, SiteSonarAssumption
<1>2. ASSUME NEW r \in Dump[e] PROVE Updated(r) >= bucket.last
  <2>1. Updated(r) \in Nat
    BY RowsAre
  <2>2. CASE bucket.last = 0
    BY <2>1, <2>2
  <2>3. CASE bucket.last # 0
    <3>1. PICK f \in Epochs : f <= bucket.high_water_mark
                              /\ \E s \in Dump[f] : Updated(s) = bucket.last
      BY <1>0, <2>3 DEF FromDumps
    <3>2. PICK s \in Dump[f] : Updated(s) = bucket.last
      BY <3>1
    <3>3. Updated(s) <= Updated(r) /\ Updated(s) \in Nat
      BY <1>1, <3>1, DumpsInOrder, RowsAre
    <3> QED  BY <2>1, <3>2, <3>3
  <2> QED  BY <2>2, <2>3
<1>3. ASSUME NEW r \in Dump[e] PROVE r \notin bucket.edge
  <2>1. \A f \in Epochs : f <= bucket.high_water_mark => r \notin Dump[f]
    BY <1>1, DumpsInOrder
  <2> QED  BY <1>0, <2>1 DEF FromDumps
<1> QED  BY <1>2, <1>3 DEF LetThrough

LEMMA FetchFileIs ==
  ASSUME SInv, FetchFile
  PROVE  \E e \in todo :
           /\ e \in Epochs /\ e > bucket.high_water_mark /\ \A f \in todo : f <= e
           /\ at = "fetch" /\ rows' = rows \cup Dump[e]
           /\ todo' = todo \ {e}
           /\ top' \in {top, e} /\ top <= top' /\ e <= top'
           /\ local'.high_water_mark = local.high_water_mark
           /\ local'.last = local.last \/ \E r \in Dump[e] : Updated(r) = local'.last
           /\ local'.edge \subseteq local.edge \cup Dump[e]
           /\ UNCHANGED <<published, at, sonar, bucket, kills>>
<1>0. SonarTypeOK /\ Marks /\ local \in State /\ top \in Nat /\ todo \subseteq Epochs
  BY SonarNumbers DEF SInv, SonarTypeOK
<1> DEFINE e == Max(todo)
<1>1. e \in todo /\ e \in Epochs /\ \A f \in todo : f <= e
  BY <1>0, MostRecent DEF FetchFile
<1>2. e > bucket.high_water_mark /\ e \in Nat
  BY <1>0, <1>1, SonarNumbers DEF Marks
<1>3. /\ at = "fetch" /\ rows' = rows \cup LetThrough(e) /\ local' = Advance(local, LetThrough(e))
      /\ todo' = todo \ {e} /\ top' = Max({top, e})
      /\ UNCHANGED <<published, at, sonar, bucket, kills>>
  BY DEF FetchFile
<1> HIDE DEF e
<1>4. LetThrough(e) = Dump[e]
  BY <1>1, <1>2, AllLetThrough
<1>5. top' \in {top, e} /\ top <= top' /\ e <= top'
  BY <1>0, <1>2, <1>3, MaxOfTwo
<1>6. local' = Advance(local, Dump[e]) /\ Dump[e] \in SUBSET Dump[e]
  BY <1>3, <1>4
<1>7. /\ local'.high_water_mark = local.high_water_mark
      /\ local'.last = local.last \/ \E r \in Dump[e] : Updated(r) = local'.last
      /\ local'.edge \subseteq local.edge \cup Dump[e]
  BY <1>0, <1>1, <1>6, AdvanceIs
<1> QED  BY <1>1, <1>2, <1>3, <1>4, <1>5, <1>7

LEMMA FetchFileKeeps == ASSUME SInv, SonarTypeOK', FetchFile PROVE SInv'
<1>0. SonarTypeOK /\ Marks /\ Underway /\ Copies
  BY DEF SInv
<1>1. PICK e \in todo :
        /\ e \in Epochs /\ e > bucket.high_water_mark
        /\ at = "fetch" /\ rows' = rows \cup Dump[e]
        /\ todo' = todo \ {e}
        /\ top' \in {top, e} /\ top <= top' /\ e <= top'
        /\ local'.high_water_mark = local.high_water_mark
        /\ local'.last = local.last \/ \E r \in Dump[e] : Updated(r) = local'.last
        /\ local'.edge \subseteq local.edge \cup Dump[e]
        /\ UNCHANGED <<published, at, sonar, bucket, kills>>
  BY FetchFileIs
<1>2. /\ top \in Nat /\ top' \in Nat /\ bucket.high_water_mark \in Nat /\ e \in Nat
      /\ Reached = top /\ Reached' = top'
  BY <1>0, <1>1, SonarNumbers DEF Reached
<1>3. Marks'
  BY <1>0, <1>1 DEF Marks
<1>4. bucket.high_water_mark <= top'
  BY <1>1, <1>2
<1>5. FromDumps(local'.last, local'.edge, top')
  <2>1. FromDumps(local.last, local.edge, top')
    BY <1>0, <1>1, <1>2, FurtherMark DEF Underway
  <2> QED  BY <1>1, <2>1 DEF FromDumps
<1>6. ASSUME NEW r \in rows'
      PROVE  \E f \in Epochs : r \in Dump[f] /\ bucket.high_water_mark < f /\ f <= top'
  <2>1. CASE r \in Dump[e]
    BY <1>1, <2>1
  <2>2. CASE r \notin Dump[e]
    <3>1. PICK f \in Epochs : r \in Dump[f] /\ bucket.high_water_mark < f /\ f <= top
      BY <1>0, <1>1, <1>2, <2>2 DEF Underway
    <3>2. f <= top'
      BY <1>1, <1>2, <3>1, SonarNumbers, SiteSonarAssumption
    <3> QED  BY <3>1, <3>2
  <2> QED  BY <2>1, <2>2
<1>7. Underway'
  BY <1>1, <1>2, <1>4, <1>5, <1>6 DEF Underway
<1>8. \A r \in Dump[e] : sonar[r] <= kills
  <2>1. ~(e <= bucket.high_water_mark)
    BY <1>1, <1>2
  <2> QED  BY <1>0, <1>1, <2>1 DEF Copies
<1>9. Copies'
  BY <1>0, <1>1, <1>8 DEF Copies
<1> QED  BY <1>3, <1>7, <1>9 DEF SInv

LEMMA EndFetchIs ==
  ASSUME SInv, EndFetch
  PROVE  /\ at = "fetch" /\ todo = {} /\ at' = "load"
         /\ local'.high_water_mark \in {0} \cup published
         /\ local'.high_water_mark = top
         /\ local'.last = local.last /\ local'.edge = local.edge
         /\ UNCHANGED <<published, todo, top, rows, sonar, bucket, kills>>
<1>0. SonarTypeOK /\ Marks /\ Underway
  BY DEF SInv
<1> DEFINE mark == Max({local.high_water_mark, top})
<1>1. /\ at = "fetch" /\ todo = {} /\ at' = "load"
      /\ local' = [local EXCEPT !.high_water_mark = mark]
      /\ UNCHANGED <<published, todo, top, rows, sonar, bucket, kills>>
  BY DEF EndFetch
<1>2. /\ local.high_water_mark \in Nat /\ top \in Nat
      /\ local.high_water_mark = bucket.high_water_mark
      /\ bucket.high_water_mark <= top
  BY <1>0, <1>1, SonarNumbers DEF Marks, Underway, Reached
<1>3. mark = top
  <2>1. mark \in {local.high_water_mark, top} /\ top <= mark
    BY <1>2, MaxOfTwo
  <2> HIDE DEF mark
  <2> QED  BY <1>2, <2>1
<1> HIDE DEF mark
<1>4. /\ local'.high_water_mark = mark /\ local'.last = local.last
      /\ local'.edge = local.edge
  BY <1>0, <1>1 DEF SonarTypeOK, State
<1> QED  BY <1>0, <1>1, <1>3, <1>4 DEF Marks

LEMMA EndFetchKeeps == ASSUME SInv, SonarTypeOK', EndFetch PROVE SInv'
<1>0. SonarTypeOK /\ Marks /\ Underway /\ Copies
  BY DEF SInv
<1>1. Marks' /\ Reached' = Reached
  BY <1>0, EndFetchIs DEF Marks, Reached
<1>2. Underway'
  BY <1>0, <1>1, EndFetchIs DEF Underway
<1>3. Copies'
  BY <1>0, EndFetchIs DEF Copies
<1> QED  BY <1>1, <1>2, <1>3 DEF SInv

LEMMA AppendChunkIs ==
  ASSUME SonarTypeOK, AppendChunk
  PROVE  \E S \in SUBSET rows :
           /\ at = "load" /\ rows' = rows \ S
           /\ \A r \in S : sonar'[r] = sonar[r] + 1
           /\ \A r \in AllRows \ S : sonar'[r] = sonar[r]
           /\ UNCHANGED <<published, at, todo, top, local, bucket, kills>>
<1>1. PICK S \in SUBSET rows :
        /\ sonar' = [r \in AllRows |-> sonar[r] + IF r \in S THEN 1 ELSE 0]
        /\ rows' = rows \ S
  BY DEF AppendChunk
<1>2. \A r \in AllRows : sonar[r] \in Nat
  BY SonarNumbers
<1>3. /\ \A r \in S : sonar'[r] = sonar[r] + 1
      /\ \A r \in AllRows \ S : sonar'[r] = sonar[r]
  BY <1>1, <1>2 DEF SonarTypeOK
<1> QED  BY <1>1, <1>3 DEF AppendChunk

LEMMA AppendChunkKeeps == ASSUME SInv, SonarTypeOK', AppendChunk PROVE SInv'
<1>0. SonarTypeOK /\ Marks /\ Underway /\ Copies
  BY DEF SInv
<1>1. PICK S \in SUBSET rows :
        /\ at = "load" /\ rows' = rows \ S
        /\ \A r \in S : sonar'[r] = sonar[r] + 1
        /\ \A r \in AllRows \ S : sonar'[r] = sonar[r]
        /\ UNCHANGED <<published, at, todo, top, local, bucket, kills>>
  BY <1>0, AppendChunkIs
<1>2. Marks' /\ Underway'
  BY <1>0, <1>1 DEF Marks, Underway, Reached
<1>3. kills \in Nat /\ rows \subseteq AllRows /\ \A r \in AllRows : sonar[r] \in Nat
  BY <1>0, SonarNumbers DEF SonarTypeOK
<1>4. \A r \in AllRows : sonar'[r] <= 1 + kills
  BY <1>0, <1>1, <1>3 DEF Copies
<1>5. \A r \in rows' : sonar'[r] <= kills
  BY <1>0, <1>1, <1>3 DEF Copies
<1>6. ASSUME NEW e \in Epochs, NEW r \in Dump[e]
      PROVE  e <= bucket.high_water_mark \/ e <= local.high_water_mark \/ sonar'[r] <= kills
  <2>1. r \in AllRows
    BY <1>6, RowsAre
  <2>2. CASE r \in S
    <3>1. PICK f \in Epochs : r \in Dump[f] /\ f <= local.high_water_mark
      BY <1>0, <1>1, <2>2 DEF Underway, Reached
    <3>2. e = f
      BY <3>1, RowHasOneDump
    <3> QED  BY <3>1, <3>2
  <2>3. CASE r \notin S
    BY <1>0, <1>1, <2>1, <2>3 DEF Copies
  <2> QED  BY <2>2, <2>3
<1>7. Copies'
  BY <1>1, <1>4, <1>5, <1>6 DEF Copies
<1> QED  BY <1>2, <1>7 DEF SInv

LEMMA PersistKeeps == ASSUME SInv, SonarTypeOK', Persist PROVE SInv'
<1>0. SonarTypeOK /\ Marks /\ Underway /\ Copies
  BY DEF SInv
<1>1. /\ at = "load" /\ rows = {} /\ bucket' = local /\ at' = "idle" /\ todo = {}
      /\ UNCHANGED <<published, todo, top, local, rows, sonar, kills>>
  BY <1>0 DEF Persist, Marks
<1>2. Marks' /\ Underway'
  BY <1>0, <1>1 DEF Marks, Underway, Reached
<1>3. bucket.high_water_mark <= local.high_water_mark
  BY <1>0, <1>1 DEF Underway, Reached
<1>4. \A e \in Epochs : e <= bucket.high_water_mark => e <= local.high_water_mark
  BY <1>0, <1>3, SonarNumbers
<1>5. Copies'
  BY <1>0, <1>1, <1>4 DEF Copies
<1> QED  BY <1>2, <1>5 DEF SInv

LEMMA KillKeeps == ASSUME SInv, SonarTypeOK', Kill PROVE SInv'
<1>0. SonarTypeOK /\ Marks /\ Copies
  BY DEF SInv
<1>1. /\ at' = "idle" /\ kills' = kills + 1 /\ todo' = {} /\ rows' = {} /\ top' = 0
      /\ UNCHANGED <<published, sonar, bucket>>
  BY DEF Kill
<1>2. Marks' /\ Underway'
  BY <1>0, <1>1 DEF Marks, Underway
<1>3. \A r \in AllRows : sonar[r] <= kills' /\ sonar[r] <= 1 + kills'
  BY <1>0, <1>1, SonarNumbers DEF Copies
<1>4. Copies'
  BY <1>1, <1>3, RowsAre DEF Copies
<1> QED  BY <1>2, <1>4 DEF SInv

LEMMA SInvStep == SInv /\ [SonarNext]_sonarVars => SInv'
<1> SUFFICES ASSUME SInv, [SonarNext]_sonarVars PROVE SInv'
  OBVIOUS
<1>1. SonarTypeOK'
  BY SonarTypeStep DEF SInv
<1>2. CASE UNCHANGED sonarVars
  BY <1>1, <1>2 DEF sonarVars, SInv, Marks, Underway, Reached, Copies
<1> QED  BY <1>1, <1>2, PublishKeeps, StartRunKeeps, FetchFileKeeps, EndFetchKeeps,
            AppendChunkKeeps, PersistKeeps, KillKeeps DEF SonarNext, Scrape

LEMMA SInvHolds == SonarSpec => []SInv
BY SInvInit, SInvStep, PTL DEF SonarSpec

(* Whatever the limits: a row is in the table at most once more than runs  *)
(* have failed.                                                            *)
THEOREM DuplicatesOnlyByRetryHolds == SonarSpec => []DuplicatesOnlyByRetry
BY SInvHolds, PTL DEF SInv, Copies, DuplicatesOnlyByRetry

-----------------------------------------------------------------------------
(* No dump is skipped but those that a limit left out.                     *)

LEMMA NoneLeftOutInit == SonarInit => NoneLeftOut
BY DEF SonarInit, NoneLeftOut, SkippedAreProcessed

(* A dump that is accounted for stays so while the run goes on.            *)
LEMMA AccountedStays ==
  ASSUME SonarTypeOK, NEW e \in Epochs, Accounted(e),
         (rows \subseteq rows' /\ sonar' = sonar) \/ AppendChunk
  PROVE  Accounted(e)'
<1>1. \A r \in Dump[e] : r \in AllRows
  BY RowsAre
<1>2. CASE rows \subseteq rows' /\ sonar' = sonar
  BY <1>2 DEF Accounted
<1>3. CASE AppendChunk
  <2>1. PICK S \in SUBSET rows :
          /\ rows' = rows \ S
          /\ \A r \in S : sonar'[r] = sonar[r] + 1
          /\ \A r \in AllRows \ S : sonar'[r] = sonar[r]
    BY <1>3, AppendChunkIs
  <2>2. \A r \in Dump[e] : sonar[r] \in Nat
    BY <1>1, SonarNumbers
  <2> QED  BY <1>1, <2>1, <2>2 DEF Accounted
<1> QED  BY <1>2, <1>3

LEMMA NoneLeftOutStep ==
  SInv /\ SInv' /\ NoneLeftOut /\ [SonarNext]_sonarVars => NoneLeftOut'
<1> SUFFICES ASSUME SInv, SInv', NoneLeftOut, [SonarNext]_sonarVars
             PROVE  NoneLeftOut'
  OBVIOUS
<1>0. /\ SonarTypeOK /\ Marks /\ Underway /\ SkippedAreProcessed
      /\ SonarTypeOK' /\ Marks'
      /\ top \in Nat /\ bucket.high_water_mark \in Nat
      /\ \A e \in published : e \in Epochs /\ e \in Nat /\ e > 0
  <2>1. SonarTypeOK /\ Marks /\ Underway /\ SkippedAreProcessed /\ SonarTypeOK' /\ Marks'
    BY DEF SInv, NoneLeftOut
  <2> QED  BY <2>1, SonarNumbers
<1>1. ASSUME NEW n \in Limits, StartRun(n) PROVE NoneLeftOut'
  <2>1. /\ at' = "fetch" /\ top' = bucket.high_water_mark
        /\ leftOut' = {e \in published : e > bucket.high_water_mark} \ todo'
        /\ UNCHANGED <<published, rows, sonar, bucket, passedOver>>
    BY <1>1 DEF StartRun, SelectFilesToFetch
  <2>2. ASSUME NEW e \in published, e \notin todo', e \notin leftOut', e \notin passedOver
        PROVE  Accounted(e)'
    <3>1. e <= bucket.high_water_mark
      BY <1>0, <2>1, <2>2
    <3> QED  BY <1>0, <2>1, <2>2, <3>1 DEF Accounted, SkippedAreProcessed
  <2>3. SkippedAreProcessed'
    BY <1>0, <2>1 DEF SkippedAreProcessed
  <2> QED  BY <2>1, <2>2, <2>3 DEF NoneLeftOut
<1>2. ASSUME NEW e \in Epochs, Publish(e) PROVE NoneLeftOut'
  <2>1. /\ published' = published \cup {e} /\ \A f \in published : f < e
        /\ UNCHANGED <<at, todo, top, local, rows, sonar, bucket, leftOut, passedOver>>
        /\ e \in Nat /\ e > 0
    BY <1>2, SiteSonarAssumption DEF Publish
  <2>2. ~(e <= bucket.high_water_mark) /\ ~(e <= top) /\ ~(\E f \in todo : e < f)
    BY <1>0, <2>1, SonarNumbers DEF Marks
  <2>3. at = "load" => ~(e <= local.high_water_mark)
    BY <1>0, <2>1, SonarNumbers DEF Marks
  <2>4. SkippedAreProcessed'
    BY <1>0, <2>1, <2>2 DEF SkippedAreProcessed
  <2>5. \A f \in published : Accounted(f) => Accounted(f)'
    BY <2>1 DEF Accounted
  <2> QED  BY <2>1, <2>2, <2>3, <2>4, <2>5 DEF NoneLeftOut
<1>3. CASE FetchFile
  <2>1. PICK h \in todo :
          /\ h \in Epochs /\ \A f \in todo : f <= h
          /\ at = "fetch" /\ rows' = rows \cup Dump[h]
          /\ todo' = todo \ {h} /\ top' \in {top, h}
          /\ UNCHANGED <<published, at, sonar, bucket, leftOut, passedOver>>
    BY <1>3, FetchFileIs DEF FetchFile
  <2>2. h \in Nat /\ h \in published
    BY <1>0, <2>1, SiteSonarAssumption DEF Marks
  <2>3. ASSUME NEW e \in published \ (passedOver \cup leftOut), e \notin todo',
               e <= top' \/ \E f \in todo' : e < f
        PROVE  Accounted(e)'
    <3>1. CASE e = h
      BY <2>1, <3>1 DEF Accounted
    <3>2. CASE e # h
      <4>1. e \notin todo
        BY <2>1, <2>3, <3>2
      <4>2. e <= top \/ \E f \in todo : e < f
        BY <1>0, <2>1, <2>2, <2>3, <3>2
      <4>3. Accounted(e)
        BY <2>1, <4>1, <4>2 DEF NoneLeftOut
      <4> QED  BY <1>0, <2>1, <4>3, AccountedStays
    <3> QED  BY <3>1, <3>2
  <2>4. SkippedAreProcessed'
    BY <1>0, <2>1 DEF SkippedAreProcessed
  <2> QED  BY <2>1, <2>3, <2>4 DEF NoneLeftOut
<1>4. CASE EndFetch
  <2>1. /\ at = "fetch" /\ todo = {} /\ at' = "load" /\ local'.high_water_mark = top
        /\ UNCHANGED <<published, rows, sonar, bucket, leftOut, passedOver>>
    BY <1>4, EndFetchIs DEF EndFetch
  <2>2. \A e \in published \ (passedOver \cup leftOut) :
          e <= local'.high_water_mark => Accounted(e)
    BY <2>1 DEF NoneLeftOut
  <2>3. \A e \in published : Accounted(e) => Accounted(e)'
    BY <2>1 DEF Accounted
  <2>4. SkippedAreProcessed'
    BY <1>0, <2>1 DEF SkippedAreProcessed
  <2> QED  BY <2>1, <2>2, <2>3, <2>4 DEF NoneLeftOut
<1>5. CASE AppendChunk
  <2>1. PICK S \in SUBSET rows :
          /\ at = "load" /\ rows' = rows \ S
          /\ \A r \in S : sonar'[r] = sonar[r] + 1
          /\ \A r \in AllRows \ S : sonar'[r] = sonar[r]
          /\ UNCHANGED <<published, at, todo, top, local, bucket, kills>>
          /\ UNCHANGED <<leftOut, passedOver>>
    BY <1>0, <1>5, AppendChunkIs DEF AppendChunk
  <2>2. \A e \in published : Accounted(e) => Accounted(e)'
    BY <1>0, <1>5, AccountedStays
  <2>3. \A r \in AllRows : sonar[r] \in Nat
    BY <1>0, SonarNumbers
  <2>4. \A r \in AllRows : sonar[r] > 0 => sonar'[r] > 0
    BY <2>1, <2>3
  <2>5. SkippedAreProcessed'
    BY <1>0, <2>1, <2>4, RowsAre DEF SkippedAreProcessed
  <2> QED  BY <2>1, <2>2, <2>5 DEF NoneLeftOut
<1>6. CASE Persist
  <2>1. /\ at = "load" /\ rows = {} /\ bucket' = local /\ at' = "idle"
        /\ UNCHANGED <<published, sonar>>
        /\ \A e \in leftOut : e <= local.high_water_mark => e \in passedOver'
        /\ passedOver \subseteq passedOver'
    BY <1>6 DEF Persist, PassOver
  <2>2. SkippedAreProcessed'
    BY <2>1 DEF NoneLeftOut, Accounted, SkippedAreProcessed
  <2> QED  BY <2>1, <2>2 DEF NoneLeftOut
<1>7. CASE Kill
  <2>1. at' = "idle" /\ UNCHANGED <<published, sonar, bucket, passedOver>>
    BY <1>7 DEF Kill
  <2>2. SkippedAreProcessed'
    BY <1>0, <2>1 DEF SkippedAreProcessed
  <2> QED  BY <2>1, <2>2 DEF NoneLeftOut
<1>8. CASE UNCHANGED sonarVars
  BY <1>8 DEF sonarVars, NoneLeftOut, SkippedAreProcessed, Accounted
<1> QED  BY <1>1, <1>2, <1>3, <1>4, <1>5, <1>6, <1>7, <1>8 DEF SonarNext, Scrape

(* Whatever the limits, a dump at or below the persisted mark has all its  *)
(* rows in the table, whichever runs failed and wherever, unless a limited *)
(* run that completed listed it and left it out.                           *)
THEOREM SkippedAreProcessedHolds == SonarSpec => []SkippedAreProcessed
<1>1. NoneLeftOut => SkippedAreProcessed
  BY DEF NoneLeftOut
<1> QED  BY <1>1, SInvHolds, NoneLeftOutInit, NoneLeftOutStep, PTL DEF SonarSpec
=============================================================================
