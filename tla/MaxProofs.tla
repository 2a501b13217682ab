----------------------------- MODULE MaxProofs -----------------------------
(***************************************************************************)
(* The least and the greatest element of a set of naturals.  Watermarks,   *)
(* marks over dumps and the choice of a last entry are all written with    *)
(* Max, which is a CHOOSE: what it returns is known only once a greatest   *)
(* element exists.                                                         *)
(***************************************************************************)
EXTENDS Integers, FiniteSetsExt, FiniteSetTheorems, TLAPS

(* A nonempty set of naturals has a least element. *)
LEMMA LeastExists ==
  ASSUME NEW S \in SUBSET Nat, S # {}
  PROVE  \E i \in S : \A k \in S : i <= k
<1>1. PICK i \in S : \A k \in S : <<k, i>> \notin OpToRel(<, Nat)
  BY WFMin, NatLessThanWellFounded, Zenon
<1>2. \A k \in S : ~ (k < i)
  BY <1>1, Zenon DEF OpToRel
<1> QED  BY <1>2

(* Induction, with a set in the place of a predicate. *)
LEMMA SetInduction ==
  ASSUME NEW S \in SUBSET Nat, 0 \in S, \A n \in S : n + 1 \in S
  PROVE  S = Nat
<1> SUFFICES ASSUME Nat \ S # {} PROVE FALSE
  OBVIOUS
<1>1. PICK i \in Nat \ S : \A k \in Nat \ S : i <= k
  BY LeastExists
<1>2. i # 0 /\ i - 1 \in Nat /\ i - 1 \notin Nat \ S
  BY <1>1
<1>3. (i - 1) + 1 \in S
  BY <1>2
<1> QED  BY <1>1, <1>3

LEMMA MaxOfBounded ==
  ASSUME NEW S \in SUBSET Nat, S # {}, NEW b \in Nat, \A x \in S : x <= b
  PROVE  Max(S) \in S /\ \A x \in S : x <= Max(S)
<1> DEFINE gaps == {b - x : x \in S}
<1>1. gaps \in SUBSET Nat /\ gaps # {}
  <2>1. \A x \in S : b - x \in Nat
    OBVIOUS
  <2>2. gaps \in SUBSET Nat
    BY <2>1, Zenon
  <2>3. PICK x \in S : TRUE
    OBVIOUS
  <2>4. b - x \in gaps
    BY <2>3
  <2> QED  BY <2>2, <2>4
<1>2. PICK g \in gaps : \A h \in gaps : g <= h
  BY <1>1, LeastExists
<1>3. PICK m \in S : g = b - m
  BY <1>2
<1>4. \A x \in S : m >= x
  BY <1>2, <1>3
<1>5. Max(S) \in S /\ \A x \in S : Max(S) >= x
  <2> HIDE DEF gaps
  <2> QED  BY <1>4, Zenon DEF Max
<1> QED  BY <1>5

(* A finite set of naturals is bounded: add its elements one by one. *)
LEMMA FiniteIsBounded ==
  ASSUME NEW S \in SUBSET Nat, IsFiniteSet(S)
  PROVE  \E b \in Nat : \A x \in S : x <= b
<1>1. PICK n \in Nat : ExistsSurjection(1..n, S)
  BY FS_NatSurjection, Zenon
<1>2. PICK f \in [1..n -> S] : \A x \in S : \E i \in 1..n : f[i] = x
  BY <1>1 DEF ExistsSurjection, Surjection
<1> DEFINE covered == {k \in Nat : \E b \in Nat : \A i \in 1..n : i <= k => f[i] <= b}
<1>3. 0 \in covered
  OBVIOUS
<1>4. ASSUME NEW k \in covered PROVE k + 1 \in covered
  <2>1. PICK b \in Nat : \A i \in 1..n : i <= k => f[i] <= b
    OBVIOUS
  <2>2. CASE k + 1 \notin 1..n
    BY <2>1, <2>2
  <2>3. CASE k + 1 \in 1..n
    <3>1. f[k + 1] \in Nat
      BY <1>2, <2>3
    <3>2. PICK c \in Nat : c >= b /\ c >= f[k + 1]
      BY <3>1
    <3>3. \A i \in 1..n : i <= k + 1 => i <= k \/ i = k + 1
      OBVIOUS
    <3>4. \A i \in 1..n : f[i] \in Nat
      BY <1>2
    <3>5. \A i \in 1..n : i <= k + 1 => f[i] <= c
      BY <2>1, <3>2, <3>3, <3>4
    <3> QED  BY <3>5
  <2> QED  BY <2>2, <2>3
<1>5. covered = Nat
  <2> HIDE DEF covered
  <2> QED  BY <1>3, <1>4, SetInduction, covered \subseteq Nat DEF covered
<1>6. PICK b \in Nat : \A i \in 1..n : i <= n => f[i] <= b
  <2>1. n \in covered
    <3> HIDE DEF covered
    <3> QED  BY <1>5
  <2> QED  BY <2>1
<1>7. \A x \in S : x <= b
  <2> HIDE DEF covered
  <2> SUFFICES ASSUME NEW x \in S PROVE x <= b
    OBVIOUS
  <2>1. PICK i \in 1..n : f[i] = x
    BY <1>2
  <2>2. i <= n
    OBVIOUS
  <2> QED  BY <1>6, <2>1, <2>2
<1> QED  BY <1>7

LEMMA MaxOfFinite ==
  ASSUME NEW S \in SUBSET Nat, S # {}, IsFiniteSet(S)
  PROVE  Max(S) \in S /\ \A x \in S : x <= Max(S)
BY FiniteIsBounded, MaxOfBounded
=============================================================================
