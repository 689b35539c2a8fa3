---------------------------- MODULE SeqInduction ----------------------------
(***************************************************************************)
(* Induction over the naturals and over sequences, stated with sets: what  *)
(* holds of zero and is passed on to the successor is a subset of Nat that *)
(* is all of Nat.  In this form a proof names the set of the numbers, or   *)
(* of the sequences, that have the property it is after.                   *)
(***************************************************************************)
EXTENDS Integers, Sequences, SequenceTheorems, WellFoundedInduction, TLAPS

(* The least number principle.                                             *)
LEMMA NatMin ==
    ASSUME NEW S \in SUBSET Nat, S # {}
    PROVE  \E m \in S : \A k \in S : m <= k
  <1> DEFINE R == {p \in Nat \X Nat : p[1] < p[2]}
  <1>1. IsWellFoundedOn(R, Nat)
    BY NatLessThanWellFounded DEF OpToRel
  <1>2. PICK m \in S : \A k \in S : ~ (<<k, m>> \in R)
    BY <1>1, WFMin
  <1>3. ASSUME NEW k \in S PROVE m <= k
    <2>1. ~ (<<k, m>> \in R) /\ k \in Nat /\ m \in Nat
      BY <1>2
    <2>2. ~ (<<k, m>>[1] < <<k, m>>[2])
      BY <2>1
    <2> QED
      BY <2>1, <2>2
  <1> QED
    BY <1>3

(* A set of naturals that contains 0 and every successor is Nat.           *)
LEMMA NatAll ==
    ASSUME NEW S \in SUBSET Nat, 0 \in S, \A n \in S : n + 1 \in S
    PROVE  S = Nat
  <1> SUFFICES ASSUME Nat \ S # {} PROVE FALSE
    OBVIOUS
  <1>1. PICK m \in Nat \ S : \A k \in Nat \ S : m <= k
    BY NatMin
  <1>2. m # 0 /\ m - 1 \in Nat
    BY <1>1
  <1>3. m - 1 \in S
    BY <1>1, <1>2
  <1>4. (m - 1) + 1 \in S
    BY <1>3
  <1> QED
    BY <1>1, <1>4

(* A set of sequences that contains the empty one and every extension of   *)
(* its members is the set of all sequences.                                *)
LEMMA SeqAll ==
    ASSUME NEW E, NEW T \in SUBSET Seq(E), <<>> \in T,
           \A s \in T, e \in E : Append(s, e) \in T
    PROVE  T = Seq(E)
  <1> DEFINE S == {n \in Nat : \A s \in Seq(E) : Len(s) = n => s \in T}
  <1>1. 0 \in S
    <2>1. \A s \in Seq(E) : Len(s) = 0 => s = <<>>
      OBVIOUS
    <2> QED
      BY <2>1
  <1>2. ASSUME NEW n \in S PROVE n + 1 \in S
    <2> SUFFICES ASSUME NEW s \in Seq(E), Len(s) = n + 1 PROVE s \in T
      OBVIOUS
    <2>1. s # <<>>
      OBVIOUS
    <2>2. PICK r \in Seq(E), e \in E : s = Append(r, e)
      BY <2>1, SequenceEmptyOrAppend
    <2>3. Len(r) = n
      BY <2>2
    <2> QED
      BY <2>2, <2>3
  <1>3. S = Nat
    <2> HIDE DEF S
    <2>1. S \in SUBSET Nat
      BY DEF S
    <2> QED
      BY <1>1, <1>2, <2>1, NatAll
  <1>4. ASSUME NEW s \in Seq(E) PROVE s \in T
    <2>1. Len(s) \in S
      BY <1>3
    <2> QED
      BY <2>1
  <1> QED
    BY <1>4
=============================================================================
