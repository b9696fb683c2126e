----------------------------- MODULE LeastElements -----------------------------
(***************************************************************************)
(* The first and the last of the places of a list that have something, if  *)
(* any have. It is what induction comes to in the proofs about lists: the  *)
(* order of the naturals is well founded.                                  *)
(***************************************************************************)
EXTENDS Integers, FiniteSetsExt, WellFoundedInduction, TLAPS

\* The theorems of WellFoundedInduction on the order of the naturals, without the
\* operator that one of them speaks of.
LEMMA LessIsWellFounded ==
  \E R : IsWellFoundedOn(R, Nat) /\ \A x, y \in Nat : x < y => <<x, y>> \in R
<1>1. IsWellFoundedOn(OpToRel(<, Nat), Nat)
  BY NatLessThanWellFounded
<1>2. \A x, y \in Nat : x < y => <<x, y>> \in OpToRel(<, Nat)
  BY DEF OpToRel
<1>. QED
  BY <1>1, <1>2, Zenon

\* Any naturals have a least one.
LEMMA LeastThereIs ==
  ASSUME NEW T, T \subseteq Nat, T # {}
  PROVE  \E n \in T : \A m \in T : n <= m
<1>1. PICK R : IsWellFoundedOn(R, Nat) /\ \A x, y \in Nat : x < y => <<x, y>> \in R
  BY LessIsWellFounded
<1>2. PICK x \in T : \A y \in T : ~ (<<y, x>> \in R)
  BY <1>1, WFMin, ZenonT(40)
<1>3. ASSUME NEW y \in T PROVE x <= y
  <2>1. ~ (y < x)
    BY <1>1, <1>2
  <2>. QED
    BY <2>1
<1>. QED
  BY <1>3

\* The places of a list that have something, if there are any, have a last one.
LEMMA LastThereIs ==
  ASSUME NEW n \in Nat, NEW T, T \subseteq 1..n, T # {}
  PROVE  \E last \in T : \A other \in T : other <= last
<1>. DEFINE Back == {n - i : i \in T}
<1>1. Back \subseteq Nat /\ Back # {}
  <2>1. ASSUME NEW b \in Back PROVE b \in Nat
    <3>1. PICK i \in T : b = n - i
      OBVIOUS
    <3>. QED
      BY <3>1
  <2>2. PICK i \in T : TRUE
    OBVIOUS
  <2>3. n - i \in Back
    OBVIOUS
  <2>. QED
    BY <2>1, <2>3
<1>2. PICK b \in Back : \A other \in Back : b <= other
  BY <1>1, LeastThereIs
<1>3. PICK last \in T : b = n - last
  OBVIOUS
<1>4. ASSUME NEW other \in T PROVE other <= last
  <2>1. n - other \in Back
    OBVIOUS
  <2>2. n - last <= n - other
    BY <2>1, <1>2, <1>3
  <2>3. last \in Nat /\ other \in Nat
    OBVIOUS
  <2>. HIDE DEF Back
  <2>. QED
    BY <2>2, <2>3
<1>. QED
  BY <1>4

\* Min is one of them.
LEMMA MinIsThere ==
  ASSUME NEW T, T \subseteq Nat, T # {}
  PROVE  Min(T) \in T /\ \A m \in T : Min(T) <= m
<1>1. PICK n \in T : \A m \in T : n <= m
  BY LeastThereIs
<1>. QED
  BY <1>1 DEF Min
=============================================================================
