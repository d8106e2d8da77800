---------------------------- MODULE ExtremaProofs ----------------------------
(***************************************************************************)
(* What Min and Max of the community modules return: the facts the other   *)
(* proofs need about the first and the last of a set of numbers.           *)
(***************************************************************************)
EXTENDS Integers, FiniteSetsExt, WellFoundedInduction, TLAPS

USE Zenon

\* A non-empty set of naturals has a least element.
LEMMA LeastExists ==
  ASSUME NEW S \in SUBSET Nat, S # {}
  PROVE  \E x \in S : \A y \in S : x <= y
<1>1. PICK x \in S : \A y \in S : ~(<<y, x>> \in OpToRel(<, Nat))
  BY NatLessThanWellFounded, WFMin
<1>2. \A y \in S : ~(y < x)
  BY <1>1 DEF OpToRel
<1>3. \A y \in S : x <= y
  BY <1>2, SMT
<1> QED  BY <1>3

\* Min picks the least element.
LEMMA MinProps ==
  ASSUME NEW S \in SUBSET Nat, S # {}
  PROVE  Min(S) \in S /\ \A y \in S : Min(S) <= y
BY LeastExists DEF Min

\* Max picks the greatest element of a bounded set.
LEMMA MaxProps ==
  ASSUME NEW n \in Nat, NEW S \in SUBSET (0 .. n), S # {}
  PROVE  Max(S) \in S /\ \A y \in S : y <= Max(S)
<1> DEFINE D == {n - x : x \in S}
<1>1. \A x \in S : n - x \in Nat
  BY SMT
<1>2. D \in SUBSET Nat /\ D # {}
  BY <1>1
<1>3. PICK d \in D : \A e \in D : d <= e
  BY <1>2, LeastExists
<1>4. PICK x \in S : d = n - x
  BY <1>3
<1>5. \A y \in S : y <= x
  BY <1>3, <1>4, SMT
<1>6. \E z \in S : \A y \in S : z >= y
  BY <1>4, <1>5, SMT
<1>7. Max(S) \in S /\ \A y \in S : Max(S) >= y
  BY <1>6 DEF Max
<1> QED  BY <1>7, SMT
==============================================================================
