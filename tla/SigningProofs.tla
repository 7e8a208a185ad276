----------------------------- MODULE SigningProofs -----------------------------
(* Lemmas about the operators of Signing, for any number of inputs.             *)
EXTENDS Signing, WellFoundedInduction, TLAPS

\* A set of natural numbers has a least element.
LEMMA LeastNumber ==
  ASSUME NEW S, S \subseteq Nat, S # {}
  PROVE  Min(S) \in S /\ \A y \in S : Min(S) <= y
<1>1. PICK x \in S : \A y \in S : <<y, x>> \notin OpToRel(<, Nat)
  BY NatLessThanWellFounded, WFMin, Zenon
<1>2. \A y \in S : ~ (y < x)
  BY <1>1, Zenon DEF OpToRel
<1>3. \A y \in S : x <= y
  BY <1>2
<1> QED
  BY <1>3 DEF Min

LEMMA EarlierInputs ==
  ASSUME NEW inputs, NEW n \in Nat
  PROVE  EarlierWithSameKey(inputs, n) \subseteq 0..(n - 1)
  BY DEF EarlierWithSameKey

\* sign_get_reference_index finds the first input of the key, if there is an
\* earlier one, and says so unambiguously as long as 255 is no input number.
LEMMA ReferenceIndexIsFirst ==
  ASSUME NEW inputs, NEW n \in 0..NoReference
  PROVE  /\ ReferenceIndex(inputs, n) \in Nat
         /\ ReferenceIndex(inputs, n) = NoReference <=> EarlierWithSameKey(inputs, n) = {}
         /\ ReferenceIndex(inputs, n) # NoReference =>
              /\ ReferenceIndex(inputs, n) \in EarlierWithSameKey(inputs, n)
              /\ \A i \in EarlierWithSameKey(inputs, n) : ReferenceIndex(inputs, n) <= i
<1> DEFINE S == EarlierWithSameKey(inputs, n)
<1>1. S \subseteq 0..(n - 1)
  BY EarlierInputs
<1>2. \A x \in S : x \in Nat /\ x < n
  BY <1>1
<1> HIDE DEF S
<1>3. CASE S = {}
  BY <1>3 DEF ReferenceIndex, S, NoReference
<1>4. CASE S # {}
  <2>1. Min(S) \in S /\ \A y \in S : Min(S) <= y
    <3>1. S \subseteq Nat
      BY <1>2
    <3> QED
      BY <3>1, <1>4, LeastNumber
  <2>2. Min(S) \in Nat /\ Min(S) # NoReference
    BY <2>1, <1>2 DEF NoReference
  <2>3. ReferenceIndex(inputs, n) = Min(S)
    BY <1>4 DEF ReferenceIndex, S
  <2> QED
    BY <1>4, <2>1, <2>2, <2>3 DEF S
<1> QED
  BY <1>3, <1>4
================================================================================
