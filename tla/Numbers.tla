--------------------------------- MODULE Numbers --------------------------------
(*****************************************************************************)
(* Least and greatest members of sets of numbers.  The proofs argue with the *)
(* least number that is against a claim where they would use induction.      *)
(*****************************************************************************)
EXTENDS Integers, WellFoundedInduction, TLAPS

(* A set of numbers has a least one ...                                       *)
LEMMA Least ==
  ASSUME NEW S \in SUBSET Nat, S # {}
  PROVE  \E n \in S : \A m \in S : n <= m
<1> DEFINE Smaller == OpToRel(<, Nat)
<1>1. IsWellFoundedOn(Smaller, Nat)
  BY NatLessThanWellFounded, Zenon
<1>2. \A m, n \in Nat : m < n => <<m, n>> \in Smaller
  BY Zenon DEF OpToRel
<1> HIDE DEF Smaller
<1>3. PICK n \in S : \A m \in S : ~(<<m, n>> \in Smaller)
  BY <1>1, WFMin
<1>4. \A m \in S : m \in Nat /\ n \in Nat /\ ~(m < n)
  BY <1>2, <1>3, Zenon
<1> QED
  BY <1>4

(* ... and a bounded one a greatest. *)
LEMMA Greatest ==
  ASSUME NEW top \in Nat, NEW S \in SUBSET (1..top), S # {}
  PROVE  \E n \in S : \A m \in S : m <= n
<1> DEFINE T == {top - m : m \in S}
<1>1. \A m \in S : m \in Nat /\ top - m \in Nat /\ top - m \in T
  OBVIOUS
<1>2. T \in SUBSET Nat /\ T # {} /\ \A t \in T : \E n \in S : t = top - n
  BY <1>1
<1> HIDE DEF T
<1>3. PICK t \in T : \A u \in T : t <= u
  BY <1>2, Least
<1>4. PICK n \in S : t = top - n
  BY <1>2
<1>5. ASSUME NEW m \in S PROVE m <= n
  <2>1. top - n <= top - m /\ n \in Nat /\ m \in Nat
    BY <1>1, <1>3, <1>4
  <2> QED
    BY <2>1
<1> QED
  BY <1>5
=================================================================================
