---------------------------- MODULE SetInduction ----------------------------
(***************************************************************************)
(* Induction over the natural numbers with a set in place of a predicate,  *)
(* so that no operator is a parameter: the proofs about streams and queues *)
(* collect in a set the lengths for which a fact holds.                    *)
(***************************************************************************)
EXTENDS Integers, WellFoundedInduction, TLAPS

(* Induction, with a set for the predicate: a set that holds 0 and, with   *)
(* every number, the next holds all natural numbers.                       *)
LEMMA NatInSet ==
  ASSUME NEW S, 0 \in S, \A n \in Nat : n \in S => n + 1 \in S
  PROVE  Nat \subseteq S
<1> SUFFICES ASSUME Nat \ S # {} PROVE FALSE
    OBVIOUS
<1> DEFINE less == {ss \in Nat \X Nat : ss[1] < ss[2]}
           T == Nat \ S
<1>1. IsWellFoundedOn(less, Nat)
    BY NatLessThanWellFounded DEF OpToRel
<1>2. T \subseteq Nat /\ T # {}
    OBVIOUS
<1>3. \A m, n \in Nat : m < n => <<m, n>> \in less
    OBVIOUS
<1> HIDE DEF less
<1>4. PICK n \in T : \A m \in T : <<m, n>> \notin less
  <2> HIDE DEF T
  <2> QED BY <1>1, <1>2, WFMin
<1>5. n # 0 /\ n - 1 \in Nat /\ n - 1 < n /\ (n - 1) + 1 = n
    BY <1>4
<1>6. n - 1 \in S
    BY <1>3, <1>4, <1>5
<1> QED BY <1>4, <1>5, <1>6

=============================================================================
