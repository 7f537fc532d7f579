----------------------------- MODULE Induction -----------------------------
(***************************************************************************)
(* The least number of a set, and induction over the natural numbers for   *)
(* the sets of numbers a proof defines, from the fact that < is            *)
(* well-founded on them.                                                   *)
(***************************************************************************)
EXTENDS Integers, WellFoundedInduction, TLAPS

\* A set of numbers has a least one, unless it is empty.
LEMMA Least ==
  ASSUME NEW S, S \subseteq Nat, S # {}
  PROVE  \E x \in S : \A y \in S : x <= y
<1> DEFINE R == OpToRel(<, Nat)
<1>1. IsWellFoundedOn(R, Nat)
  BY NatLessThanWellFounded
<1> HIDE DEF R
<1>2. PICK x \in S : \A y \in S : ~ (<<y, x>> \in R)
  BY <1>1, WFMin, Zenon
<1>3. ASSUME NEW y \in S
      PROVE  x <= y
  <2>1. x \in Nat /\ y \in Nat /\ ~ (<<y, x>> \in R)
    BY <1>2
  <2> QED
    BY <2>1 DEF R, OpToRel
<1> QED
  BY <1>3

\* A set with 0, and with n + 1 if with n, holds every number: if one were
\* missing, so would be one below the least that is.
LEMMA Induction ==
  ASSUME NEW P, 0 \in P, \A n \in Nat : n \in P => n + 1 \in P
  PROVE  \A n \in Nat : n \in P
<1> DEFINE T == Nat \ P
<1> SUFFICES ASSUME T # {}
             PROVE  FALSE
  OBVIOUS
<1>1. T \subseteq Nat
  OBVIOUS
<1> HIDE DEF T
<1>2. PICK x \in T : \A y \in T : x <= y
  BY <1>1, Least
<1>3. x - 1 \in T /\ x \in Nat
  <2>1. x \in Nat /\ x # 0 /\ x \notin P
    BY DEF T
  <2>2. x - 1 \in Nat /\ (x - 1) + 1 = x
    BY <2>1
  <2> QED
    BY <2>1, <2>2 DEF T
<1>4. ~ (x <= x - 1)
  BY <1>3
<1> QED
  BY <1>2, <1>3, <1>4
=============================================================================
