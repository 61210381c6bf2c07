-------------------------------- MODULE NaturalLemmas --------------------------------
(***************************************************************************)
(* Induction over the natural numbers, stated about sets: what the proofs  *)
(* about sums and about the order of a ledger rest on.                     *)
(***************************************************************************)
EXTENDS Naturals, WellFoundedInduction, TLAPS

\* A set of natural numbers that is not empty has a least one: what stands here for
\* induction, about sets and not about operators.
LEMMA LeastNatural ==
    ASSUME NEW S \in SUBSET Nat, S # {}
    PROVE  \E m \in S : \A k \in S : m <= k
<1>1. PICK m \in S : \A k \in S : <<k, m>> \notin OpToRel(<, Nat)
  BY WFMin, NatLessThanWellFounded, Zenon
<1>2. ASSUME NEW k \in S
      PROVE  ~ k < m
  BY <1>1, Zenon DEF OpToRel
<1> QED
  BY <1>2

\* A set with 0 and every successor is the set of natural numbers.
LEMMA AllNaturals ==
    ASSUME NEW S \in SUBSET Nat, 0 \in S, \A n \in S : n + 1 \in S
    PROVE  S = Nat
<1> SUFFICES ASSUME Nat \ S # {}
             PROVE  FALSE
  OBVIOUS
<1>1. PICK m \in Nat \ S : \A k \in Nat \ S : m <= k
  BY LeastNatural
<1>2. m - 1 \in S
  BY <1>1
<1> QED
  BY <1>1, <1>2

======================================================================================
