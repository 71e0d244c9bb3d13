---------------------------- MODULE NaturalOrder ----------------------------
(* Least elements and counting up, for the loops of Routing and the choices *)
(* of Startup.  Both come from the well-founded order of the naturals, with *)
(* sets in the place of predicates.                                         *)
EXTENDS FiniteSetsExt, WellFoundedInduction, TLAPS

\* A set of naturals that is not empty has a least element.
LEMMA LeastNatural ==
    ASSUME NEW S, S \subseteq Nat, S # {}
    PROVE  \E m \in S : \A n \in S : m <= n
<1> DEFINE Less == OpToRel(<, Nat)
<1>1. IsWellFoundedOn(Less, Nat)
    BY NatLessThanWellFounded DEF Less
<1>2. \A m \in S, n \in S : n < m => <<n, m>> \in Less
    BY DEF OpToRel
<1> HIDE DEF Less
<1>3. PICK m \in S : \A n \in S : <<n, m>> \notin Less
    BY <1>1, WFMin
<1>4. \A n \in S : ~(n < m)
    BY <1>2, <1>3
<1>5. \A n \in S : m <= n
    BY <1>4
<1> QED
    BY <1>5

\* It is the one that Min chooses.
LEMMA MinIsLeast ==
    ASSUME NEW S, S \subseteq Nat, S # {}
    PROVE  Min(S) \in S /\ \A n \in S : Min(S) <= n
BY LeastNatural DEF Min

\* What holds of 0 and is passed on from each number to the next holds up to n.
LEMMA CountingUp ==
    ASSUME NEW n \in Nat, NEW T, 0 \in T, \A i \in 0..(n - 1) : i \in T => i + 1 \in T
    PROVE  0..n \subseteq T
<1> DEFINE S == (0..n) \ T
<1> SUFFICES ASSUME S # {} PROVE FALSE
    OBVIOUS
<1>1. PICK m \in S : \A k \in S : m <= k
  <2>1. S \subseteq Nat
      OBVIOUS
  <2> HIDE DEF S
  <2> QED
      BY <2>1, LeastNatural
<1>2. m # 0 /\ m \in 0..n /\ m \notin T
    OBVIOUS
<1>3. m - 1 \in 0..(n - 1) /\ m - 1 \notin S
    BY <1>1, <1>2
<1> QED
    BY <1>2, <1>3
=============================================================================
