------------------------------ MODULE NatSets ------------------------------
(***************************************************************************)
(* Induction over the natural numbers for sets of them. The induction      *)
(* theorems of the library take a predicate, which no prover here can      *)
(* instantiate; that the finite sets are well-founded under inclusion      *)
(* takes none, and says the same of the intervals 1 .. n.                  *)
(***************************************************************************)
EXTENDS Naturals, FiniteSetsExt, FiniteSetTheorems, TLAPS

LEMMA LeastElement ==
  ASSUME NEW X \in SUBSET Nat, X /= {}
  PROVE  \E m \in X : \A n \in X : m <= n
<1> DEFINE R == StrictSubsetOrdering(Nat)
           S == FiniteSubsetsOf(Nat)
           T == {1 .. n : n \in X}
<1>1. IsWellFoundedOn(R, S)
  BY FS_StrictSubsetOrderingWellFounded
<1>2. \A n \in Nat : IsFiniteSet(1 .. n) /\ 1 .. n \in SUBSET Nat
  BY FS_Interval
<1>3. T \subseteq S /\ T /= {}
  BY <1>2 DEF FiniteSubsetsOf
<1>4. \E x \in T : \A y \in T : <<y, x>> \notin R
  <2> HIDE DEF R, S, T
  <2>1. QED
    BY <1>1, <1>3, WFMin
<1>5. PICK m \in X : \A n \in X : <<1 .. n, 1 .. m>> \notin R
  BY <1>4
<1>6. \A n \in X : 1 .. n \subseteq 1 .. m => 1 .. n = 1 .. m
  BY <1>2, <1>5 DEF StrictSubsetOrdering
<1>7. ASSUME NEW n \in X, n < m
      PROVE  FALSE
  <2>1. 1 .. n \subseteq 1 .. m
    BY <1>7
  <2>2. m \in 1 .. m /\ m \notin 1 .. n
    BY <1>7
  <2>3. QED
    BY <1>6, <2>1, <2>2
<1>8. QED
  BY <1>7

LEMMA MinIsLeast ==
  ASSUME NEW X \in SUBSET Nat, X /= {}
  PROVE  Min(X) \in X /\ \A n \in X : Min(X) <= n
BY LeastElement DEF Min

LEMMA SetInduction ==
  ASSUME NEW X, 0 \in X, \A n \in Nat : n \in X => n + 1 \in X
  PROVE  Nat \subseteq X
<1> SUFFICES ASSUME Nat \ X /= {}
             PROVE  FALSE
  OBVIOUS
<1>1. PICK m \in Nat \ X : \A n \in Nat \ X : m <= n
  BY LeastElement
<1>2. m - 1 \in Nat /\ m - 1 \notin Nat \ X
  BY <1>1
<1>3. QED
  BY <1>1, <1>2
=============================================================================
