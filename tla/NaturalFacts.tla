---------------------------- MODULE NaturalFacts ----------------------------
(***************************************************************************)
(* Facts about natural numbers that the proofs about the keyboard and the  *)
(* screen share.                                                           *)
(***************************************************************************)
EXTENDS Integers, FiniteSetTheorems, WellFoundedInduction, TLAPS

(* A set of natural numbers that is not empty has a least element.         *)
LEMMA LeastElement ==
  ASSUME NEW S, S \subseteq Nat, S # {}
  PROVE  \E m \in S : \A k \in S : m <= k
<1> DEFINE below == {0..m : m \in S}
           R == StrictSubsetOrdering(Nat)
<1>1. below \subseteq FiniteSubsetsOf(Nat)
  <2>1. ASSUME NEW m \in S PROVE 0..m \subseteq Nat /\ IsFiniteSet(0..m)
    BY FS_Interval
  <2>2. QED
    BY <2>1 DEF FiniteSubsetsOf
<1>2. below # {}
  OBVIOUS
<1>3. IsWellFoundedOn(R, FiniteSubsetsOf(Nat))
  BY FS_StrictSubsetOrderingWellFounded
<1>4. PICK x \in below : \A y \in below : ~(<<y, x>> \in R)
  <2> HIDE DEF below, R
  <2> QED
    BY <1>1, <1>2, <1>3, WFMin
<1>5. PICK m \in S : x = 0..m
  OBVIOUS
<1>6. ASSUME NEW k \in S, k < m PROVE FALSE
  <2>1. 0..k \subseteq 0..m /\ m \in 0..m /\ m \notin 0..k /\ 0..k \in below
    BY <1>6
  <2>2. <<0..k, x>> \in R
    BY <1>5, <1>6, <2>1 DEF StrictSubsetOrdering
  <2>3. QED
    BY <1>4, <2>1, <2>2
<1>7. QED
  BY <1>5, <1>6

-----------------------------------------------------------------------------
(* Cells of a page, row by row.                                            *)

(* Rows are in order. *)
LEMMA RowsInOrder ==
  ASSUME NEW w \in Nat, NEW y \in Nat, NEW z \in Nat, y <= z
  PROVE  w * y \in Nat /\ w * z \in Nat /\ w * y <= w * z
OBVIOUS

(* The row above. *)
LEMMA RowAbove ==
  ASSUME NEW w \in Nat, NEW y \in Nat \ {0}
  PROVE  w * (y - 1) = w * y - w
OBVIOUS

(* The column of a cell. *)
LEMMA ColumnOf ==
  ASSUME NEW w \in Nat \ {0}, NEW y \in Int, NEW x \in 0..(w - 1)
  PROVE  (w * y + x) % w = x
OBVIOUS
=============================================================================
