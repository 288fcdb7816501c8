---------------------------- MODULE Media_proofs ----------------------------
(***************************************************************************)
(* Lemmas about the media and the order of keys, and about listing a       *)
(* finite set in order, for the proofs of the other modules.               *)
(***************************************************************************)
EXTENDS Media, FiniteSetTheorems, WellFoundedInduction, TLAPS

----------------------------------------------------------------------------
(* The constants.                                                          *)

\* Membership in Key, coordinate by coordinate.
LEMMA KeyMembers ==
    \A g, o : <<g, o>> \in Key <=> g \in Group /\ o \in 0..(NbObjects[g] - 1)
  BY DEF Key

LEMMA KeyShape ==
    ASSUME NEW k \in Key
    PROVE  /\ k = <<k[1], k[2]>>
           /\ k[1] \in Group /\ k[1] \in Nat /\ k[2] \in Nat
           /\ k[2] < NbObjects[k[1]]
           /\ NbObjects[k[1]] \in Nat
<1>1. PICK g \in Group : k \in {g} \X (0..(NbObjects[g] - 1))
  BY DEF Key
<1>2. PICK o \in 0..(NbObjects[g] - 1) : k = <<g, o>>
  BY <1>1
<1>3. NbObjects[g] \in Nat \ {0} /\ g \in Nat
  BY MediaAssumption DEF Group
<1>4. QED
  BY <1>2, <1>3

LEMMA StartShape ==
    /\ StartPoint \in Key /\ StartPoint = <<StartPoint[1], StartPoint[2]>>
    /\ StartPoint[1] \in Nat /\ StartPoint[2] \in Nat
  BY KeyShape, MediaAssumption

LEMMA FinalShape ==
    /\ FinalPoint = <<LastGroup, NbObjects[LastGroup]>>
    /\ LastGroup \in Nat /\ LastGroup \in Group
    /\ NbObjects[LastGroup] \in Nat \ {0}
    /\ <<LastGroup, NbObjects[LastGroup] - 1>> \in Sent
<1>1. LastGroup \in Nat /\ LastGroup \in Group /\ NbObjects[LastGroup] \in Nat \ {0}
  BY MediaAssumption DEF Group
<1>2. <<LastGroup, NbObjects[LastGroup] - 1>> \in Key
  BY <1>1, KeyMembers
<1>3. StartPoint[1] <= LastGroup
      /\ (StartPoint[1] = LastGroup => StartPoint[2] <= NbObjects[LastGroup] - 1)
  BY <1>1, KeyShape, MediaAssumption DEF Group
<1>4. QED
  BY <1>1, <1>2, <1>3, StartShape DEF Sent, Before, FinalPoint

LEMMA BeforeIsTotal ==
    ASSUME NEW a \in Nat \X Nat, NEW b \in Nat \X Nat, NEW c \in Nat \X Nat
    PROVE  /\ ~Before(a, a)
           /\ Before(a, b) /\ Before(b, c) => Before(a, c)
           /\ a = b \/ Before(a, b) \/ Before(b, a)
           /\ Before(a, b) => ~Before(b, a)
<1>1. /\ a = <<a[1], a[2]>> /\ b = <<b[1], b[2]>>
      /\ a[1] \in Nat /\ a[2] \in Nat /\ b[1] \in Nat /\ b[2] \in Nat
      /\ c[1] \in Nat /\ c[2] \in Nat
  OBVIOUS
<1>2. QED
  BY <1>1 DEF Before

\* A set of naturals has a least element, and a greatest if it is bounded.
LEMMA LeastNatural ==
    ASSUME NEW T, T \subseteq Nat, T # {}
    PROVE  \E m \in T : \A n \in T : m <= n
<1>1. PICK m \in T : \A n \in T : ~(<<n, m>> \in OpToRel(<, Nat))
  BY NatLessThanWellFounded, WFMin
<1>2. \A n \in T : ~(n < m)
  BY <1>1 DEF OpToRel
<1>3. QED
  BY <1>2

LEMMA GreatestNatural ==
    ASSUME NEW T, T \subseteq Nat, T # {}, NEW b \in Nat, \A n \in T : n <= b
    PROVE  \E m \in T : \A n \in T : n <= m
<1> DEFINE U == {b - n : n \in T}
<1>1. U \subseteq Nat /\ U # {}
  <2>1. ASSUME NEW n \in T PROVE b - n \in Nat
    <3>1. n \in Nat /\ n <= b
      OBVIOUS
    <3> QED
      BY <3>1
  <2>2. U \subseteq Nat
    BY <2>1
  <2>3. PICK n : n \in T
    OBVIOUS
  <2>4. b - n \in U
    BY <2>3
  <2> QED
    BY <2>2, <2>4
<1> HIDE DEF U
<1>2. PICK u \in U : \A v \in U : u <= v
  BY <1>1, LeastNatural
<1>3. PICK m \in T : u = b - m
  BY <1>2 DEF U
<1>4. \A n \in T : b - n \in U
  BY DEF U
<1>5. QED
  BY <1>2, <1>3, <1>4

----------------------------------------------------------------------------
(* In a finite set with a strict total order R, the number of elements     *)
(* below an element tells its place: it takes every value from 0 on.       *)
LEMMA RankInOrder ==
    ASSUME NEW S, IsFiniteSet(S), NEW R,
           \A x \in S : <<x, x>> \notin R,
           \A x, y \in S : x = y \/ <<x, y>> \in R \/ <<y, x>> \in R,
           \A x, y, z \in S : <<x, y>> \in R /\ <<y, z>> \in R => <<x, z>> \in R
    PROVE  /\ Cardinality(S) \in Nat
           /\ \A i \in 1..Cardinality(S) :
                \E d \in S : Cardinality({e \in S : <<e, d>> \in R}) = i - 1
           /\ \A d, e \in S :
                Cardinality({x \in S : <<x, d>> \in R})
                  < Cardinality({x \in S : <<x, e>> \in R})
                => <<d, e>> \in R
<1> DEFINE n == Cardinality(S)
           Below(d) == {e \in S : <<e, d>> \in R}
           rank == [d \in S |-> Cardinality(Below(d))]
<1>1. n \in Nat
  BY FS_CardinalityType
<1>2. ASSUME NEW d \in S
      PROVE  IsFiniteSet(Below(d)) /\ Cardinality(Below(d)) \in 0..(n - 1)
  <2>1. Below(d) \in SUBSET S /\ d \notin Below(d)
    OBVIOUS
  <2>2. /\ IsFiniteSet(Below(d)) /\ Cardinality(Below(d)) <= n
        /\ n = Cardinality(Below(d)) => S = Below(d)
    BY <2>1, FS_Subset
  <2>3. Cardinality(Below(d)) \in Nat
    BY <2>2, FS_CardinalityType
  <2>4. QED
    BY <1>1, <2>1, <2>2, <2>3
<1>3. ASSUME NEW d \in S, NEW e \in S, <<d, e>> \in R
      PROVE  Cardinality(Below(d)) < Cardinality(Below(e))
  <2>1. Below(d) \in SUBSET Below(e)
    BY <1>3
  <2>2. d \in Below(e) /\ d \notin Below(d)
    BY <1>3
  <2>3. IsFiniteSet(Below(e))
    BY <1>2
  <2>4. /\ Cardinality(Below(d)) <= Cardinality(Below(e))
        /\ Cardinality(Below(e)) = Cardinality(Below(d)) => Below(e) = Below(d)
    BY <2>1, <2>3, FS_Subset
  <2> HIDE DEF Below, n
  <2>5. Cardinality(Below(d)) \in Int /\ Cardinality(Below(e)) \in Int
    BY <1>1, <1>2
  <2>6. QED
    BY <2>2, <2>4, <2>5
<1>4. rank \in [S -> 0..(n - 1)]
  BY <1>2
<1>5. \A d, e \in S : /\ rank[d] = rank[e] => d = e
                      /\ rank[d] < rank[e] => <<d, e>> \in R
  <2> TAKE d, e \in S
  <2> HIDE DEF Below, n
  <2>1. Cardinality(Below(d)) \in Int /\ Cardinality(Below(e)) \in Int
    BY <1>1, <1>2
  <2>2. d = e \/ <<d, e>> \in R \/ <<e, d>> \in R
    OBVIOUS
  <2>3. QED
    BY <1>3, <2>1, <2>2
<1>6. rank \in Injection(S, 0..(n - 1))
  BY <1>4, <1>5 DEF Injection, IsInjective
<1>7. IsFiniteSet(0..(n - 1)) /\ Cardinality(0..(n - 1)) = n
  <2> HIDE DEF n
  <2>1. 0 \in Int /\ n - 1 \in Int /\ (0 > n - 1 <=> n = 0)
    BY <1>1
  <2>2. /\ IsFiniteSet(0..(n - 1))
        /\ Cardinality(0..(n - 1)) = IF 0 > n - 1 THEN 0 ELSE (n - 1) - 0 + 1
    BY <2>1, FS_Interval
  <2>3. QED
    BY <1>1, <2>1, <2>2
<1>8. rank \in Surjection(S, 0..(n - 1))
  BY <1>6, <1>7, FS_Injection
<1>9. ASSUME NEW i \in 1..n PROVE \E d \in S : Cardinality(Below(d)) = i - 1
  <2>1. i - 1 \in 0..(n - 1)
    BY <1>1
  <2>2. PICK d \in S : rank[d] = i - 1
    BY <1>8, <2>1 DEF Surjection
  <2>3. QED
    BY <2>2
<1>10. \A d, e \in S : Cardinality(Below(d)) < Cardinality(Below(e)) => <<d, e>> \in R
  BY <1>5
<1>11. QED
  BY <1>1, <1>9, <1>10
=============================================================================
