-------------------------- MODULE Consumer_proofs --------------------------
(***************************************************************************)
(* Proofs about the bridge of lib/object_consumer.c: what an application   *)
(* receives, in each of the three orders that it may ask for.              *)
(***************************************************************************)
EXTENDS ObjectConsumer, Reassembly_proofs

----------------------------------------------------------------------------
(* The placeholders of a jump, in the order of keys.                       *)

\* InKeyOrder lists every key of a finite set once, in order.
LEMMA KeyOrder ==
    ASSUME NEW S \in SUBSET (Nat \X Nat), IsFiniteSet(S)
    PROVE  /\ Cardinality(S) \in Nat
           /\ InKeyOrder(S) \in [1..Cardinality(S) -> S]
           /\ \A i, j \in 1..Cardinality(S) :
                i < j => Before(InKeyOrder(S)[i], InKeyOrder(S)[j])
<1> DEFINE n == Cardinality(S)
           R == {r \in S \X S : Before(r[1], r[2])}
           Rank(d) == Cardinality({e \in S : <<e, d>> \in R})
           s == InKeyOrder(S)
<1>1. /\ \A x \in S : <<x, x>> \notin R
      /\ \A x, y \in S : x = y \/ <<x, y>> \in R \/ <<y, x>> \in R
      /\ \A x, y, z \in S : <<x, y>> \in R /\ <<y, z>> \in R => <<x, z>> \in R
  BY BeforeIsTotal
<1>2. \A d \in S : {e \in S : <<e, d>> \in R} = {e \in S : Before(e, d)}
  OBVIOUS
<1>3. \A d, e \in S : <<d, e>> \in R <=> Before(d, e)
  OBVIOUS
<1> HIDE DEF R
<1>4. /\ n \in Nat
      /\ \A i \in 1..n : \E d \in S : Rank(d) = i - 1
      /\ \A d, e \in S : Rank(d) < Rank(e) => <<d, e>> \in R
  BY <1>1, RankInOrder
<1>5. ASSUME NEW i \in 1..n
      PROVE  s[i] \in S /\ Rank(s[i]) = i - 1
  <2> DEFINE P(d) == Cardinality({e \in S : Before(e, d)}) = i - 1
  <2>1. PICK d \in S : Rank(d) = i - 1
    BY <1>4
  <2>2. P(d)
    BY <1>2, <2>1
  <2>3. s[i] = CHOOSE x \in S : P(x)
    BY DEF InKeyOrder
  <2> HIDE DEF P, s
  <2>4. s[i] \in S /\ P(s[i])
    BY <2>2, <2>3
  <2>5. QED
    BY <1>2, <2>4 DEF P
<1>6. s \in [1..n -> S]
  BY <1>5 DEF InKeyOrder
<1>7. ASSUME NEW i \in 1..n, NEW j \in 1..n, i < j
      PROVE  Before(s[i], s[j])
  <2> HIDE DEF s, Rank, n
  <2>1. s[i] \in S /\ s[j] \in S /\ Rank(s[i]) < Rank(s[j])
    BY <1>4, <1>5, <1>7
  <2>2. QED
    BY <1>3, <1>4, <2>1
<1>8. QED
  BY <1>4, <1>6, <1>7

\* The placeholders of a jump are finitely many, at or past the bridge's
\* next point and before the object that the bridge jumps to.
LEMMA DroppedShape ==
    ASSUME TypeOK', BridgeInv, NEW k \in Sent
    PROVE  /\ Dropped(k) \in SUBSET (Nat \X Nat)
           /\ IsFiniteSet(Dropped(k))
           /\ \A d \in Dropped(k) : ~Before(d, BridgePoint) /\ Before(d, k)
<1> DEFINE from == IF BridgePoint = <<0, 0>> THEN StreamStart ELSE BridgePoint
           First(g) == IF g = from[1] THEN from[2] ELSE 0
           Limit(g) == ObjectLimit(g, First(g))
           Part(g) == {g} \X (First(g)..(Limit(g) - 1))
<1>1. k[1] \in Nat /\ k[2] \in Nat
  BY KeyShape DEF Sent
<1>2. /\ BridgePoint \in Nat \X Nat /\ BridgePoint = <<BridgePoint[1], BridgePoint[2]>>
      /\ BridgePoint[1] \in Nat /\ BridgePoint[2] \in Nat
  BY DEF BridgePoint, BridgeInv
<1>3. /\ StreamStart[1] \in Nat /\ StreamStart[2] \in Nat
  BY StartShape DEF StreamStart
<1>4. /\ from[1] \in Nat /\ from[2] \in Nat
      /\ BridgePoint[1] < from[1] \/ (BridgePoint[1] = from[1] /\ BridgePoint[2] <= from[2])
  <2>1. CASE BridgePoint = <<0, 0>>
    BY <1>3, <2>1
  <2>2. CASE BridgePoint # <<0, 0>>
    BY <1>2, <2>2
  <2>3. QED
    BY <2>1, <2>2
<1> HIDE DEF from
<1>5. ASSUME NEW g \in Nat PROVE First(g) \in Nat /\ Limit(g) \in Nat
  <2>1. First(g) \in Nat
    BY <1>4
  <2>2. ObjectCount(g) \in Nat
    <3>1. <<g + 1, 0>> \in object_tree' => object'[<<g + 1, 0>>] \in ObjectRecord
      BY DEF TypeOK
    <3>2. QED
      BY <3>1 DEF ObjectCount, ObjectRecord
  <2>3. QED
    BY <2>1, <2>2 DEF ObjectLimit
<1>6. Dropped(k) = UNION {Part(g) : g \in from[1]..(k[1] - 1)}
  BY DEF Dropped, from
<1> HIDE DEF First, Limit
<1>7. ASSUME NEW d \in Dropped(k)
      PROVE  d \in Nat \X Nat /\ ~Before(d, BridgePoint) /\ Before(d, k)
  <2>1. PICK g \in from[1]..(k[1] - 1) : d \in Part(g)
    BY <1>6
  <2>2. g \in Nat /\ from[1] <= g /\ g < k[1]
    BY <1>1, <1>4
  <2>3. First(g) \in Nat /\ Limit(g) \in Nat
    BY <1>5, <2>2
  <2>4. d = <<g, d[2]>> /\ d[1] = g /\ d[2] \in Nat /\ First(g) <= d[2]
    BY <2>1, <2>2, <2>3
  <2>5. g = from[1] => First(g) = from[2]
    BY DEF First
  <2>6. ~Before(d, BridgePoint)
    BY <1>2, <1>4, <2>2, <2>3, <2>4, <2>5 DEF Before
  <2>7. QED
    BY <1>1, <2>2, <2>4, <2>6 DEF Before
<1>8. IsFiniteSet(Dropped(k))
  <2> DEFINE I == from[1]..(k[1] - 1)
  <2>1. IsFiniteSet(I)
    <3>1. from[1] \in Int /\ k[1] - 1 \in Int
      BY <1>1, <1>4
    <3>2. QED
      BY <3>1, FS_Interval, Zenon
  <2>2. \A g \in I : g \in Nat
    BY <1>1, <1>4
  <2>3. ASSUME NEW g \in I PROVE IsFiniteSet(Part(g))
    <3>1. IsFiniteSet(First(g)..(Limit(g) - 1))
      <4>1. First(g) \in Int /\ Limit(g) - 1 \in Int
        BY <1>5, <2>2
      <4>2. QED
        BY <4>1, FS_Interval, Zenon
    <3>2. QED
      BY <3>1, FS_Singleton, FS_Product
  <2> DEFINE F == [g \in I |-> Part(g)]
             P == {Part(g) : g \in I}
  <2> HIDE DEF I, Part
  <2>4. F \in Surjection(I, P)
    BY DEF Surjection
  <2>5. IsFiniteSet(P)
    BY <2>1, <2>4, FS_Surjection
  <2>6. \A T \in P : IsFiniteSet(T)
    BY <2>3
  <2> HIDE DEF P
  <2>7. IsFiniteSet(UNION P)
    BY <2>5, <2>6, FS_UNION
  <2>8. QED
    BY <1>6, <2>7 DEF P, I
<1>9. QED
  BY <1>7, <1>8

----------------------------------------------------------------------------
(* Sequences of entries.                                                   *)

Entry == [key : Nat \X Nat, placeholder : BOOLEAN]

Sorted(s) == \A i, j \in DOMAIN s : i < j => Before(s[i].key, s[j].key)

LEMMA Extend ==
    ASSUME NEW d \in Seq(Entry), NEW t \in Seq(Entry), NEW e \in Entry,
           NEW s, s = d \o t \o <<e>>
    PROVE  /\ s \in Seq(Entry) /\ DOMAIN s = 1..(Len(d) + Len(t) + 1)
           /\ \A i \in DOMAIN s :
                s[i] = IF i <= Len(d) THEN d[i]
                       ELSE IF i <= Len(d) + Len(t) THEN t[i - Len(d)] ELSE e
<1> HIDE DEF Entry
<1> DEFINE u == d \o t
<1>1. /\ u \in Seq(Entry) /\ Len(u) = Len(d) + Len(t)
      /\ \A i \in 1..Len(u) : u[i] = IF i <= Len(d) THEN d[i] ELSE t[i - Len(d)]
  OBVIOUS
<1>2. Len(d) \in Nat /\ Len(t) \in Nat
  OBVIOUS
<1>3. s = u \o <<e>>
  OBVIOUS
<1> HIDE DEF u
<1>4. /\ s \in Seq(Entry) /\ Len(s) = Len(u) + 1 /\ DOMAIN s = 1..Len(s)
      /\ \A i \in 1..Len(s) : s[i] = IF i <= Len(u) THEN u[i] ELSE e
  BY <1>1, <1>3
<1>5. QED
  BY <1>1, <1>2, <1>4

\* A sorted sequence stays sorted when later keys follow.
LEMMA ExtendSorted ==
    ASSUME NEW d \in Seq(Entry), NEW t \in Seq(Entry), NEW e \in Entry,
           NEW s, s = d \o t \o <<e>>, Sorted(d), Sorted(t),
           \A i \in DOMAIN d, j \in DOMAIN t : Before(d[i].key, t[j].key),
           \A i \in DOMAIN d : Before(d[i].key, e.key),
           \A j \in DOMAIN t : Before(t[j].key, e.key)
    PROVE  Sorted(s)
<1>1. /\ DOMAIN s = 1..(Len(d) + Len(t) + 1)
      /\ \A i \in DOMAIN s :
                s[i] = IF i <= Len(d) THEN d[i]
                       ELSE IF i <= Len(d) + Len(t) THEN t[i - Len(d)] ELSE e
  BY Extend
<1>2. /\ Len(d) \in Nat /\ DOMAIN d = 1..Len(d)
      /\ Len(t) \in Nat /\ DOMAIN t = 1..Len(t)
  OBVIOUS
<1> SUFFICES ASSUME NEW i \in DOMAIN s, NEW j \in DOMAIN s, i < j
             PROVE  Before(s[i].key, s[j].key)
  BY DEF Sorted
<1>3. i \in Nat /\ j \in Nat /\ 1 <= i /\ j <= Len(d) + Len(t) + 1
  BY <1>1, <1>2
<1>4. CASE j <= Len(d)
  <2>1. s[i] = d[i] /\ s[j] = d[j] /\ i \in DOMAIN d /\ j \in DOMAIN d
    BY <1>1, <1>2, <1>3, <1>4
  <2>2. QED
    BY <2>1 DEF Sorted
<1>5. CASE i <= Len(d) /\ Len(d) < j /\ j <= Len(d) + Len(t)
  <2>1. s[i] = d[i] /\ s[j] = t[j - Len(d)] /\ i \in DOMAIN d /\ j - Len(d) \in DOMAIN t
    BY <1>1, <1>2, <1>3, <1>5
  <2>2. QED
    BY <2>1
<1>6. CASE i > Len(d) /\ j <= Len(d) + Len(t)
  <2>1. /\ s[i] = t[i - Len(d)] /\ s[j] = t[j - Len(d)]
        /\ i - Len(d) \in DOMAIN t /\ j - Len(d) \in DOMAIN t
        /\ i - Len(d) < j - Len(d)
    BY <1>1, <1>2, <1>3, <1>6
  <2>2. QED
    BY <2>1 DEF Sorted
<1>7. CASE j > Len(d) + Len(t)
  <2>1. s[j] = e
    BY <1>1, <1>2, <1>3, <1>7
  <2>2. CASE i <= Len(d)
    <3>1. s[i] = d[i] /\ i \in DOMAIN d
      BY <1>1, <1>2, <1>3, <2>2
    <3>2. QED
      BY <2>1, <3>1
  <2>3. CASE i > Len(d)
    <3>1. s[i] = t[i - Len(d)] /\ i - Len(d) \in DOMAIN t
      BY <1>1, <1>2, <1>3, <1>7, <2>3
    <3>2. QED
      BY <2>1, <3>1
  <2>4. QED
    BY <1>2, <1>3, <2>2, <2>3
<1>8. QED
  BY <1>2, <1>3, <1>4, <1>5, <1>6, <1>7

LEMMA SortedIsOnce ==
    ASSUME NEW s \in Seq(Entry), Sorted(s)
    PROVE  \A i, j \in DOMAIN s : s[i].key = s[j].key => i = j
<1> SUFFICES ASSUME NEW i \in DOMAIN s, NEW j \in DOMAIN s, s[i].key = s[j].key
             PROVE  i = j
  OBVIOUS
<1>1. i \in Nat /\ j \in Nat /\ s[i].key \in Nat \X Nat
  <2>1. s[i] \in Entry /\ i \in Nat /\ j \in Nat
    OBVIOUS
  <2>2. QED
    BY <2>1 DEF Entry
<1>2. ~Before(s[i].key, s[i].key)
  BY <1>1, BeforeIsTotal
<1>3. ~(i < j) /\ ~(j < i)
  BY <1>2 DEF Sorted
<1>4. QED
  BY <1>1, <1>3

----------------------------------------------------------------------------
(* The bridge on one call of the reassembly.                               *)

\* The bridge runs on the very call that the reassembly makes.
LEMMA CallReachesBridge ==
    ASSUME TypeOK, NEW k \in Sent, NEW mode \in Mode, CallReady(k, mode), BridgeStep
    PROVE  BridgeReady(k, mode)
<1>1. k \in Key
  BY DEF Sent
<1>2. \A j \in Key, m \in Mode :
         ready'[j][m] = IF j = k /\ m = mode THEN ready[j][m] + 1 ELSE ready[j][m]
  BY <1>1 DEF CallReady, TypeOK
<1>3. ready[k][mode] \in Nat
  BY <1>1 DEF TypeOK
<1>4. ready' # ready
  BY <1>1, <1>2, <1>3
<1>5. \A j \in Key, m \in Mode : ready'[j][m] # ready[j][m] => j = k /\ m = mode
  BY <1>2
<1>6. QED
  BY <1>4, <1>5 DEF BridgeStep

\* The placeholders of a call, as the bridge lists them.
Standins(k, mode) ==
    LET dropped == IF Jumps(k, mode) THEN Dropped(k) ELSE {}
    IN [i \in 1..Cardinality(dropped) |->
          [key |-> InKeyOrder(dropped)[i], placeholder |-> TRUE]]

LEMMA StandinsShape ==
    ASSUME TypeOK', BridgeInv, NEW k \in Sent, NEW mode
    PROVE  /\ Standins(k, mode) \in Seq(Entry) /\ Sorted(Standins(k, mode))
           /\ \A i \in DOMAIN Standins(k, mode) :
                /\ ~Before(Standins(k, mode)[i].key, BridgePoint)
                /\ Before(Standins(k, mode)[i].key, k)
           /\ ~Jumps(k, mode) => Len(Standins(k, mode)) = 0
<1> DEFINE D == IF Jumps(k, mode) THEN Dropped(k) ELSE {}
           t == Standins(k, mode)
           o == InKeyOrder(D)
<1>1. /\ D \in SUBSET (Nat \X Nat) /\ IsFiniteSet(D)
      /\ \A d \in D : ~Before(d, BridgePoint) /\ Before(d, k)
      /\ ~Jumps(k, mode) => D = {}
  <2>1. CASE Jumps(k, mode)
    BY <2>1, DroppedShape
  <2>2. CASE ~Jumps(k, mode)
    BY <2>2, FS_EmptySet
  <2>3. QED
    BY <2>1, <2>2
<1>2. t = [i \in 1..Cardinality(D) |-> [key |-> o[i], placeholder |-> TRUE]]
  BY DEF Standins
<1> HIDE DEF D, t
<1>3. /\ Cardinality(D) \in Nat /\ o \in [1..Cardinality(D) -> D]
      /\ \A i, j \in 1..Cardinality(D) : i < j => Before(o[i], o[j])
  BY <1>1, KeyOrder
<1>4. ~Jumps(k, mode) => Cardinality(D) = 0
  BY <1>1, FS_EmptySet
<1> DEFINE n == Cardinality(D)
<1> HIDE DEF n, o
<1>5. \A i \in 1..n : /\ o[i] \in D /\ o[i] \in Nat \X Nat
                      /\ t[i] = [key |-> o[i], placeholder |-> TRUE]
                      /\ t[i].key = o[i]
  BY <1>1, <1>2, <1>3 DEF n
<1>6. DOMAIN t = 1..n /\ n \in Nat
  BY <1>2, <1>3 DEF n
<1>7. ASSUME NEW i \in 1..n PROVE t[i] \in Entry
  <2>1. o[i] \in Nat \X Nat /\ t[i] = [key |-> o[i], placeholder |-> TRUE]
    BY <1>5
  <2>2. QED
    BY <2>1 DEF Entry
<1>8. t \in Seq(Entry) /\ Len(t) = n
  <2>1. t = [i \in 1..n |-> t[i]]
    BY <1>2, <1>6
  <2>2. t \in [1..n -> Entry]
    BY <1>7, <2>1
  <2>3. QED
    BY <1>6, <2>2
<1>9. Sorted(t)
  BY <1>3, <1>5, <1>6 DEF Sorted, n
<1>10. QED
  BY <1>1, <1>4, <1>5, <1>6, <1>8, <1>9 DEF t, n

\* What an accepted call appends.
LEMMA AcceptedCall ==
    ASSUME BridgeInv, NEW k \in Sent, NEW mode, BridgeReady(k, mode), Accepts(k, mode)
    PROVE  /\ delivered' = delivered \o Standins(k, mode)
                             \o <<[key |-> k, placeholder |-> FALSE]>>
           /\ bridge_group_id' = k[1] /\ bridge_object_id' = k[2] + 1
           /\ k[1] \in Nat /\ k[2] \in Nat /\ k = <<k[1], k[2]>> /\ k \in Nat \X Nat
           /\ [key |-> k, placeholder |-> FALSE] \in Entry
<1>1. k[1] \in Nat /\ k[2] \in Nat /\ k = <<k[1], k[2]>>
  BY KeyShape DEF Sent
<1>2. k \in Nat \X Nat
  BY <1>1
<1>3. [key |-> k, placeholder |-> FALSE] \in Entry
  BY <1>2 DEF Entry
<1>4. QED
  BY <1>1, <1>2, <1>3 DEF BridgeReady, Standins

LEMMA IgnoredCall ==
    ASSUME NEW k \in Sent, NEW mode, BridgeReady(k, mode), ~Accepts(k, mode)
    PROVE  UNCHANGED <<delivered, bridge_group_id, bridge_object_id>>
  BY DEF BridgeReady

\* Without skipping, an accepted call appends the object alone.
LEMMA AppendsItself ==
    ASSUME TypeOK', BridgeInv, NEW k \in Sent, NEW mode, ~Jumps(k, mode),
           BridgeReady(k, mode), Accepts(k, mode)
    PROVE  /\ delivered' \in Seq(Entry)
           /\ DOMAIN delivered' = 1..(Len(delivered) + 1)
           /\ \A i \in DOMAIN delivered' :
                delivered'[i] = IF i <= Len(delivered) THEN delivered[i]
                                ELSE [key |-> k, placeholder |-> FALSE]
           /\ Range(delivered') = Range(delivered) \cup {[key |-> k, placeholder |-> FALSE]}
<1> DEFINE e == [key |-> k, placeholder |-> FALSE]
           d == delivered
           t == Standins(k, mode)
<1>1. d \in Seq(Entry) /\ t \in Seq(Entry) /\ e \in Entry /\ Len(t) = 0
  BY StandinsShape, AcceptedCall DEF BridgeInv, Entry
<1>2. delivered' = d \o t \o <<e>>
  BY AcceptedCall
<1> HIDE DEF e, d, t
<1>3. /\ delivered' \in Seq(Entry) /\ DOMAIN delivered' = 1..(Len(d) + Len(t) + 1)
      /\ \A i \in DOMAIN delivered' :
                delivered'[i] = IF i <= Len(d) THEN d[i]
                       ELSE IF i <= Len(d) + Len(t) THEN t[i - Len(d)] ELSE e
  BY <1>1, <1>2, Extend
<1>4. Len(d) \in Nat /\ DOMAIN d = 1..Len(d)
  BY <1>1
<1>5. /\ DOMAIN delivered' = 1..(Len(d) + 1)
      /\ \A i \in DOMAIN delivered' : delivered'[i] = IF i <= Len(d) THEN d[i] ELSE e
  BY <1>1, <1>3, <1>4
<1>6. Range(delivered') = Range(d) \cup {e}
  <2>1. ASSUME NEW x \in Range(delivered') PROVE x \in Range(d) \cup {e}
    <3>1. PICK i \in DOMAIN delivered' : x = delivered'[i]
      BY DEF Range
    <3>2. QED
      BY <1>4, <1>5, <3>1 DEF Range
  <2>2. ASSUME NEW x \in Range(d) PROVE x \in Range(delivered')
    <3>1. PICK i \in DOMAIN d : x = d[i]
      BY DEF Range
    <3>2. i \in DOMAIN delivered' /\ delivered'[i] = d[i]
      BY <1>4, <1>5
    <3>3. QED
      BY <3>1, <3>2 DEF Range
  <2>3. e \in Range(delivered')
    <3>1. Len(d) + 1 \in DOMAIN delivered' /\ delivered'[Len(d) + 1] = e
      BY <1>4, <1>5
    <3>2. QED
      BY <3>1 DEF Range
  <2>4. QED
    BY <2>1, <2>2, <2>3
<1>7. QED
  BY <1>3, <1>5, <1>6 DEF d, e

----------------------------------------------------------------------------
(* The invariant of the bridge, order by order.                            *)

\* The conjuncts of BridgeInv on what was delivered.
DeliveredOK ==
    /\ delivered \in Seq(Entry)
    /\ DeliveredOnce /\ DeliveredInOrder
    /\ order_required = "out_of_order" => Range(delivered) = Themselves(SeenObjects)
    /\ order_required = "in_order" => Range(delivered) = Themselves(OrderedObjects)
    /\ order_required = "skip_to_group_ahead" =>
         \A i \in DOMAIN delivered : Before(delivered[i].key, BridgePoint)

\* In any order, the bridge passes on what was not seen before.
LEMMA AnyOrderStep ==
    ASSUME TypeOK, TypeOK', BridgeInv, NEW k \in Sent, NEW mode \in Mode,
           Handing(k, mode), BridgeReady(k, mode), UNCHANGED order_required,
           order_required = "out_of_order"
    PROVE  DeliveredOK'
<1> DEFINE e == [key |-> k, placeholder |-> FALSE]
<1>1. ~Jumps(k, mode) /\ (Accepts(k, mode) <=> mode # "repair")
  BY DEF Jumps, Accepts
<1>2. SeenObjects' = IF mode # "repair" THEN SeenObjects \cup {k} ELSE SeenObjects
  BY CallChanges DEF Handing, TypeOK, Mode
<1>3. DeliveredInOrder'
  BY DEF DeliveredInOrder
<1>4. CASE mode = "repair"
  <2>1. UNCHANGED <<delivered, bridge_group_id, bridge_object_id>>
    BY <1>1, <1>4, IgnoredCall
  <2>2. QED
    BY <1>2, <1>3, <1>4, <2>1 DEF BridgeInv, DeliveredOK, DeliveredOnce, Entry
<1>5. CASE mode # "repair"
  <2>1. /\ delivered' \in Seq(Entry) /\ DOMAIN delivered' = 1..(Len(delivered) + 1)
        /\ \A i \in DOMAIN delivered' :
              delivered'[i] = IF i <= Len(delivered) THEN delivered[i] ELSE e
        /\ Range(delivered') = Range(delivered) \cup {e}
    BY <1>1, <1>5, AppendsItself
  <2>2. Range(delivered') = Themselves(SeenObjects')
    BY <1>2, <1>5, <2>1 DEF BridgeInv, Themselves
  <2>3. k \notin SeenObjects
    BY <1>5 DEF Handing
  <2>4. \A i \in DOMAIN delivered : delivered[i].key # k
    <3>1. \A i \in DOMAIN delivered : delivered[i] \in Themselves(SeenObjects)
      BY DEF BridgeInv, Range
    <3>2. \A x \in Themselves(SeenObjects) : x.key \in SeenObjects
      BY DEF Themselves
    <3>3. QED
      BY <2>3, <3>1, <3>2
  <2>5. Len(delivered) \in Nat /\ DOMAIN delivered = 1..Len(delivered)
    BY DEF BridgeInv
  <2>6. DeliveredOnce'
    <3> SUFFICES ASSUME NEW i \in DOMAIN delivered', NEW j \in DOMAIN delivered',
                        delivered'[i].key = delivered'[j].key
                 PROVE  i = j
      BY DEF DeliveredOnce
    <3>1. i \in 1..(Len(delivered) + 1) /\ j \in 1..(Len(delivered) + 1)
      BY <2>1
    <3>2. /\ i <= Len(delivered) => delivered'[i].key # k /\ i \in DOMAIN delivered
          /\ j <= Len(delivered) => delivered'[j].key # k /\ j \in DOMAIN delivered
      BY <2>1, <2>4, <2>5, <3>1
    <3>3. /\ i > Len(delivered) => delivered'[i].key = k
          /\ j > Len(delivered) => delivered'[j].key = k
      BY <2>1, <2>5, <3>1
    <3>4. i <= Len(delivered) /\ j <= Len(delivered)
            => delivered[i].key = delivered[j].key
      BY <2>1
    <3>5. QED
      BY <2>5, <3>1, <3>2, <3>3, <3>4 DEF BridgeInv, DeliveredOnce
  <2>7. QED
    BY <1>3, <2>1, <2>2, <2>6 DEF DeliveredOK
<1>6. QED
  BY <1>4, <1>5

\* In order, it passes on the object that follows those passed on before.
LEMMA InOrderStep ==
    ASSUME TypeOK, TypeOK', BridgeInv, NEW k \in Sent, NEW mode \in Mode,
           Handing(k, mode), BridgeReady(k, mode), UNCHANGED order_required,
           order_required = "in_order"
    PROVE  DeliveredOK'
<1> DEFINE e == [key |-> k, placeholder |-> FALSE]
<1>1. ~Jumps(k, mode) /\ (Accepts(k, mode) <=> mode # "peek")
  BY DEF Jumps, Accepts
<1>2. OrderedObjects' = IF mode # "peek" THEN OrderedObjects \cup {k} ELSE OrderedObjects
  BY CallChanges DEF Handing, TypeOK, Mode
<1>3. CASE mode = "peek"
  <2>1. UNCHANGED <<delivered, bridge_group_id, bridge_object_id>>
    BY <1>1, <1>3, IgnoredCall
  <2>2. QED
    BY <1>2, <1>3, <2>1 DEF BridgeInv, DeliveredOK, DeliveredOnce, DeliveredInOrder, Entry
<1>4. CASE mode # "peek"
  <2>1. /\ delivered' \in Seq(Entry)
        /\ Range(delivered') = Range(delivered) \cup {e}
    BY <1>1, <1>4, AppendsItself
  <2>2. Range(delivered') = Themselves(OrderedObjects')
    BY <1>2, <1>4, <2>1 DEF BridgeInv, Themselves
  <2>3. OrderedObjects = {j \in Sent : Before(j, k)}
    BY <1>4 DEF Handing
  <2>4. \A i \in DOMAIN delivered : Before(delivered[i].key, k)
    <3>1. \A i \in DOMAIN delivered : delivered[i] \in Themselves(OrderedObjects)
      BY DEF BridgeInv, Range
    <3>2. \A x \in Themselves(OrderedObjects) : Before(x.key, k)
      BY <2>3 DEF Themselves
    <3>3. QED
      BY <3>1, <3>2
  <2>5. Sorted(delivered')
    <3>1. delivered' = delivered \o Standins(k, mode) \o <<e>> /\ e \in Entry /\ e.key = k
      BY <1>1, <1>4, AcceptedCall
    <3>2. /\ Standins(k, mode) \in Seq(Entry) /\ DOMAIN Standins(k, mode) = {}
          /\ Sorted(Standins(k, mode))
      <4>1. Standins(k, mode) \in Seq(Entry) /\ Len(Standins(k, mode)) = 0
            /\ Sorted(Standins(k, mode))
        BY <1>1, StandinsShape
      <4>2. QED
        BY <4>1
    <3>3. delivered \in Seq(Entry) /\ Sorted(delivered)
      BY DEF BridgeInv, DeliveredInOrder, Sorted, Entry
    <3> HIDE DEF e
    <3>4. QED
      BY <2>4, <3>1, <3>2, <3>3, ExtendSorted, ZenonT(30)
  <2>6. DeliveredOnce' /\ DeliveredInOrder'
    BY <2>1, <2>5, SortedIsOnce DEF DeliveredOnce, DeliveredInOrder, Sorted
  <2>7. QED
    BY <2>1, <2>2, <2>6 DEF DeliveredOK
<1>5. QED
  BY <1>3, <1>4

\* The bridge that skips compares with its own next point, so that repairs
\* behind it are dropped and placeholders fall between what was delivered and
\* the object jumped to.
LEMMA SkipStep ==
    ASSUME TypeOK, TypeOK', BridgeInv, NEW k \in Sent, NEW mode \in Mode,
           BridgeReady(k, mode), UNCHANGED order_required,
           order_required = "skip_to_group_ahead"
    PROVE  DeliveredOK'
<1> DEFINE e == [key |-> k, placeholder |-> FALSE]
           t == Standins(k, mode)
<1>1. /\ delivered \in Seq(Entry) /\ Sorted(delivered)
      /\ \A i \in DOMAIN delivered : Before(delivered[i].key, BridgePoint)
      /\ BridgePoint \in Nat \X Nat
  BY DEF BridgeInv, DeliveredInOrder, Sorted, Entry, BridgePoint
<1>2. CASE ~Accepts(k, mode)
  <2>1. UNCHANGED <<delivered, bridge_group_id, bridge_object_id>>
    BY <1>2, IgnoredCall
  <2>2. QED
    BY <1>1, <2>1 DEF BridgeInv, DeliveredOK, DeliveredOnce, DeliveredInOrder, BridgePoint
<1>3. CASE Accepts(k, mode)
  <2>1. /\ delivered' = delivered \o t \o <<e>> /\ e \in Entry /\ e.key = k
        /\ bridge_group_id' = k[1] /\ bridge_object_id' = k[2] + 1
        /\ k[1] \in Nat /\ k[2] \in Nat /\ k = <<k[1], k[2]>> /\ k \in Nat \X Nat
    BY <1>3, AcceptedCall
  <2>2. ~Before(k, BridgePoint)
    BY <1>3 DEF Accepts, Late
  <2>3. /\ t \in Seq(Entry) /\ Sorted(t)
        /\ \A i \in DOMAIN t : ~Before(t[i].key, BridgePoint) /\ Before(t[i].key, k)
    BY StandinsShape
  <2> HIDE DEF e, t
  <2>4. \A i \in DOMAIN t : t[i] \in Entry
    BY <2>3
  <2>5. \A i \in DOMAIN delivered : delivered[i] \in Entry
    BY <1>1
  <2>6. \A a \in Nat \X Nat, b \in Nat \X Nat :
           Before(a, BridgePoint) /\ ~Before(b, BridgePoint) => Before(a, b)
    BY <1>1, BeforeIsTotal
  <2>7. \A x \in Entry : x.key \in Nat \X Nat
    BY DEF Entry
  <2>8. \A i \in DOMAIN delivered, j \in DOMAIN t : Before(delivered[i].key, t[j].key)
    BY <1>1, <2>3, <2>4, <2>5, <2>6, <2>7
  <2>9. \A i \in DOMAIN delivered : Before(delivered[i].key, k)
    BY <1>1, <2>1, <2>2, <2>5, <2>6, <2>7
  <2>10. Sorted(delivered')
    BY <1>1, <2>1, <2>3, <2>8, <2>9, ExtendSorted
  <2>11. /\ delivered' \in Seq(Entry) /\ DOMAIN delivered' = 1..(Len(delivered) + Len(t) + 1)
         /\ \A i \in DOMAIN delivered' :
                delivered'[i] = IF i <= Len(delivered) THEN delivered[i]
                                ELSE IF i <= Len(delivered) + Len(t)
                                THEN t[i - Len(delivered)] ELSE e
    BY <1>1, <2>1, <2>3, Extend
  <2>12. ASSUME NEW i \in DOMAIN delivered'
         PROVE  Before(delivered'[i].key, <<k[1], k[2] + 1>>)
    <3>1. /\ Len(delivered) \in Nat /\ DOMAIN delivered = 1..Len(delivered)
          /\ Len(t) \in Nat /\ DOMAIN t = 1..Len(t)
      BY <1>1, <2>3
    <3>2. i \in 1..(Len(delivered) + Len(t) + 1)
      BY <2>11
    <3>3. \/ \E j \in DOMAIN delivered : delivered'[i] = delivered[j]
          \/ \E j \in DOMAIN t : delivered'[i] = t[j]
          \/ delivered'[i] = e
      <4>1. CASE i <= Len(delivered)
        BY <2>11, <3>1, <3>2, <4>1
      <4>2. CASE i > Len(delivered) /\ i <= Len(delivered) + Len(t)
        <5>1. i - Len(delivered) \in DOMAIN t /\ delivered'[i] = t[i - Len(delivered)]
          BY <2>11, <3>1, <3>2, <4>2
        <5>2. QED
          BY <5>1
      <4>3. CASE i > Len(delivered) + Len(t)
        BY <2>11, <3>1, <3>2, <4>3
      <4>4. QED
        BY <3>1, <3>2, <4>1, <4>2, <4>3
    <3>4. delivered'[i].key = k \/ Before(delivered'[i].key, k)
      BY <2>1, <2>3, <2>9, <3>3
    <3>5. delivered'[i] \in Entry
      BY <2>11
    <3>6. delivered'[i].key \in Nat \X Nat
      BY <2>7, <3>5
    <3>7. \A a \in Nat \X Nat : a = k \/ Before(a, k) => Before(a, <<k[1], k[2] + 1>>)
      BY <2>1 DEF Before
    <3>8. QED
      BY <3>4, <3>6, <3>7
  <2>13. DeliveredOnce' /\ DeliveredInOrder'
    BY <2>10, <2>11, SortedIsOnce DEF DeliveredOnce, DeliveredInOrder, Sorted
  <2>14. QED
    BY <2>1, <2>11, <2>12, <2>13 DEF DeliveredOK, BridgePoint
<1>4. QED
  BY <1>2, <1>3

----------------------------------------------------------------------------
LEMMA BridgeInit == ConsumerInit => BridgeInv
<1> SUFFICES ASSUME ConsumerInit PROVE BridgeInv
  OBVIOUS
<1>1. SeenObjects = {} /\ OrderedObjects = {}
  BY DEF ConsumerInit, Init, SeenObjects, OrderedObjects, Sent, AnyOrderCalls,
         InOrderCalls, Mode
<1>2. /\ delivered = <<>> /\ DOMAIN delivered = {} /\ Range(delivered) = {}
      /\ delivered \in Seq(Entry)
  BY DEF ConsumerInit, Range
<1>3. QED
  BY <1>1, <1>2 DEF ConsumerInit, BridgeInv, DeliveredOnce, DeliveredInOrder,
                    Themselves, Entry

\* Every step of the composition is a step of the reassembly.
LEMMA ConsumerStepsReassembly == [ConsumerNext]_consumer_vars => [Next]_vars
  BY DEF ConsumerNext, Next, consumer_vars

LEMMA BridgeInvStep ==
    IInv /\ IInv' /\ BridgeInv /\ [ConsumerNext]_consumer_vars => BridgeInv'
<1> SUFFICES ASSUME IInv, IInv', BridgeInv, [ConsumerNext]_consumer_vars
             PROVE  BridgeInv'
  OBVIOUS
<1>1. TypeOK /\ TypeOK' /\ [Next]_vars
  BY ConsumerStepsReassembly DEF IInv
<1>2. CASE UNCHANGED consumer_vars
  <2>1. UNCHANGED <<ready, order_required, bridge_group_id, bridge_object_id,
                    start_known, delivered>>
    BY <1>2 DEF consumer_vars, bridge_vars, vars
  <2>2. UNCHANGED <<SeenObjects, OrderedObjects>>
    BY <2>1, NoCallNoChange
  <2>3. QED
    BY <2>1, <2>2 DEF BridgeInv, DeliveredOnce, DeliveredInOrder, BridgePoint
<1>3. CASE ConsumerNext
  <2>1. UNCHANGED order_required /\ start_known' \in BOOLEAN /\ BridgeStep
    BY <1>3 DEF ConsumerNext, BridgeInv
  <2>2. CASE UNCHANGED ready
    <3>1. UNCHANGED <<SeenObjects, OrderedObjects>>
      BY <2>2, NoCallNoChange
    <3>2. UNCHANGED <<delivered, bridge_group_id, bridge_object_id>>
      BY <2>1, <2>2 DEF BridgeStep
    <3>3. QED
      BY <2>1, <3>1, <3>2 DEF BridgeInv, DeliveredOnce, DeliveredInOrder, BridgePoint
  <2>3. ASSUME NEW k \in Sent, NEW mode \in Mode, Handing(k, mode)
        PROVE  BridgeInv'
    <3>1. BridgeReady(k, mode)
      BY <1>1, <2>1, <2>3, CallReachesBridge DEF Handing
    <3>2. DeliveredOK'
      <4>1. order_required \in {"out_of_order", "in_order", "skip_to_group_ahead"}
        BY DEF BridgeInv, Order
      <4>2. QED
        BY <1>1, <2>1, <2>3, <3>1, <4>1, AnyOrderStep, InOrderStep, SkipStep
    <3>3. bridge_group_id' \in Nat /\ bridge_object_id' \in Nat
      <4>1. CASE Accepts(k, mode)
        <5>1. /\ bridge_group_id' = k[1] /\ bridge_object_id' = k[2] + 1
              /\ k[1] \in Nat /\ k[2] \in Nat
          BY <3>1, <4>1, AcceptedCall
        <5>2. QED
          BY <5>1
      <4>2. CASE ~Accepts(k, mode)
        BY <3>1, <4>2, IgnoredCall DEF BridgeInv
      <4>3. QED
        BY <4>1, <4>2
    <3>4. QED
      BY <2>1, <3>2, <3>3 DEF BridgeInv, DeliveredOK, Entry
  <2>4. QED
    BY <1>1, <2>2, <2>3, StepCalls
<1>4. QED
  BY <1>2, <1>3

\* With the bridge on top, the reassembly still behaves as its own
\* specification allows: what was proved of it holds of the composition.
THEOREM ConsumerRefinesReassembly == ConsumerSpec => Spec
<1>1. ConsumerInit => Init
  BY DEF ConsumerInit
<1>2. QED
  BY <1>1, ConsumerStepsReassembly, PTL DEF ConsumerSpec, Spec

\* The inductive invariant of the bridge holds in every state.
THEOREM BridgeInvariantHolds == ConsumerSpec => []BridgeInv
<1>1. ConsumerSpec => []IInv
  BY ConsumerRefinesReassembly, InvariantHolds, PTL
<1>2. QED
  BY <1>1, BridgeInit, BridgeInvStep, PTL DEF ConsumerSpec

\* Whatever order it asked for, the application is never handed an object
\* twice by quicrq_media_object_bridge_ready, placeholders included.
THEOREM ConsumerNeverTwice == ConsumerSpec => []DeliveredOnce
<1>1. BridgeInv => DeliveredOnce
  BY DEF BridgeInv
<1>2. QED
  BY <1>1, BridgeInvariantHolds, PTL

\* The application that asked for order, with or without skipping, sees the
\* objects in increasing order.
THEOREM ConsumerInOrder == ConsumerSpec => []DeliveredInOrder
<1>1. BridgeInv => DeliveredInOrder
  BY DEF BridgeInv
<1>2. QED
  BY <1>1, BridgeInvariantHolds, PTL

\* Unless it skips, the application has every object of the media, and no
\* placeholder, when the reassembly reports the end.
THEOREM ConsumerComplete == ConsumerSpec => []DeliveredAll
<1>1. IInv /\ BridgeInv => DeliveredAll
  <2> SUFFICES ASSUME IInv, BridgeInv, is_finished,
                      order_required # "skip_to_group_ahead"
               PROVE  Range(delivered) = Themselves(Sent)
    BY DEF DeliveredAll
  <2>1. \A k \in Sent : InOrderCalls(k) = 1
    BY DEF IInv, DeliveryInv, FinishedMeansAll
  <2>2. ASSUME NEW k \in Sent PROVE AnyOrderCalls(k) > 0
    <3>1. k \in Key
      BY DEF Sent
    <3>2. /\ ready[k]["in_sequence"] \in Nat /\ ready[k]["peek"] \in Nat
          /\ ready[k]["repair"] \in Nat
      BY <3>1 DEF IInv, TypeOK, Mode
    <3>3. ready[k]["repair"] <= ready[k]["peek"]
      BY <3>1 DEF IInv, DeliveryInv, RepairWasPeeked
    <3>4. QED
      BY <2>1, <3>2, <3>3 DEF InOrderCalls, AnyOrderCalls
  <2>3. OrderedObjects = Sent /\ SeenObjects = Sent
    BY <2>1, <2>2 DEF OrderedObjects, SeenObjects
  <2>4. order_required \in {"out_of_order", "in_order"}
    BY DEF BridgeInv, Order
  <2>5. QED
    BY <2>3, <2>4 DEF BridgeInv
<1>2. QED
  BY <1>1, ConsumerRefinesReassembly, InvariantHolds, BridgeInvariantHolds, PTL

\* What the application and the reassembly do together implements the abstract
\* delivery, with whichever order the application asked of the bridge.
THEOREM ConsumerImplementsDelivery == ConsumerSpec => ImplementsDelivery
BY ConsumerRefinesReassembly, RefinesDelivery, PTL

=============================================================================
