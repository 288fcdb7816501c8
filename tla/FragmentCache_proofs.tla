------------------------ MODULE FragmentCache_proofs ------------------------
(***************************************************************************)
(* Proofs about the cache of a relay.  The first part, down to             *)
(* ServedWhenComplete, holds for any cut of the objects into fragments,    *)
(* overlapping ones included; the second for a cut into disjoint pieces.   *)
(***************************************************************************)
EXTENDS FragmentCache, Media_proofs

----------------------------------------------------------------------------
(* Fragments and their order.                                              *)

LEMMA SentShape ==
    ASSUME NEW k \in Sent
    PROVE  /\ k \in Key /\ k \in Nat \X Nat /\ k = <<k[1], k[2]>>
           /\ k[1] \in Nat /\ k[2] \in Nat
           /\ k[1] \in Group /\ k[2] < NbObjects[k[1]] /\ NbObjects[k[1]] \in Nat
           /\ ObjectLength[k] \in Nat
           /\ NbPrevious(k) \in Nat
<1>1. k \in Key
  BY DEF Sent
<1>2. /\ k = <<k[1], k[2]>> /\ k[1] \in Group /\ k[1] \in Nat /\ k[2] \in Nat
      /\ k[2] < NbObjects[k[1]] /\ NbObjects[k[1]] \in Nat
  BY <1>1, KeyShape
<1>3. ObjectLength[k] \in Nat
  BY <1>1, MediaAssumption
<1>4. NbPrevious(k) \in Nat
  BY <1>2, MediaAssumption DEF NbPrevious, Group
<1>5. QED
  BY <1>1, <1>2, <1>3, <1>4

\* The order of the tree has a first element in every set of fragments.
LEMMA FirstExists ==
    ASSUME NEW S, S # {}, \A f \in S : IsFragment(f)
    PROVE  \E f \in S : \A e \in S : ~FragmentLess(e, f)
<1>1. \A f \in S : f.key[1] \in Nat /\ f.key[2] \in Nat /\ f.offset \in Nat
  BY SentShape DEF IsFragment
<1>2. PICK f1 \in S : \A e \in S : f1.key[1] <= e.key[1]
  <2> DEFINE T == {f.key[1] : f \in S}
  <2>1. T \subseteq Nat /\ T # {}
    BY <1>1
  <2>2. PICK m \in T : \A n \in T : m <= n
    BY <2>1, LeastNatural
  <2>3. QED
    BY <2>2
<1>3. PICK f2 \in S : f2.key[1] = f1.key[1]
                      /\ \A e \in S : e.key[1] = f1.key[1] => f2.key[2] <= e.key[2]
  <2> DEFINE T == {f.key[2] : f \in {e \in S : e.key[1] = f1.key[1]}}
  <2>1. T \subseteq Nat /\ T # {}
    BY <1>1
  <2>2. PICK m \in T : \A n \in T : m <= n
    BY <2>1, LeastNatural
  <2>3. QED
    BY <2>2
<1>4. PICK f3 \in S : f3.key = f2.key
                      /\ \A e \in S : e.key = f2.key => f3.offset <= e.offset
  <2> DEFINE T == {f.offset : f \in {e \in S : e.key = f2.key}}
  <2>1. T \subseteq Nat /\ T # {}
    BY <1>1
  <2>2. PICK m \in T : \A n \in T : m <= n
    BY <2>1, LeastNatural
  <2>3. QED
    BY <2>2
<1>5. \A e \in S : ~FragmentLess(e, f3)
  BY <1>1, <1>2, <1>3, <1>4 DEF FragmentLess, Before
<1>6. QED
  BY <1>5

\* And a last one: keys and offsets are bounded.
LEMMA LastExists ==
    ASSUME NEW S, S # {}, \A f \in S : IsFragment(f)
    PROVE  \E f \in S : \A e \in S : ~FragmentLess(f, e)
<1>1. \A f \in S : /\ f.key[1] \in Nat /\ f.key[2] \in Nat /\ f.offset \in Nat
                   /\ LastGroup - f.key[1] \in Nat
                   /\ NbObjects[f.key[1]] - f.key[2] \in Nat /\ NbObjects[f.key[1]] \in Nat
                   /\ ObjectLength[f.key] - f.offset \in Nat /\ ObjectLength[f.key] \in Nat
                   /\ f.key = <<f.key[1], f.key[2]>>
  BY SentShape, MediaAssumption, SMTT(30) DEF IsFragment, Group
<1>2. PICK f1 \in S : \A e \in S : e.key[1] <= f1.key[1]
  <2> DEFINE T == {LastGroup - f.key[1] : f \in S}
  <2>1. T \subseteq Nat /\ T # {}
    BY <1>1
  <2>2. PICK m \in T : \A n \in T : m <= n
    BY <2>1, LeastNatural
  <2>3. PICK f1 \in S : m = LastGroup - f1.key[1]
    BY <2>2
  <2>4. \A e \in S : LastGroup - f1.key[1] <= LastGroup - e.key[1]
    BY <2>2, <2>3
  <2>5. QED
    BY <1>1, <2>4, MediaAssumption
<1>3. PICK f2 \in S : f2.key[1] = f1.key[1]
                      /\ \A e \in S : e.key[1] = f1.key[1] => e.key[2] <= f2.key[2]
  <2> DEFINE T == {NbObjects[f.key[1]] - f.key[2] : f \in {e \in S : e.key[1] = f1.key[1]}}
  <2>1. T \subseteq Nat /\ T # {}
    BY <1>1
  <2>2. PICK m \in T : \A n \in T : m <= n
    BY <2>1, LeastNatural
  <2>3. PICK f2 \in S : f2.key[1] = f1.key[1] /\ m = NbObjects[f2.key[1]] - f2.key[2]
    BY <2>2
  <2>4. \A e \in S : e.key[1] = f1.key[1] =>
             NbObjects[f1.key[1]] - f2.key[2] <= NbObjects[f1.key[1]] - e.key[2]
    BY <2>2, <2>3
  <2>5. QED
    BY <1>1, <2>3, <2>4
<1>4. PICK f3 \in S : f3.key = f2.key
                      /\ \A e \in S : e.key = f2.key => e.offset <= f3.offset
  <2> DEFINE T == {ObjectLength[f.key] - f.offset : f \in {e \in S : e.key = f2.key}}
  <2>1. T \subseteq Nat /\ T # {}
    BY <1>1
  <2>2. PICK m \in T : \A n \in T : m <= n
    BY <2>1, LeastNatural
  <2>3. PICK f3 \in S : f3.key = f2.key /\ m = ObjectLength[f3.key] - f3.offset
    BY <2>2
  <2>4. \A e \in S : e.key = f2.key =>
             ObjectLength[f2.key] - f3.offset <= ObjectLength[f2.key] - e.offset
    BY <2>2, <2>3
  <2>5. QED
    BY <1>1, <2>3, <2>4
<1>5. \A e \in S : ~FragmentLess(f3, e)
  BY <1>1, <1>2, <1>3, <1>4 DEF FragmentLess, Before
<1>6. QED
  BY <1>5

----------------------------------------------------------------------------
(* The steps of the cache, for any cut of the objects.                     *)

LEMMA PointShape ==
    ASSUME CacheTypeOK
    PROVE  /\ next_point = <<next_point[1], next_point[2], next_point[3]>>
           /\ next_point[1] \in Nat /\ next_point[2] \in Nat /\ next_point[3] \in Nat
           /\ NextKey \in Nat \X Nat /\ NextKey[1] = next_point[1] /\ NextKey[2] = next_point[2]
           /\ first_point \in Nat \X Nat /\ final_point \in Nat \X Nat
           /\ first_point[1] \in Nat /\ first_point[2] \in Nat
           /\ final_point[1] \in Nat /\ final_point[2] \in Nat
  BY DEF CacheTypeOK, Point, NextKey

\* A step that only adds to the tree keeps what is complete complete.
LEMMA TreeGrows ==
    ASSUME fragment_tree \subseteq fragment_tree'
    PROVE  /\ \A k : Whole(k) => Whole(k)'
           /\ \A k, b : (\E f \in OfObject(k) : b \in Bytes(f.offset, f.data_length))
                     => (\E f \in OfObject(k)' : b \in Bytes(f.offset, f.data_length))
  BY DEF Whole, OfObject

LEMMA PointsStay ==
    ASSUME NextIsPrefix, GroupHeld, fragment_tree \subseteq fragment_tree',
           UNCHANGED <<next_point, first_point>>,
           pc = "deleted" => pc' = "deleted"
    PROVE  NextIsPrefix' /\ GroupHeld'
<1>1. NextKey' = NextKey
  BY DEF NextKey
<1>2. GroupHeld'
  BY <1>1 DEF GroupHeld
<1>3. NextIsPrefix'
  <2> SUFFICES ASSUME NEW k \in Sent, ~Before(k, first_point)
               PROVE  /\ Before(k, NextKey) => pc' = "deleted" \/ Whole(k)'
                      /\ k = NextKey /\ pc' # "deleted" =>
                           \A b \in 0..(next_point[3] - 1) :
                              \E f \in OfObject(k)' : b \in Bytes(f.offset, f.data_length)
    BY <1>1 DEF NextIsPrefix
  <2>1. /\ Before(k, NextKey) => pc = "deleted" \/ Whole(k)
        /\ k = NextKey /\ pc # "deleted" =>
             \A b \in 0..(next_point[3] - 1) :
                \E f \in OfObject(k) : b \in Bytes(f.offset, f.data_length)
    BY DEF NextIsPrefix
  <2>2. QED
    BY <2>1, TreeGrows
<1>4. QED
  BY <1>2, <1>3

LEMMA FinalStays ==
    ASSUME FinalOK, UNCHANGED <<next_point, first_point, final_point,
                                is_feed_closed, is_receive_complete>>
    PROVE  FinalOK'
  BY DEF FinalOK, NextKey

LEMMA InitCacheInv ==
    ASSUME CacheInit PROVE CacheInv
<1>1. CacheTypeOK
  BY DEF CacheInit, CacheTypeOK, Point, NoJob
<1>2. CallOK
  BY DEF CacheInit, CallOK
<1>3. \A k \in Sent : ~Before(k, NextKey)
  BY SentShape DEF CacheInit, NextKey, Before
<1>4. GroupHeld
  BY <1>3 DEF CacheInit, GroupHeld
<1>5. NextIsPrefix
  BY <1>3 DEF CacheInit, NextIsPrefix
<1>6. FinalOK
  BY DEF CacheInit, FinalOK
<1>7. QED
  BY <1>1, <1>2, <1>4, <1>5, <1>6 DEF CacheInit, CacheInv

\* When the relay finds the media complete, the next point is the final point.
LEMMA CompleteIsFinal ==
    ASSUME CacheTypeOK, FinalOK, ~is_feed_closed,
           ReachesFinal(next_point) \/ (NextKey = FinalPoint /\ final_point' = FinalPoint),
           final_point' \in {final_point, FinalPoint}
    PROVE  final_point' = FinalPoint /\ ~Before(NextKey, FinalPoint)
<1>1. NextKey \in Nat \X Nat
  BY PointShape
<1>2. NextKey = FinalPoint /\ final_point' = FinalPoint
  BY DEF FinalOK, ReachesFinal, NextKey
<1>3. QED
  BY <1>1, <1>2, BeforeIsTotal

LEMMA ProposeOldStep ==
    ASSUME CacheInv, NEW k \in Sent, NEW p \in Pieces[k], ProposeOld(k, p)
    PROVE  CacheInv'
<1> USE DEF ProposeOld, FeedOpen
<1>1. CacheTypeOK'
  BY DEF CacheInv, CacheTypeOK, IsFragment
<1>2. CallOK'
  BY DEF CacheInv, CallOK, Started, JobOK, End
<1>3. NextIsPrefix' /\ GroupHeld'
  BY PointsStay DEF CacheInv
<1>4. FinalOK'
  <2>1. CASE is_receive_complete' = is_receive_complete
    BY <2>1, FinalStays DEF CacheInv
  <2>2. CASE ReachesFinal(next_point)
    <3>1. final_point' = FinalPoint /\ ~Before(NextKey, FinalPoint)
      BY <2>2, CompleteIsFinal DEF CacheInv
    <3>2. QED
      BY <3>1 DEF CacheInv, FinalOK, NextKey
  <2>3. QED
    BY <2>1, <2>2 DEF CacheInv, CacheTypeOK
<1>5. QED
  BY <1>1, <1>2, <1>3, <1>4 DEF CacheInv

LEMMA ProposeStep ==
    ASSUME StartInTime, CacheInv, NEW k \in Sent, NEW p \in Pieces[k], Propose(k, p)
    PROVE  CacheInv'
<1> DEFINE cursor == LastOf({f \in fragment_tree : ~Before(k, f.key)})
           nb == IF p.offset = 0 THEN NbPrevious(k) ELSE 0
<1>1. cursor \subseteq fragment_tree
  BY DEF LastOf
<1>2. /\ k \in Key /\ p.offset \in Nat /\ p.data_length \in Nat
      /\ p.offset + p.data_length <= ObjectLength[k]
      /\ nb \in Nat /\ nb \in {0, NbPrevious(k)}
  BY SentShape, CacheAssumption
<1>3. job' = [key |-> k, offset |-> p.offset, data_length |-> p.data_length,
              nb |-> nb, added |-> FALSE, cursor |-> cursor]
  BY DEF Propose
<1> HIDE DEF cursor, nb
<1>4. /\ pc = "idle" /\ pc' = "walk" /\ ~Before(k, first_point) /\ Started /\ ~is_feed_closed
      /\ UNCHANGED <<fragment_tree, next_point, first_point, final_point,
                     nb_object_received, feed_vars, at, received>>
  BY DEF Propose, FeedOpen, TooOld, Started
<1>5. CacheTypeOK'
  <2>1. job'.cursor \subseteq fragment_tree'
    BY <1>1, <1>3, <1>4
  <2>2. QED
    BY <1>4, <2>1 DEF CacheInv, CacheTypeOK, IsFragment, feed_vars
<1>6. JobOK'
  <2>1. job' \in [key : Sent, offset : Nat, data_length : Nat, nb : Nat,
                 added : BOOLEAN, cursor : SUBSET fragment_tree]
    BY <1>1, <1>2, <1>3
  <2>2. /\ job'.key = k /\ job'.offset = p.offset /\ job'.data_length = p.data_length
        /\ job'.nb = nb
    BY <1>3
  <2>3. QED
    BY <1>2, <1>4, <2>1, <2>2 DEF JobOK, End
<1>7. CallOK'
  BY <1>4, <1>6 DEF CacheInv, CallOK, Started, feed_vars
<1>8. NextIsPrefix' /\ GroupHeld'
  BY <1>4, PointsStay DEF CacheInv
<1>9. FinalOK'
  BY <1>4, FinalStays DEF CacheInv, feed_vars
<1>10. QED
  BY <1>4, <1>5, <1>7, <1>8, <1>9 DEF CacheInv

\* Storing the last data_length bytes left of a proposed fragment.
LEMMA AddStep ==
    ASSUME CacheInv, pc = "walk", NEW n \in Nat, n <= job.data_length,
           AddToCache(n), UNCHANGED <<next_point, first_point, final_point,
                                      nb_object_received, feed_vars, received>>,
           job'.key = job.key, job'.offset = job.offset,
           job'.data_length \in Nat, job'.data_length <= job.data_length,
           job'.nb \in {0, job.nb}, job'.added \in BOOLEAN,
           job' \in [key : Sent, offset : Nat, data_length : Nat, nb : Nat,
                     added : BOOLEAN, cursor : SUBSET fragment_tree']
    PROVE  CacheInv'
<1> DEFINE f == FragmentOf(job.key, job.offset, n, job.nb)
<1>1. JobOK /\ Started /\ ~is_feed_closed
  BY DEF CacheInv, CallOK
<1>2. /\ job.key \in Sent /\ job.offset \in Nat /\ job.data_length \in Nat /\ job.nb \in Nat
      /\ job.offset + job.data_length <= ObjectLength[job.key]
      /\ ObjectLength[job.key] \in Nat
      /\ ~Before(job.key, first_point) /\ job.nb \in {0, NbPrevious(job.key)}
  BY <1>1, SentShape DEF JobOK, End
<1>3. /\ f.key = job.key /\ f.offset = job.offset /\ f.data_length = n
      /\ f.object_length = ObjectLength[job.key] /\ f.nb_objects_previous_group = job.nb
  BY DEF FragmentOf
<1>4. fragment_tree' = fragment_tree \cup {f} /\ at' = {f} /\ pc' = "progress"
  BY DEF AddToCache
<1> HIDE DEF f
<1>5. IsFragment(f) /\ ~Before(f.key, first_point)
  BY <1>2, <1>3 DEF IsFragment
<1>6. CacheTypeOK'
  <2>1. \A e \in fragment_tree' : IsFragment(e) /\ ~Before(e.key, first_point')
    BY <1>4, <1>5 DEF CacheInv, CacheTypeOK
  <2>2. QED
    BY <1>4, <2>1 DEF CacheInv, CacheTypeOK, feed_vars, Point
<1>7. JobOK'
  BY <1>1, <1>2 DEF JobOK, End
<1>8. CallOK'
  BY <1>1, <1>4, <1>7 DEF CallOK, Started, feed_vars
<1>9. NextIsPrefix' /\ GroupHeld'
  BY <1>4, PointsStay DEF CacheInv
<1>10. FinalOK'
  BY FinalStays DEF CacheInv, feed_vars
<1>11. \A e \in fragment_tree' : e.nb_objects_previous_group \in {0, NbPrevious(e.key)}
  BY <1>2, <1>3, <1>4 DEF CacheInv
<1>12. QED
  BY <1>6, <1>8, <1>9, <1>10, <1>11 DEF CacheInv

LEMMA WalkApartStep ==
    ASSUME CacheInv, WalkApart PROVE CacheInv'
<1>1. pc = "walk" /\ AddToCache(job.data_length)
      /\ job' = [job EXCEPT !.data_length = 0, !.added = TRUE]
      /\ UNCHANGED <<next_point, first_point, final_point, nb_object_received,
                     feed_vars, received>>
  BY DEF WalkApart
<1>2. job \in [key : Sent, offset : Nat, data_length : Nat, nb : Nat,
               added : BOOLEAN, cursor : SUBSET fragment_tree]
  BY <1>1 DEF CacheInv, CallOK, JobOK
<1>3. fragment_tree \subseteq fragment_tree'
  BY <1>1 DEF AddToCache
<1>4. /\ job' \in [key : Sent, offset : Nat, data_length : Nat, nb : Nat,
                   added : BOOLEAN, cursor : SUBSET fragment_tree']
      /\ job'.key = job.key /\ job'.offset = job.offset /\ job'.data_length = 0
      /\ job'.nb = job.nb /\ job'.added = TRUE
  BY <1>1, <1>2, <1>3
<1>5. job.data_length \in Nat
  BY <1>2
<1>6. QED
  BY <1>1, <1>4, <1>5, AddStep

LEMMA WalkOverlapStep ==
    ASSUME CacheInv, WalkOverlap PROVE CacheInv'
<1>1. PICK c \in job.cursor :
        LET beyond == End(job) - End(c)
            left == IF beyond > 0 THEN job.data_length - beyond ELSE job.data_length
            rest == IF job.offset >= c.offset THEN 0
                    ELSE IF c.offset < job.offset + left THEN c.offset - job.offset
                    ELSE left
        IN /\ c.key = job.key /\ End(c) >= job.offset
           /\ IF beyond > 0 THEN AddToCache(beyond)
              ELSE pc' = AfterTurn(rest) /\ UNCHANGED <<fragment_tree, at>>
           /\ job' = [job EXCEPT
                        !.data_length = rest,
                        !.added = @ \/ beyond > 0,
                        !.nb = IF beyond > 0 THEN 0 ELSE @,
                        !.cursor = IF job.offset >= c.offset THEN @
                                   ELSE LastOf({f \in fragment_tree' : FragmentLess(f, c)})]
  BY DEF WalkOverlap
<1> DEFINE beyond == End(job) - End(c)
           left == IF beyond > 0 THEN job.data_length - beyond ELSE job.data_length
           rest == IF job.offset >= c.offset THEN 0
                   ELSE IF c.offset < job.offset + left THEN c.offset - job.offset
                   ELSE left
           added == job.added \/ beyond > 0
           nb == IF beyond > 0 THEN 0 ELSE job.nb
           cursor == IF job.offset >= c.offset THEN job.cursor
                     ELSE LastOf({f \in fragment_tree' : FragmentLess(f, c)})
<1>2. pc = "walk" /\ UNCHANGED <<next_point, first_point, final_point,
                                 nb_object_received, feed_vars, received>>
  BY DEF WalkOverlap
<1>3. job \in [key : Sent, offset : Nat, data_length : Nat, nb : Nat,
               added : BOOLEAN, cursor : SUBSET fragment_tree] /\ JobOK /\ Started
  BY <1>2 DEF CacheInv, CallOK, JobOK
<1>4. /\ job.key \in Sent /\ job.offset \in Nat /\ job.data_length \in Nat /\ job.nb \in Nat
      /\ c \in fragment_tree /\ job.cursor \subseteq fragment_tree
  BY <1>3
<1>5. c.offset \in Nat /\ c.data_length \in Nat
  BY <1>4 DEF CacheInv, CacheTypeOK, IsFragment
<1>6. /\ beyond \in Int /\ beyond <= job.data_length
      /\ rest \in Nat /\ rest <= job.data_length
      /\ nb \in {0, job.nb} /\ nb \in Nat
  BY <1>1, <1>4, <1>5 DEF End
<1>7. fragment_tree \subseteq fragment_tree'
  BY <1>1 DEF AddToCache
<1>8. cursor \subseteq fragment_tree'
  BY <1>4, <1>7 DEF LastOf
<1>9. job' = [job EXCEPT !.data_length = rest, !.added = added, !.nb = nb,
                         !.cursor = cursor]
  BY <1>1, <1>3
<1>10. added \in BOOLEAN
  OBVIOUS
<1>11. /\ beyond > 0 => AddToCache(beyond)
       /\ ~(beyond > 0) => pc' = AfterTurn(rest) /\ UNCHANGED <<fragment_tree, at>>
  BY <1>1
<1> HIDE DEF beyond, rest, added, nb, cursor, left
<1>12. /\ job' \in [key : Sent, offset : Nat, data_length : Nat, nb : Nat,
                    added : BOOLEAN, cursor : SUBSET fragment_tree']
       /\ job'.key = job.key /\ job'.offset = job.offset /\ job'.data_length = rest
       /\ job'.nb = nb /\ job'.added = added /\ job'.cursor = cursor
  BY <1>3, <1>6, <1>8, <1>9, <1>10
<1>13. CASE beyond > 0
  <2>1. beyond \in Nat
    BY <1>6, <1>13
  <2>2. QED
    BY <1>2, <1>6, <1>10, <1>11, <1>12, <1>13, <2>1, AddStep
<1>14. CASE ~(beyond > 0)
  <2>1. pc' = AfterTurn(rest) /\ UNCHANGED <<fragment_tree, at>>
    BY <1>11, <1>14
  <2>2. pc' \in {"walk", "count"}
    BY <2>1 DEF AfterTurn
  <2>3. CacheTypeOK'
    BY <1>2, <1>8, <1>12, <2>1, <2>2 DEF CacheInv, CacheTypeOK, feed_vars, IsFragment, Point
  <2>4. JobOK'
    <3>1. End(job)' <= ObjectLength[job.key]
      BY <1>3, <1>4, <1>6, <1>12, SentShape DEF JobOK, End
    <3>2. QED
      BY <1>2, <1>3, <1>6, <1>12, <3>1 DEF JobOK
  <2>5. CallOK'
    BY <1>2, <1>3, <2>1, <2>2, <2>4 DEF CacheInv, CallOK, Started, feed_vars
  <2>6. NextIsPrefix' /\ GroupHeld'
    BY <1>2, <1>7, PointsStay DEF CacheInv
  <2>7. FinalOK'
    BY <1>2, FinalStays DEF CacheInv, feed_vars
  <2>8. QED
    BY <2>1, <2>3, <2>5, <2>6, <2>7 DEF CacheInv
<1>15. QED
  BY <1>13, <1>14

\* The next point only moves forward.
LEMMA FinalForward ==
    ASSUME CacheTypeOK, CacheTypeOK', FinalOK, Before(NextKey, NextKey') \/ NextKey' = NextKey,
           UNCHANGED <<first_point, final_point, is_feed_closed, is_receive_complete>>
    PROVE  FinalOK'
<1>1. /\ NextKey \in Nat \X Nat /\ NextKey' \in Nat \X Nat
      /\ final_point \in Nat \X Nat /\ FinalPoint \in Nat \X Nat
  <2>1. NextKey \in Nat \X Nat /\ final_point \in Nat \X Nat
    BY PointShape
  <2>2. NextKey' \in Nat \X Nat
    BY DEF CacheTypeOK, NextKey
  <2>3. QED
    BY <2>1, <2>2, FinalShape
<1>2. \A p \in Nat \X Nat : ~Before(NextKey, p) => ~Before(NextKey', p)
  BY <1>1, BeforeIsTotal
<1>3. QED
  BY <1>1, <1>2 DEF FinalOK

\* All that is before an expected fragment is in the cache.
LEMMA BeforeExpected ==
    ASSUME CacheInv, pc # "deleted", NEW f \in fragment_tree, Expected(f),
           NEW k \in Sent, ~Before(k, first_point)
    PROVE  /\ Before(k, f.key) => Whole(k)
           /\ k = f.key => \A b \in 0..(End(f) - 1) :
                \E e \in OfObject(k) : b \in Bytes(e.offset, e.data_length)
<1>1. /\ IsFragment(f) /\ f.key \in Sent /\ f.offset \in Nat /\ f.data_length \in Nat
      /\ f.nb_objects_previous_group \in {0, NbPrevious(f.key)}
  BY DEF CacheInv, CacheTypeOK, IsFragment
<1>2. /\ Before(k, NextKey) => Whole(k)
      /\ k = NextKey =>
           \A b \in 0..(next_point[3] - 1) :
              \E e \in OfObject(k) : b \in Bytes(e.offset, e.data_length)
  BY DEF CacheInv, NextIsPrefix
<1>3. /\ next_point[1] \in Nat /\ next_point[2] \in Nat /\ next_point[3] \in Nat
      /\ NextKey = <<next_point[1], next_point[2]>>
  BY PointShape DEF CacheInv, NextKey
<1>4. k = <<k[1], k[2]>> /\ k[1] \in Nat /\ k[2] \in Nat /\ k[2] < NbObjects[k[1]]
      /\ NbObjects[k[1]] \in Nat
  BY SentShape
<1>5. Before(k, f.key) => Before(k, NextKey)
  <2>1. CASE f.key = NextKey
    BY <2>1
  <2>2. CASE EntersNextGroup(f)
    <3>1. f.key = <<next_point[1] + 1, 0>> /\ next_point[2] = NbPrevious(f.key)
      BY <1>1, <1>3, <2>2 DEF EntersNextGroup
    <3>2. next_point[2] = NbObjects[next_point[1]]
      BY <1>3, <3>1 DEF NbPrevious
    <3>3. QED
      BY <1>3, <1>4, <3>1, <3>2 DEF Before
  <2>3. QED
    BY <2>1, <2>2 DEF Expected
<1>6. k = f.key => \A b \in 0..(End(f) - 1) :
        \E e \in OfObject(k) : b \in Bytes(e.offset, e.data_length)
  <2> SUFFICES ASSUME k = f.key, NEW b \in 0..(End(f) - 1)
               PROVE  \E e \in OfObject(k) : b \in Bytes(e.offset, e.data_length)
    OBVIOUS
  <2>1. f \in OfObject(k)
    BY DEF OfObject
  <2>2. CASE b >= f.offset
    BY <1>1, <2>1, <2>2 DEF Bytes, End
  <2>3. CASE b < f.offset
    <3>1. f.key = NextKey /\ f.offset = next_point[3]
      BY <1>1, <2>3 DEF Expected, EntersNextGroup
    <3>2. QED
      BY <1>2, <1>3, <2>3, <3>1
  <2>4. QED
    BY <1>1, <2>2, <2>3 DEF End
<1>7. QED
  BY <1>2, <1>5, <1>6

\* Where the loop goes from an expected fragment.
LEMMA PointAfterShape ==
    ASSUME CacheInv, NEW f \in fragment_tree, Expected(f), next_point' = PointAfter(f)
    PROVE  /\ next_point' \in Nat \X Nat \X Nat
           /\ Before(NextKey, NextKey') \/ NextKey' = NextKey
           /\ next_point'[1] = f.key[1]
           /\ \/ /\ End(f) >= f.object_length
                 /\ NextKey' = <<f.key[1], f.key[2] + 1>> /\ next_point'[3] = 0
              \/ /\ End(f) < f.object_length
                 /\ NextKey' = f.key /\ next_point'[3] = End(f)
<1>1. /\ f.key \in Sent /\ f.offset \in Nat /\ f.data_length \in Nat
      /\ f.object_length \in Nat /\ f.key = <<f.key[1], f.key[2]>>
      /\ f.key[1] \in Nat /\ f.key[2] \in Nat
  BY SentShape DEF CacheInv, CacheTypeOK, IsFragment
<1>2. /\ next_point[1] \in Nat /\ next_point[2] \in Nat
      /\ NextKey = <<next_point[1], next_point[2]>>
  BY PointShape DEF CacheInv, NextKey
<1>3. f.key = NextKey \/ f.key = <<next_point[1] + 1, 0>>
  BY DEF Expected, EntersNextGroup
<1>4. CASE End(f) >= f.object_length
  <2>1. next_point' = <<f.key[1], f.key[2] + 1, 0>>
    BY <1>4 DEF PointAfter
  <2>2. NextKey' = <<f.key[1], f.key[2] + 1>>
    BY <2>1 DEF NextKey
  <2>3. Before(NextKey, NextKey')
    BY <1>1, <1>2, <1>3, <2>2 DEF Before
  <2>4. QED
    BY <1>1, <1>4, <2>1, <2>2, <2>3
<1>5. CASE ~(End(f) >= f.object_length)
  <2>1. next_point' = <<f.key[1], f.key[2], End(f)>>
    BY <1>5 DEF PointAfter
  <2>2. NextKey' = f.key
    BY <1>1, <2>1 DEF NextKey
  <2>3. Before(NextKey, NextKey') \/ NextKey' = NextKey
    BY <1>1, <1>2, <1>3, <2>2 DEF Before
  <2>4. End(f) \in Nat
    BY <1>1 DEF End
  <2>5. QED
    BY <1>1, <1>5, <2>1, <2>2, <2>3, <2>4
<1>6. QED
  BY <1>4, <1>5

LEMMA ProgressStepStep ==
    ASSUME CacheInv, ProgressStep PROVE CacheInv'
<1>1. PICK f \in at : /\ Expected(f)
                      /\ next_point' = PointAfter(f)
                      /\ at' = FirstOf({e \in fragment_tree : FragmentLess(f, e)})
  BY DEF ProgressStep
<1>2. /\ pc = "progress" /\ pc' = pc
      /\ UNCHANGED <<fragment_tree, first_point, final_point, nb_object_received,
                     feed_vars, job, received>>
  BY DEF ProgressStep
<1>3. f \in fragment_tree /\ IsFragment(f)
  BY DEF CacheInv, CacheTypeOK
<1>4. /\ next_point' \in Nat \X Nat \X Nat
      /\ Before(NextKey, NextKey') \/ NextKey' = NextKey
      /\ next_point'[1] = f.key[1]
      /\ \/ /\ End(f) >= f.object_length
            /\ NextKey' = <<f.key[1], f.key[2] + 1>> /\ next_point'[3] = 0
         \/ /\ End(f) < f.object_length
            /\ NextKey' = f.key /\ next_point'[3] = End(f)
  BY <1>1, <1>3, PointAfterShape
<1>5. CacheTypeOK'
  <2>1. at' \subseteq fragment_tree'
    BY <1>1, <1>2 DEF FirstOf
  <2>2. QED
    BY <1>2, <1>4, <2>1 DEF CacheInv, CacheTypeOK, feed_vars, IsFragment
<1>6. CallOK'
  BY <1>2 DEF CacheInv, CallOK, JobOK, Started, feed_vars, End
<1>7. GroupHeld'
  BY <1>2, <1>3, <1>4 DEF GroupHeld
<1>8. FinalOK'
  BY <1>2, <1>4, <1>5, FinalForward DEF CacheInv, feed_vars
<1>9. NextIsPrefix'
  <2> SUFFICES ASSUME NEW k \in Sent, ~Before(k, first_point)
               PROVE  /\ Before(k, NextKey') => Whole(k)'
                      /\ k = NextKey' =>
                           \A b \in 0..(next_point'[3] - 1) :
                              \E e \in OfObject(k)' : b \in Bytes(e.offset, e.data_length)
    BY <1>2 DEF NextIsPrefix
  <2>1. /\ Before(k, f.key) => Whole(k)
        /\ k = f.key => \A b \in 0..(End(f) - 1) :
             \E e \in OfObject(k) : b \in Bytes(e.offset, e.data_length)
    BY <1>1, <1>2, <1>3, BeforeExpected
  <2>2. OfObject(k)' = OfObject(k) /\ (Whole(k) => Whole(k)')
    BY <1>2 DEF OfObject, Whole
  <2>3. CASE NextKey' = f.key /\ next_point'[3] = End(f)
    BY <2>1, <2>2, <2>3
  <2>4. CASE /\ End(f) >= f.object_length
             /\ NextKey' = <<f.key[1], f.key[2] + 1>> /\ next_point'[3] = 0
    <3>1. k = f.key => Whole(k)
      <4> SUFFICES ASSUME k = f.key PROVE Whole(k)
        OBVIOUS
      <4>1. f \in OfObject(k)
        BY <1>3 DEF OfObject
      <4>2. End(f) \in Nat /\ ObjectLength[k] <= End(f) /\ ObjectLength[k] \in Nat
        BY <1>3, <2>4, SentShape DEF IsFragment, End
      <4>3. QED
        BY <2>1, <4>1, <4>2 DEF Whole
    <3>2. Before(k, NextKey') => k = f.key \/ Before(k, f.key)
      <4>1. /\ k = <<k[1], k[2]>> /\ k[1] \in Nat /\ k[2] \in Nat
            /\ f.key = <<f.key[1], f.key[2]>> /\ f.key[1] \in Nat /\ f.key[2] \in Nat
        BY <1>3, SentShape DEF IsFragment
      <4>2. QED
        BY <2>4, <4>1 DEF Before
    <3>3. QED
      BY <2>1, <2>2, <2>4, <3>1, <3>2
  <2>5. QED
    BY <1>4, <2>3, <2>4
<1>10. QED
  BY <1>2, <1>5, <1>6, <1>7, <1>8, <1>9 DEF CacheInv

LEMMA ProgressEndStep ==
    ASSUME CacheInv, ProgressEnd PROVE CacheInv'
<1> USE DEF ProgressEnd
<1>1. pc' \in {"walk", "count"} /\ pc # "deleted"
  BY DEF AfterTurn
<1>2. CacheTypeOK'
  BY <1>1 DEF CacheInv, CacheTypeOK, feed_vars, IsFragment
<1>3. CallOK'
  BY <1>1 DEF CacheInv, CallOK, JobOK, Started, feed_vars, End
<1>4. NextIsPrefix' /\ GroupHeld'
  BY <1>1, PointsStay DEF CacheInv
<1>5. FinalOK'
  BY FinalStays DEF CacheInv, feed_vars
<1>6. QED
  BY <1>2, <1>3, <1>4, <1>5 DEF CacheInv

LEMMA CountStep ==
    ASSUME CacheInv, Count PROVE CacheInv'
<1>1. /\ pc = "count" /\ pc' = "idle" /\ job' = NoJob
      /\ is_receive_complete' = (is_receive_complete \/ ReachesFinal(next_point))
      /\ UNCHANGED <<fragment_tree, next_point, first_point, final_point,
                     is_cache_real_time, is_feed_closed, start_learned, at>>
  BY DEF Count
<1>2. JobOK /\ Started /\ ~is_feed_closed /\ at = {}
  BY <1>1 DEF CacheInv, CallOK
<1>3. CacheTypeOK'
  <2>1. nb_object_received' \in Nat /\ received' \subseteq Sent
    BY <1>2 DEF CacheInv, CacheTypeOK, JobOK, Count
  <2>2. job'.cursor \subseteq fragment_tree'
    BY <1>1 DEF NoJob
  <2>3. is_receive_complete' \in BOOLEAN
    BY <1>1
  <2>4. QED
    BY <1>1, <2>1, <2>2, <2>3 DEF CacheInv, CacheTypeOK, IsFragment
<1>4. CallOK'
  BY <1>1, <1>2 DEF CallOK, Started
<1>5. NextIsPrefix' /\ GroupHeld'
  BY <1>1, PointsStay DEF CacheInv
<1>6. FinalOK'
  <2>1. CASE is_receive_complete' = is_receive_complete
    BY <1>1, <2>1, FinalStays DEF CacheInv
  <2>2. CASE ReachesFinal(next_point) /\ ~is_feed_closed
    <3>1. final_point' = FinalPoint /\ ~Before(NextKey, FinalPoint)
      BY <1>1, <2>2, CompleteIsFinal DEF CacheInv
    <3>2. QED
      BY <1>1, <2>2, <3>1 DEF CacheInv, FinalOK, NextKey
  <2>3. QED
    BY <1>1, <1>2, <2>1, <2>2 DEF CacheInv, CacheTypeOK
<1>7. QED
  BY <1>1, <1>3, <1>4, <1>5, <1>6 DEF CacheInv

LEMMA LearnStartStep ==
    ASSUME CacheInv, LearnStartPoint PROVE CacheInv'
<1>1. /\ pc = "idle" /\ pc' = pc /\ ~is_feed_closed /\ is_feed_closed' = is_feed_closed
      /\ StartPoint # <<0, 0>> /\ ~start_learned /\ start_learned' = TRUE
      /\ first_point' = StartPoint
      /\ next_point' = IF Before(NextKey, StartPoint)
                       THEN <<StartPoint[1], StartPoint[2], next_point[3]>> ELSE next_point
      /\ fragment_tree' = {f \in fragment_tree : ~Before(f.key, StartPoint)}
      /\ UNCHANGED <<final_point, nb_object_received, is_cache_real_time,
                     is_receive_complete, job, at, received>>
  BY DEF LearnStartPoint
<1>2. /\ fragment_tree = {} /\ next_point = <<0, 0, 0>> /\ received = {}
      /\ at = {} /\ job = NoJob
  BY <1>1 DEF CacheInv, CallOK, Started
<1>3. /\ StartPoint = <<StartPoint[1], StartPoint[2]>>
      /\ StartPoint[1] \in Nat /\ StartPoint[2] \in Nat
  BY StartShape
<1>4. next_point' = <<StartPoint[1], StartPoint[2], 0>>
  BY <1>1, <1>2, <1>3 DEF Before, NextKey
<1>5. NextKey' = StartPoint
  BY <1>3, <1>4 DEF NextKey
<1>6. fragment_tree' = {}
  BY <1>1, <1>2
<1>7. CacheTypeOK'
  BY <1>1, <1>2, <1>3, <1>4, <1>6 DEF CacheInv, CacheTypeOK, NoJob, Point
<1>8. CallOK'
  BY <1>1, <1>2 DEF CallOK, Started
<1>9. \A k \in Sent : ~Before(k, NextKey')
  BY <1>5 DEF Sent
<1>10. GroupHeld'
  BY <1>4, <1>9 DEF GroupHeld
<1>11. NextIsPrefix'
  BY <1>4, <1>9 DEF NextIsPrefix
<1>12. FinalOK'
  <2>1. Before(NextKey, FinalPoint)
    BY <1>2, FinalShape DEF NextKey, Before
  <2>2. QED
    BY <1>1, <2>1 DEF CacheInv, FinalOK
<1>13. QED
  BY <1>6, <1>7, <1>8, <1>10, <1>11, <1>12 DEF CacheInv

LEMMA LearnEndStep ==
    ASSUME CacheInv, LearnEndPoint PROVE CacheInv'
<1>1. /\ pc = "idle" /\ ~is_feed_closed /\ final_point' = FinalPoint
      /\ is_receive_complete' = (is_receive_complete \/ NextKey = FinalPoint)
      /\ UNCHANGED <<fragment_tree, next_point, first_point, nb_object_received,
                     is_cache_real_time, is_feed_closed, start_learned, pc, job, at,
                     received>>
  BY DEF LearnEndPoint
<1>2. FinalPoint \in Point
  BY FinalShape DEF Point
<1>3. CacheTypeOK'
  BY <1>1, <1>2 DEF CacheInv, CacheTypeOK, IsFragment
<1>4. CallOK'
  BY <1>1 DEF CacheInv, CallOK, Started
<1>5. NextIsPrefix' /\ GroupHeld'
  BY <1>1, PointsStay DEF CacheInv
<1>6. FinalOK'
  <2>1. is_receive_complete' => ~Before(NextKey, FinalPoint)
    <3>1. CASE is_receive_complete
      BY <3>1 DEF CacheInv, FinalOK
    <3>2. CASE NextKey = FinalPoint
      BY <1>1, <3>2, CompleteIsFinal DEF CacheInv
    <3>3. QED
      BY <1>1, <3>1, <3>2
  <2>2. QED
    BY <1>1, <2>1 DEF FinalOK, NextKey
<1>7. QED
  BY <1>1, <1>3, <1>4, <1>5, <1>6 DEF CacheInv

LEMMA SetRealTimeStep ==
    ASSUME CacheInv, SetRealTimeCache PROVE CacheInv'
<1> USE DEF SetRealTimeCache
<1>1. CacheTypeOK'
  BY DEF CacheInv, CacheTypeOK, IsFragment
<1>2. CallOK'
  BY DEF CacheInv, CallOK, Started
<1>3. NextIsPrefix' /\ GroupHeld'
  BY PointsStay DEF CacheInv
<1>4. FinalOK'
  BY FinalStays DEF CacheInv
<1>5. QED
  BY <1>1, <1>2, <1>3, <1>4 DEF CacheInv

\* A final point that the relay makes up is not ahead of what it holds.
LEMMA ClosePointBehind ==
    ASSUME CacheTypeOK
    PROVE  /\ ClosePoint \in Point
           /\ ~Before(NextKey, ClosePoint) \/ ~Before(first_point, ClosePoint)
<1> DEFINE key == FragmentOf(<<next_point[1], 0>>, 0, 0, 0)
           previous == LastOf({f \in fragment_tree : ~FragmentLess(key, f)})
<1>1. /\ next_point[1] \in Nat /\ next_point[2] \in Nat /\ next_point[3] \in Nat
      /\ NextKey = <<next_point[1], next_point[2]>>
      /\ NextKey \in Nat \X Nat /\ first_point \in Nat \X Nat
  BY PointShape DEF NextKey
<1>2. CASE next_point[3] = 0
  <2>1. ClosePoint = NextKey
    BY <1>2 DEF ClosePoint
  <2>2. QED
    BY <1>1, <2>1, BeforeIsTotal DEF Point
<1>3. CASE next_point[3] # 0 /\ next_point[2] > 1
  <2>1. ClosePoint = <<next_point[1], next_point[2] - 1>>
    BY <1>3 DEF ClosePoint
  <2>2. QED
    BY <1>1, <1>3, <2>1 DEF Point, Before
<1>4. CASE next_point[3] # 0 /\ ~(next_point[2] > 1) /\ previous # {}
  <2>1. PICK f \in previous : ClosePoint = f.key
    BY <1>4 DEF ClosePoint
  <2>2. f \in fragment_tree /\ ~FragmentLess(key, f)
    BY DEF LastOf
  <2>3. f.key \in Nat \X Nat /\ f.key[1] \in Nat /\ f.key[2] \in Nat
    BY <2>2, SentShape DEF CacheTypeOK, IsFragment
  <2>4. ~Before(<<next_point[1], 0>>, f.key)
    BY <2>2 DEF FragmentLess, FragmentOf
  <2>5. QED
    BY <1>1, <2>1, <2>3, <2>4 DEF Point, Before
<1>5. CASE next_point[3] # 0 /\ ~(next_point[2] > 1) /\ previous = {}
  <2>1. ClosePoint = first_point
    BY <1>5 DEF ClosePoint
  <2>2. QED
    BY <1>1, <2>1, BeforeIsTotal DEF Point
<1>6. QED
  BY <1>2, <1>3, <1>4, <1>5

LEMMA CloseFeedStep ==
    ASSUME CacheInv, CloseFeed PROVE CacheInv'
<1>1. /\ pc = "idle" /\ ~is_feed_closed /\ is_feed_closed' = TRUE
      /\ final_point' = IF final_point = <<0, 0>> THEN ClosePoint ELSE final_point
      /\ UNCHANGED <<fragment_tree, next_point, first_point, nb_object_received,
                     is_cache_real_time, is_receive_complete, start_learned, pc, job,
                     at, received>>
  BY DEF CloseFeed
<1>2. /\ ClosePoint \in Point
      /\ ~Before(NextKey, ClosePoint) \/ ~Before(first_point, ClosePoint)
  BY ClosePointBehind DEF CacheInv
<1>3. CacheTypeOK'
  BY <1>1, <1>2 DEF CacheInv, CacheTypeOK, IsFragment
<1>4. CallOK'
  BY <1>1 DEF CacheInv, CallOK, Started
<1>5. NextIsPrefix' /\ GroupHeld'
  BY <1>1, PointsStay DEF CacheInv
<1>6. FinalOK'
  <2>1. FinalPoint # <<0, 0>>
    BY FinalShape
  <2>2. NextKey' = NextKey
    BY <1>1 DEF NextKey
  <2>3. QED
    BY <1>1, <1>2, <2>1, <2>2 DEF CacheInv, FinalOK
<1>7. QED
  BY <1>1, <1>3, <1>4, <1>5, <1>6 DEF CacheInv

LEMMA DeleteStep ==
    ASSUME CacheInv, DeleteCache PROVE CacheInv'
<1>1. /\ pc = "idle" /\ is_feed_closed /\ pc' = "deleted" /\ fragment_tree' = {}
      /\ UNCHANGED <<next_point, first_point, final_point, nb_object_received,
                     feed_vars, job, at, received>>
  BY DEF DeleteCache
<1>2. at = {} /\ job = NoJob
  BY <1>1 DEF CacheInv, CallOK
<1>3. CacheTypeOK'
  BY <1>1, <1>2 DEF CacheInv, CacheTypeOK, feed_vars, NoJob
<1>4. CallOK'
  BY <1>1, <1>2 DEF CacheInv, CallOK, Started, feed_vars
<1>5. NextIsPrefix' /\ GroupHeld'
  BY <1>1 DEF NextIsPrefix, GroupHeld
<1>6. FinalOK'
  BY <1>1, FinalStays DEF CacheInv, feed_vars
<1>7. QED
  BY <1>1, <1>3, <1>4, <1>5, <1>6 DEF CacheInv

\* What the purge leaves.
LEMMA PurgeKeeps ==
    ASSUME CacheInv, NEW g \in 0..next_point[1], PurgeToGob(g)
    PROVE  /\ fragment_tree' = {f \in fragment_tree : f.key[1] >= g}
           /\ first_point' \in Nat \X Nat
           /\ ~Before(first_point', first_point)
           /\ \A f \in fragment_tree' : ~Before(f.key, first_point')
           /\ \A f \in fragment_tree : f.key[1] = next_point[1] => f \in fragment_tree'
           /\ \A k \in Sent : ~Before(k, first_point') =>
                ~Before(k, first_point) /\ OfObject(k)' = OfObject(k)
<1> DEFINE kept == {f \in fragment_tree : f.key[1] >= g}
<1>1. /\ pc = "idle" /\ fragment_tree' = kept
      /\ first_point' = IF kept = {} THEN first_point
                        ELSE (CHOOSE f \in FirstOf(kept) : TRUE).key
  BY DEF PurgeToGob
<1>2. /\ g \in Nat /\ next_point[1] \in Nat /\ g <= next_point[1]
      /\ first_point \in Nat \X Nat
      /\ NextKey \in Nat \X Nat /\ NextKey[1] = next_point[1]
  BY PointShape DEF CacheInv
<1>3. \A f \in fragment_tree : /\ IsFragment(f) /\ ~Before(f.key, first_point)
                               /\ f.key \in Sent /\ f.key \in Nat \X Nat /\ f.key[1] \in Nat
                               /\ f.key[2] \in Nat
  BY SentShape DEF CacheInv, CacheTypeOK, IsFragment
<1>4. \A f \in fragment_tree : f.key[1] = next_point[1] => f \in fragment_tree'
  BY <1>1, <1>2
<1>5. CASE kept = {}
  <2>1. fragment_tree = {}
    <3>1. ~\E f \in fragment_tree : f.key[1] = next_point[1]
      BY <1>1, <1>4, <1>5
    <3>2. \A k \in Sent : ~Before(k, NextKey)
      BY <1>1, <3>1 DEF CacheInv, GroupHeld
    <3>3. \A f \in fragment_tree : f.key[1] >= g
      BY <1>2, <1>3, <3>2 DEF Before
    <3>4. QED
      BY <1>5, <3>3
  <2>2. first_point' = first_point /\ fragment_tree' = {}
    BY <1>1, <1>5
  <2>3. ~Before(first_point', first_point)
    BY <1>2, <2>2, BeforeIsTotal
  <2>4. \A k : OfObject(k)' = OfObject(k)
    BY <2>1, <2>2 DEF OfObject
  <2>5. QED
    BY <1>1, <1>2, <1>4, <2>2, <2>3, <2>4
<1>6. CASE kept # {}
  <2>1. PICK f \in FirstOf(kept) : first_point' = f.key
    <3>1. FirstOf(kept) # {}
      BY <1>3, <1>6, FirstExists DEF FirstOf
    <3>2. QED
      BY <1>1, <1>6, <3>1
  <2>2. f \in fragment_tree /\ f.key[1] >= g /\ \A e \in kept : ~FragmentLess(e, f)
    BY DEF FirstOf
  <2>3. first_point' \in Nat \X Nat /\ ~Before(first_point', first_point)
    BY <1>3, <2>1, <2>2
  <2>4. \A e \in fragment_tree' : ~Before(e.key, first_point')
    BY <1>1, <2>1, <2>2 DEF FragmentLess
  <2>5. ASSUME NEW k \in Sent, ~Before(k, first_point')
        PROVE  ~Before(k, first_point) /\ OfObject(k)' = OfObject(k)
    <3>1. k \in Nat \X Nat /\ k[1] \in Nat /\ k[2] \in Nat
      BY SentShape
    <3>2. ~Before(k, first_point)
      BY <1>2, <2>3, <2>5, <3>1, BeforeIsTotal
    <3>3. k[1] >= g
      BY <1>2, <1>3, <2>1, <2>2, <2>5, <3>1 DEF Before
    <3>4. QED
      BY <1>1, <3>2, <3>3 DEF OfObject
  <2>6. QED
    BY <1>1, <1>4, <2>3, <2>4, <2>5
<1>7. QED
  BY <1>5, <1>6

LEMMA PurgeStep ==
    ASSUME CacheInv, NEW g \in 0..next_point[1], PurgeToGob(g)
    PROVE  CacheInv'
<1>1. /\ pc = "idle" /\ pc' = pc
      /\ UNCHANGED <<next_point, final_point, nb_object_received, feed_vars, job, at,
                     received>>
  BY DEF PurgeToGob
<1>2. /\ fragment_tree' \subseteq fragment_tree
      /\ first_point' \in Nat \X Nat
      /\ ~Before(first_point', first_point)
      /\ \A f \in fragment_tree' : ~Before(f.key, first_point')
      /\ \A f \in fragment_tree : f.key[1] = next_point[1] => f \in fragment_tree'
      /\ \A k \in Sent : ~Before(k, first_point') =>
           ~Before(k, first_point) /\ OfObject(k)' = OfObject(k)
  BY PurgeKeeps
<1>3. at = {} /\ job = NoJob
  BY <1>1 DEF CacheInv, CallOK
<1>4. CacheTypeOK'
  <2>1. \A f \in fragment_tree' : IsFragment(f) /\ ~Before(f.key, first_point')
    BY <1>2 DEF CacheInv, CacheTypeOK
  <2>2. QED
    BY <1>1, <1>2, <1>3, <2>1 DEF CacheInv, CacheTypeOK, feed_vars, NoJob, Point
<1>5. CallOK'
  BY <1>1, <1>2, <1>3 DEF CacheInv, CallOK, Started, feed_vars
<1>6. GroupHeld'
  BY <1>1, <1>2 DEF CacheInv, GroupHeld, NextKey
<1>7. NextIsPrefix'
  <2> SUFFICES ASSUME NEW k \in Sent, ~Before(k, first_point')
               PROVE  /\ Before(k, NextKey) => Whole(k)'
                      /\ k = NextKey =>
                           \A b \in 0..(next_point[3] - 1) :
                              \E f \in OfObject(k)' : b \in Bytes(f.offset, f.data_length)
    BY <1>1 DEF NextIsPrefix, NextKey
  <2>1. /\ Before(k, NextKey) => Whole(k)
        /\ k = NextKey =>
             \A b \in 0..(next_point[3] - 1) :
                \E f \in OfObject(k) : b \in Bytes(f.offset, f.data_length)
    BY <1>1, <1>2 DEF CacheInv, NextIsPrefix
  <2>2. OfObject(k)' = OfObject(k) /\ (Whole(k) => Whole(k)')
    BY <1>2 DEF Whole
  <2>3. QED
    BY <2>1, <2>2
<1>8. FinalOK'
  <2>1. first_point \in Nat \X Nat /\ final_point \in Nat \X Nat
    BY PointShape DEF CacheInv
  <2>2. ~Before(first_point, final_point) => ~Before(first_point', final_point)
    BY <1>2, <2>1, BeforeIsTotal
  <2>3. QED
    BY <1>1, <2>2 DEF CacheInv, FinalOK, feed_vars, NextKey
<1>9. QED
  BY <1>1, <1>2, <1>4, <1>5, <1>6, <1>7, <1>8 DEF CacheInv

----------------------------------------------------------------------------
(* What holds for any cut of the objects.                                  *)

LEMMA CacheStep ==
    ASSUME StartInTime, CacheInv, [CacheNext]_cache_vars PROVE CacheInv'
<1>1. CASE UNCHANGED cache_vars
  BY <1>1 DEF cache_vars, feed_vars, CacheInv, CacheTypeOK, CallOK, GroupHeld, NextIsPrefix,
              FinalOK, Whole, OfObject, NextKey, Started, JobOK, End, IsFragment
<1>2. CASE Receive
  BY <1>2, ProposeOldStep, ProposeStep DEF Receive
<1>3. CASE WalkApart \/ WalkOverlap \/ ProgressStep \/ ProgressEnd \/ Count
  BY <1>3, WalkApartStep, WalkOverlapStep, ProgressStepStep, ProgressEndStep, CountStep
<1>4. CASE LearnStartPoint \/ LearnEndPoint \/ SetRealTimeCache \/ CloseFeed
  BY <1>4, LearnStartStep, LearnEndStep, SetRealTimeStep, CloseFeedStep
<1>5. CASE Purge \/ DeleteCache
  BY <1>5, PurgeStep, DeleteStep DEF Purge
<1>6. QED
  BY <1>1, <1>2, <1>3, <1>4, <1>5 DEF CacheNext, FeedNext

\* The invariant of the cache holds in every state, however the objects are
\* cut and the fragments interleave with the purge and the end of the feed,
\* provided that the start point comes before the fragments.
THEOREM CacheInvariantHolds ==
    ASSUME StartInTime PROVE CacheSpec => []CacheInv
<1>1. CacheInit => CacheInv
  BY InitCacheInv
<1>2. CacheInv /\ [CacheNext]_cache_vars => CacheInv'
  BY CacheStep
<1>3. QED
  BY <1>1, <1>2, PTL DEF CacheSpec

\* Type correctness; nothing in the tree is before the first point, which
\* quicrq_fragment_propose_to_cache takes for the limit of what is too old.
THEOREM CacheTypeCorrect ==
    ASSUME StartInTime PROVE CacheSpec => []CacheTypeOK
<1>1. CacheInv => CacheTypeOK
  BY DEF CacheInv
<1>2. QED
  BY <1>1, CacheInvariantHolds, PTL

\* All the bytes between the first and the next point are in the cache: the
\* loop of quicrq_fragment_cache_progress never runs ahead.
THEOREM NextPointIsTrue ==
    ASSUME StartInTime PROVE CacheSpec => []NextIsPrefix
<1>1. CacheInv => NextIsPrefix
  BY DEF CacheInv
<1>2. QED
  BY <1>1, CacheInvariantHolds, PTL

\* What quicrq_relay_consumer_cb declares complete, or closes with a final
\* point of its own, is in the cache up to that point.
THEOREM ServedWhenComplete ==
    ASSUME StartInTime PROVE CacheSpec => []ServedToTheEnd
<1>1. CacheInv => ServedToTheEnd
  <2> SUFFICES ASSUME CacheInv,
                      is_receive_complete \/ (is_feed_closed /\ final_point # FinalPoint),
                      NEW k \in Sent, ~Before(k, first_point), Before(k, final_point)
               PROVE  pc = "deleted" \/ Whole(k)
    BY DEF ServedToTheEnd
  <2>1. /\ k \in Nat \X Nat /\ NextKey \in Nat \X Nat
        /\ first_point \in Nat \X Nat /\ final_point \in Nat \X Nat
    BY SentShape, PointShape DEF CacheInv
  <2>2. ~Before(NextKey, final_point) \/ ~Before(first_point, final_point)
    BY DEF CacheInv, FinalOK
  <2>3. Before(k, NextKey) \/ Before(k, first_point)
    BY <2>1, <2>2, BeforeIsTotal
  <2>4. QED
    BY <2>3 DEF CacheInv, NextIsPrefix
<1>2. QED
  BY <1>1, CacheInvariantHolds, PTL

----------------------------------------------------------------------------
(* Objects cut into disjoint pieces.                                       *)

\* A fragment of the tree is one of the pieces that are sent.
LEMMA PieceShape ==
    ASSUME CacheInv, ApartInv, NEW f \in fragment_tree
    PROVE  /\ f.key \in Sent /\ f.offset \in Nat /\ f.data_length \in Nat
           /\ f.object_length = ObjectLength[f.key] /\ ObjectLength[f.key] \in Nat
           /\ End(f) = f.offset + f.data_length /\ End(f) \in Nat
           /\ End(f) <= ObjectLength[f.key]
           /\ f.data_length = 0 => ObjectLength[f.key] = 0
           /\ IsFragment(f)
           /\ f.nb_objects_previous_group \in {0, NbPrevious(f.key)}
<1>1. IsFragment(f) /\ f.nb_objects_previous_group \in {0, NbPrevious(f.key)}
  BY DEF CacheInv, CacheTypeOK
<1>2. PICK p \in Pieces[f.key] : f = PieceOf(f.key, p)
  BY DEF ApartInv, TreeOfPieces
<1>3. f.offset = p.offset /\ f.data_length = p.data_length
  BY <1>2 DEF PieceOf, FragmentOf
<1>4. f.key \in Key
  BY <1>1, SentShape DEF IsFragment
<1>5. f.data_length = 0 => ObjectLength[f.key] = 0
  BY <1>2, <1>3, <1>4, CacheAssumption
<1>6. ObjectLength[f.key] \in Nat
  BY <1>1, SentShape DEF IsFragment
<1>7. QED
  BY <1>1, <1>5, <1>6 DEF IsFragment, End

LEMMA PiecesApart ==
    ASSUME DisjointPieces, NEW k \in Key, NEW p \in Pieces[k], NEW q \in Pieces[k],
           NEW e, NEW f, e = PieceOf(k, p), f = PieceOf(k, q)
    PROVE  \/ e = f
           \/ End(e) <= f.offset /\ e.offset < f.offset
           \/ End(f) <= e.offset /\ f.offset < e.offset
<1>1. /\ e.offset = p.offset /\ e.data_length = p.data_length
      /\ f.offset = q.offset /\ f.data_length = q.data_length
  BY DEF PieceOf, FragmentOf
<1>2. p.offset \in Nat /\ p.data_length \in Nat /\ q.offset \in Nat /\ q.data_length \in Nat
  BY CacheAssumption
<1>3. p = q \/ (p.offset + p.data_length <= q.offset /\ p.data_length > 0)
            \/ (q.offset + q.data_length <= p.offset /\ q.data_length > 0)
  BY DEF DisjointPieces
<1>4. QED
  BY <1>1, <1>2, <1>3 DEF End

\* Two fragments of an object in the tree do not overlap.
LEMMA FragmentsApart ==
    ASSUME DisjointPieces, CacheInv, ApartInv,
           NEW e \in fragment_tree, NEW f \in fragment_tree, e.key = f.key
    PROVE  \/ e = f
           \/ End(e) <= f.offset /\ e.offset < f.offset
           \/ End(f) <= e.offset /\ f.offset < e.offset
<1>1. PICK p \in Pieces[f.key] : e = PieceOf(f.key, p)
  BY DEF ApartInv, TreeOfPieces
<1>2. PICK q \in Pieces[f.key] : f = PieceOf(f.key, q)
  BY DEF ApartInv, TreeOfPieces
<1>3. f.key \in Key
  BY PieceShape, SentShape
<1> HIDE DEF PieceOf
<1>4. QED
  BY <1>1, <1>2, <1>3, PiecesApart

\* The walk that quicrq_fragment_propose_to_cache makes to tell whether an
\* object is complete gives the right answer.
LEMMA JustCompletedIsWhole ==
    ASSUME DisjointPieces, CacheInv, ApartInv, NEW k \in Sent
    PROVE  JustCompleted(k) <=> Whole(k)
<1> DEFINE Below(f) == {e \in OfObject(k) : FragmentLess(e, f)}
<1>1. /\ OfObject(k) \subseteq fragment_tree
      /\ \A f \in OfObject(k) :
           /\ f.key = k /\ f.offset \in Nat /\ f.data_length \in Nat
           /\ f.object_length = ObjectLength[k]
           /\ End(f) = f.offset + f.data_length /\ End(f) \in Nat
           /\ End(f) <= ObjectLength[k] /\ IsFragment(f)
  BY PieceShape DEF OfObject
<1>2. ObjectLength[k] \in Nat /\ k[1] \in Nat /\ k[2] \in Nat
  BY SentShape
<1>3. \A e, f \in OfObject(k) : FragmentLess(e, f) <=> e.offset < f.offset
  BY <1>1, <1>2 DEF FragmentLess, Before
<1>4. \A e, f \in OfObject(k) : \/ e = f
                                \/ End(e) <= f.offset /\ e.offset < f.offset
                                \/ End(f) <= e.offset /\ f.offset < e.offset
  BY <1>1, FragmentsApart
<1>5. ASSUME JustCompleted(k) PROVE Whole(k)
  <2>1. PICK last \in LastOf(OfObject(k)) : End(last) >= last.object_length
    BY <1>5 DEF JustCompleted
  <2>2. last \in OfObject(k)
    BY DEF LastOf
  <2>3. ASSUME NEW b \in 0..(ObjectLength[k] - 1),
               \A f \in OfObject(k) : b \notin Bytes(f.offset, f.data_length)
        PROVE  FALSE
    <3> DEFINE T == {f \in OfObject(k) : f.offset > b}
    <3>1. \A f \in OfObject(k) : b < f.offset \/ End(f) <= b
      BY <1>1, <1>2, <2>3 DEF Bytes
    <3>2. last \in T
      BY <1>1, <1>2, <2>1, <2>2, <3>1
    <3>3. PICK f \in T : \A e \in T : ~FragmentLess(e, f)
      BY <1>1, <3>2, FirstExists
    <3>4. f.offset # 0 /\ f \in OfObject(k) /\ f.offset > b
      BY <1>1
    <3>5. PICK e \in LastOf({e \in OfObject(k) : FragmentLess(e, f)}) : End(e) >= f.offset
      BY <1>5, <3>4 DEF JustCompleted
    <3>6. e \in OfObject(k) /\ FragmentLess(e, f)
      BY DEF LastOf
    <3>7. e \in T
      BY <1>1, <1>2, <3>1, <3>4, <3>5, <3>6
    <3>8. QED
      BY <3>3, <3>6, <3>7
  <2>4. QED
    BY <2>2, <2>3 DEF Whole
<1>6. ASSUME Whole(k) PROVE JustCompleted(k)
  <2>1. /\ OfObject(k) # {}
        /\ \A b \in 0..(ObjectLength[k] - 1) :
             \E f \in OfObject(k) : b \in Bytes(f.offset, f.data_length)
    BY <1>6 DEF Whole
  <2>2. PICK last \in OfObject(k) : \A e \in OfObject(k) : ~FragmentLess(last, e)
    BY <1>1, <2>1, LastExists
  <2>3. End(last) >= last.object_length
    <3>1. CASE ObjectLength[k] = 0
      BY <1>1, <3>1
    <3>2. CASE ObjectLength[k] > 0
      <4>1. PICK f \in OfObject(k) : ObjectLength[k] - 1 \in Bytes(f.offset, f.data_length)
        BY <1>2, <2>1, <3>2
      <4>2. End(f) >= ObjectLength[k]
        BY <1>1, <1>2, <4>1 DEF Bytes
      <4>3. f = last \/ End(f) <= last.offset
        BY <1>1, <1>3, <1>4, <2>2
      <4>4. QED
        BY <1>1, <1>2, <4>2, <4>3
    <3>3. QED
      BY <1>2, <3>1, <3>2
  <2>4. ASSUME NEW f \in OfObject(k), f.offset # 0
        PROVE  \E e \in LastOf({e \in OfObject(k) : FragmentLess(e, f)}) : End(e) >= f.offset
    <3>1. PICK g \in OfObject(k) : f.offset - 1 \in Bytes(g.offset, g.data_length)
      BY <1>1, <1>2, <2>1, <2>4
    <3>2. End(g) >= f.offset /\ g.offset < f.offset
      BY <1>1, <2>4, <3>1 DEF Bytes
    <3>3. g \in Below(f)
      BY <1>3, <3>2
    <3>4. PICK e \in Below(f) : \A d \in Below(f) : ~FragmentLess(e, d)
      BY <1>1, <3>3, LastExists
    <3>5. e \in OfObject(k) /\ e.offset < f.offset
      BY <1>3, <3>4
    <3>6. e = g
      BY <1>1, <1>3, <1>4, <3>2, <3>3, <3>4, <3>5
    <3>7. e \in LastOf(Below(f))
      BY <3>4 DEF LastOf
    <3>8. QED
      BY <3>2, <3>6, <3>7
  <2>5. QED
    BY <2>2, <2>3, <2>4 DEF JustCompleted, LastOf
<1>7. QED
  BY <1>5, <1>6

\* As long as no fragment starts where the proposed one does, its object is
\* not complete, and was not.
LEMMA NotYetWhole ==
    ASSUME DisjointPieces, CacheInv, ApartInv, pc = "walk",
           \A e \in OfObject(job.key) : e.offset # job.offset
    PROVE  ~Whole(job.key) /\ job.key \notin received
<1>1. /\ job.key \in Sent /\ job.offset \in Nat /\ job.data_length \in Nat
      /\ ~Before(job.key, first_point) /\ ObjectLength[job.key] \in Nat /\ job.key \in Key
      /\ job.offset + job.data_length <= ObjectLength[job.key]
  BY SentShape DEF CacheInv, CallOK, JobOK, End
<1>2. PICK p \in Pieces[job.key] :
        PieceOf(job.key, p) = FragmentOf(job.key, job.offset, job.data_length, job.nb)
  BY DEF ApartInv, WalkOK
<1> DEFINE piece == PieceOf(job.key, p)
<1>3. /\ piece.offset = job.offset /\ piece.data_length = job.data_length
      /\ p.offset = job.offset /\ p.data_length = job.data_length
  <2>1. p.offset = piece.offset /\ p.data_length = piece.data_length
    BY DEF PieceOf, FragmentOf
  <2>2. piece.offset = job.offset /\ piece.data_length = job.data_length
    BY <1>2 DEF FragmentOf
  <2>3. QED
    BY <2>1, <2>2
<1>4. job.data_length = 0 => ObjectLength[job.key] = 0
  BY <1>1, <1>3, CacheAssumption
<1>5. ASSUME NEW e \in OfObject(job.key)
      PROVE  End(e) <= job.offset \/ job.offset + job.data_length <= e.offset
  <2>1. e \in fragment_tree /\ e.key = job.key
    BY DEF OfObject
  <2>2. PICK q \in Pieces[job.key] : e = PieceOf(job.key, q)
    BY <2>1 DEF ApartInv, TreeOfPieces
  <2> HIDE DEF piece
  <2>3. piece = PieceOf(job.key, p)
    BY DEF piece
  <2>4. \/ e = piece
        \/ End(e) <= piece.offset /\ e.offset < piece.offset
        \/ End(piece) <= e.offset /\ piece.offset < e.offset
    BY <1>1, <2>2, <2>3, PiecesApart
  <2>5. QED
    BY <1>3, <2>4 DEF End
<1>6. ~Whole(job.key)
  <2>1. CASE job.data_length = 0
    <3>1. ASSUME NEW e \in OfObject(job.key) PROVE FALSE
      <4>1. e.offset \in Nat /\ End(e) = e.offset + e.data_length /\ End(e) <= ObjectLength[job.key]
            /\ e.data_length \in Nat
        BY PieceShape DEF OfObject
      <4>2. e.offset = 0 /\ job.offset = 0
        BY <1>1, <1>4, <2>1, <4>1
      <4>3. QED
        BY <4>2
    <3>2. QED
      BY <3>1 DEF Whole
  <2>2. CASE job.data_length > 0
    <3>1. job.offset \in 0..(ObjectLength[job.key] - 1)
      BY <1>1, <2>2
    <3>2. ASSUME NEW e \in OfObject(job.key) PROVE job.offset \notin Bytes(e.offset, e.data_length)
      <4>1. e.offset \in Nat /\ End(e) = e.offset + e.data_length /\ e.data_length \in Nat
        BY PieceShape DEF OfObject
      <4>2. QED
        BY <1>1, <1>5, <2>2, <4>1 DEF Bytes
    <3>3. QED
      BY <3>1, <3>2 DEF Whole
  <2>3. QED
    BY <1>1, <2>1, <2>2
<1>7. QED
  BY <1>1, <1>6 DEF ApartInv, CountOK

\* Storing a whole piece.
LEMMA AddApart ==
    ASSUME DisjointPieces, CacheInv, CacheInv', ApartInv, pc = "walk",
           \A e \in OfObject(job.key) : e.offset # job.offset,
           AddToCache(job.data_length),
           job'.key = job.key, job'.data_length = 0, job'.added = TRUE,
           UNCHANGED <<next_point, first_point, nb_object_received, received>>
    PROVE  ApartInv'
<1> DEFINE f == FragmentOf(job.key, job.offset, job.data_length, job.nb)
<1>1. fragment_tree' = fragment_tree \cup {f} /\ at' = {f} /\ pc' = "progress"
  BY DEF AddToCache
<1>2. f.key = job.key /\ \E p \in Pieces[job.key] : f = PieceOf(job.key, p)
  <2>1. f.key = job.key
    BY DEF FragmentOf
  <2>2. QED
    BY <2>1 DEF ApartInv, WalkOK
<1> HIDE DEF f
<1>3. ~Whole(job.key) /\ job.key \notin received
  BY NotYetWhole
<1>4. TreeOfPieces'
  BY <1>1, <1>2 DEF ApartInv, TreeOfPieces
<1>5. WalkOK'
  BY <1>1 DEF WalkOK
<1>6. MaximalOK'
  BY <1>1 DEF ApartInv, MaximalOK, Expected, EntersNextGroup, NextKey
<1>7. CountOK'
  <2>1. \A k \in received' : ~Before(k, first_point') /\ pc' # "deleted" => Whole(k)'
    BY <1>1, TreeGrows DEF ApartInv, CountOK
  <2>2. ASSUME NEW k \in Sent, Whole(k)' PROVE k \in received' \/ (job'.added /\ k = job'.key)
    <3>1. CASE k = job.key
      BY <3>1
    <3>2. CASE k # job.key
      <4>1. OfObject(k)' = OfObject(k)
        BY <1>1, <1>2, <3>2 DEF OfObject
      <4>2. Whole(k)
        BY <2>2, <4>1 DEF Whole
      <4>3. QED
        BY <3>2, <4>2 DEF ApartInv, CountOK
    <3>3. QED
      BY <3>1, <3>2
  <2>3. QED
    BY <1>1, <1>3, <2>1, <2>2 DEF ApartInv, CountOK
<1>8. QED
  BY <1>4, <1>5, <1>6, <1>7 DEF ApartInv

\* The fragments of the object that the walk has passed come after the job.
LEMMA Passed ==
    ASSUME CacheInv, ApartInv, pc = "walk", NEW c \in job.cursor,
           NEW e \in OfObject(job.key), e.offset <= job.offset
    PROVE  c.key = job.key /\ e.offset <= c.offset
<1>1. /\ e \in fragment_tree /\ e.key = job.key /\ e.offset \in Nat
      /\ job.key[1] \in Nat /\ job.key[2] \in Nat /\ job.offset \in Nat
      /\ job.cursor \subseteq fragment_tree
      /\ job.key = <<job.key[1], job.key[2]>>
  BY PieceShape, SentShape DEF OfObject, CacheInv, CallOK, JobOK
<1>2. PICK d \in job.cursor : ~FragmentLess(d, e)
  BY <1>1 DEF ApartInv, WalkOK
<1>3. ~Before(job.key, d.key) /\ ~FragmentLess(c, d) /\ ~FragmentLess(d, c)
  BY DEF ApartInv, WalkOK
<1>4. /\ c.key[1] \in Nat /\ c.key[2] \in Nat /\ c.key = <<c.key[1], c.key[2]>> /\ c.offset \in Nat
      /\ d.key[1] \in Nat /\ d.key[2] \in Nat /\ d.key = <<d.key[1], d.key[2]>> /\ d.offset \in Nat
  BY <1>1, PieceShape, SentShape
<1>5. d.key = job.key /\ e.offset <= d.offset
  BY <1>1, <1>2, <1>3, <1>4 DEF FragmentLess, Before
<1>6. c.key = d.key /\ c.offset = d.offset
  BY <1>3, <1>4 DEF FragmentLess, Before
<1>7. QED
  BY <1>5, <1>6

LEMMA WalkApartApart ==
    ASSUME DisjointPieces, CacheInv, ApartInv, WalkApart PROVE ApartInv'
<1>1. /\ pc = "walk" /\ AddToCache(job.data_length)
      /\ job' = [job EXCEPT !.data_length = 0, !.added = TRUE]
      /\ \A c \in job.cursor : c.key # job.key \/ End(c) < job.offset
      /\ UNCHANGED <<next_point, first_point, nb_object_received, received>>
  BY DEF WalkApart
<1>2. job \in [key : Sent, offset : Nat, data_length : Nat, nb : Nat,
               added : BOOLEAN, cursor : SUBSET fragment_tree]
  BY <1>1 DEF CacheInv, CallOK, JobOK
<1>3. job'.key = job.key /\ job'.data_length = 0 /\ job'.added = TRUE
  BY <1>1, <1>2
<1>4. ASSUME NEW e \in OfObject(job.key), e.offset = job.offset PROVE FALSE
  <2>1. e \in fragment_tree /\ e.key = job.key /\ e.offset \in Nat /\ e.offset <= job.offset
    BY <1>4, PieceShape DEF OfObject
  <2>2. PICK c \in job.cursor : TRUE
    BY <1>1, <1>4, <2>1 DEF ApartInv, WalkOK
  <2>3. c.key = job.key /\ e.offset <= c.offset
    BY <1>1, <2>1, Passed
  <2>4. End(c) < job.offset /\ c \in fragment_tree
    BY <1>1, <1>2, <2>3
  <2>5. QED
    BY <1>4, <2>1, <2>3, <2>4, PieceShape
<1>5. CacheInv'
  BY WalkApartStep
<1>6. QED
  BY <1>1, <1>3, <1>4, <1>5, AddApart

LEMMA WalkOverlapApart ==
    ASSUME DisjointPieces, CacheInv, ApartInv, WalkOverlap PROVE ApartInv'
<1>1. PICK c \in job.cursor :
        LET beyond == End(job) - End(c)
            left == IF beyond > 0 THEN job.data_length - beyond ELSE job.data_length
            rest == IF job.offset >= c.offset THEN 0
                    ELSE IF c.offset < job.offset + left THEN c.offset - job.offset
                    ELSE left
        IN /\ c.key = job.key /\ End(c) >= job.offset
           /\ IF beyond > 0 THEN AddToCache(beyond)
              ELSE pc' = AfterTurn(rest) /\ UNCHANGED <<fragment_tree, at>>
           /\ job' = [job EXCEPT
                        !.data_length = rest,
                        !.added = @ \/ beyond > 0,
                        !.nb = IF beyond > 0 THEN 0 ELSE @,
                        !.cursor = IF job.offset >= c.offset THEN @
                                   ELSE LastOf({f \in fragment_tree' : FragmentLess(f, c)})]
  BY DEF WalkOverlap
<1>2. pc = "walk" /\ UNCHANGED <<next_point, first_point, nb_object_received, received>>
  BY DEF WalkOverlap
<1>3. job \in [key : Sent, offset : Nat, data_length : Nat, nb : Nat,
               added : BOOLEAN, cursor : SUBSET fragment_tree]
  BY <1>2 DEF CacheInv, CallOK, JobOK
<1>4. /\ job.key \in Sent /\ job.offset \in Nat /\ job.data_length \in Nat
      /\ c \in fragment_tree /\ job.added = FALSE /\ c.key = job.key
      /\ job.key \in Key /\ End(job) = job.offset + job.data_length
      /\ job.key[1] \in Nat /\ job.key[2] \in Nat /\ job.key = <<job.key[1], job.key[2]>>
  BY <1>1, <1>2, <1>3, SentShape DEF ApartInv, WalkOK, End
<1>5. /\ c.offset \in Nat /\ c.data_length \in Nat /\ End(c) = c.offset + c.data_length
      /\ c.data_length = 0 => ObjectLength[job.key] = 0
      /\ End(c) >= job.offset /\ End(c) <= ObjectLength[job.key]
      /\ ObjectLength[job.key] \in Nat
  BY <1>1, <1>4, PieceShape
<1>6. /\ CacheInv' /\ End(job) <= ObjectLength[job.key]
  BY <1>2, WalkOverlapStep DEF CacheInv, CallOK, JobOK
<1>7. PICK p \in Pieces[job.key] :
        PieceOf(job.key, p) = FragmentOf(job.key, job.offset, job.data_length, job.nb)
  BY <1>2 DEF ApartInv, WalkOK
<1> DEFINE piece == PieceOf(job.key, p)
<1>8. /\ piece.offset = job.offset /\ piece.data_length = job.data_length
      /\ End(piece) = End(job)
      /\ job.data_length = 0 => ObjectLength[job.key] = 0
  <2>1. piece.offset = job.offset /\ piece.data_length = job.data_length
    BY <1>7 DEF FragmentOf
  <2>2. piece.data_length = p.data_length
    BY DEF PieceOf, FragmentOf
  <2>3. QED
    BY <1>4, <2>1, <2>2, CacheAssumption DEF End
<1>9. \/ c = piece
      \/ End(c) <= job.offset /\ c.offset < job.offset
      \/ End(job) <= c.offset /\ job.offset < c.offset
  <2>1. PICK q \in Pieces[job.key] : c = PieceOf(job.key, q)
    BY <1>4 DEF ApartInv, TreeOfPieces
  <2> HIDE DEF piece
  <2>2. piece = PieceOf(job.key, p)
    BY DEF piece
  <2>3. \/ c = piece
        \/ End(c) <= piece.offset /\ c.offset < piece.offset
        \/ End(piece) <= c.offset /\ piece.offset < c.offset
    BY <1>4, <2>1, <2>2, PiecesApart
  <2>4. QED
    BY <1>8, <2>3
<1> HIDE DEF piece
\* The whole piece comes after the fragment at the cursor.
<1>10. CASE End(c) <= job.offset /\ c.offset < job.offset
  <2>1. /\ End(job) - End(c) = job.data_length /\ job.data_length > 0
        /\ job.offset >= c.offset
    BY <1>4, <1>5, <1>6, <1>8, <1>10
  <2>2. AddToCache(job.data_length)
    BY <1>1, <2>1
  <2>3. job' = [job EXCEPT !.data_length = 0, !.added = TRUE, !.nb = 0,
                           !.cursor = job.cursor]
    BY <1>1, <1>3, <2>1
  <2>4. job'.key = job.key /\ job'.data_length = 0 /\ job'.added = TRUE
    BY <1>3, <2>3
  <2>5. ASSUME NEW e \in OfObject(job.key), e.offset = job.offset PROVE FALSE
    BY <1>2, <1>4, <1>5, <1>10, <2>5, Passed
  <2>6. QED
    BY <1>2, <1>6, <2>2, <2>4, <2>5, AddApart
\* The piece is in the tree, or comes before the fragment at the cursor.
<1>11. CASE c = piece \/ (End(job) <= c.offset /\ job.offset < c.offset)
  <2>1. ~(End(job) - End(c) > 0)
    BY <1>4, <1>5, <1>8, <1>11
  <2> DEFINE rest == IF job.offset >= c.offset THEN 0
                     ELSE IF c.offset < job.offset + job.data_length THEN c.offset - job.offset
                     ELSE job.data_length
             cursor == IF job.offset >= c.offset THEN job.cursor
                       ELSE LastOf({f \in fragment_tree' : FragmentLess(f, c)})
  <2>2. pc' = AfterTurn(rest) /\ UNCHANGED <<fragment_tree, at>>
    BY <1>1, <2>1
  <2>3. /\ job' = [job EXCEPT !.data_length = rest, !.added = FALSE, !.nb = job.nb,
                              !.cursor = cursor]
    BY <1>1, <1>3, <1>4, <2>1
  <2> HIDE DEF rest, cursor
  <2>4. /\ job'.key = job.key /\ job'.offset = job.offset /\ job'.data_length = rest
        /\ job'.added = FALSE /\ job'.nb = job.nb /\ job'.cursor = cursor
    BY <1>3, <2>3
  <2>5. rest \in Nat /\ pc' \in {"walk", "count"} /\ (pc' = "count" => rest = 0)
        /\ (pc' = "walk" => rest > 0)
    BY <1>4, <1>5, <1>11, <2>2 DEF AfterTurn, rest
  <2>6. TreeOfPieces' /\ MaximalOK'
    BY <1>2, <2>2, <2>5 DEF ApartInv, TreeOfPieces, MaximalOK, Expected, EntersNextGroup, NextKey
  <2>7. CountOK'
    BY <1>2, <1>4, <2>2, <2>4, <2>5 DEF ApartInv, CountOK, Whole, OfObject
  <2>8. WalkOK'
    <3> SUFFICES ASSUME pc' = "walk" PROVE WalkOK'
      BY DEF WalkOK
    <3>1. End(job) <= c.offset /\ job.offset < c.offset
      BY <1>5, <1>8, <1>11, <2>5 DEF rest
    <3>2. rest = job.data_length /\ cursor = LastOf({f \in fragment_tree : FragmentLess(f, c)})
      BY <1>4, <1>5, <2>2, <3>1 DEF rest, cursor
    <3>3. ASSUME NEW d \in cursor
          PROVE  ~Before(job.key, d.key) /\ \A e \in cursor : ~FragmentLess(d, e)
      <4>1. d \in fragment_tree /\ FragmentLess(d, c) /\ \A e \in cursor : ~FragmentLess(d, e)
        BY <3>2 DEF LastOf
      <4>2. d.key[1] \in Nat /\ d.key[2] \in Nat
        BY <4>1, PieceShape, SentShape
      <4>3. QED
        BY <1>4, <4>1, <4>2 DEF FragmentLess, Before
    <3>4. ASSUME NEW f \in fragment_tree, f.key = job.key,
                 \A d \in cursor : FragmentLess(d, f)
          PROVE  job.offset < f.offset
      <4>1. ~FragmentLess(f, c)
        <5> SUFFICES ASSUME FragmentLess(f, c) PROVE FALSE
          OBVIOUS
        <5> DEFINE S == {e \in fragment_tree : FragmentLess(e, c)}
        <5>1. f \in S /\ \A e \in S : IsFragment(e)
          BY PieceShape
        <5>2. PICK d \in S : \A e \in S : ~FragmentLess(d, e)
          BY <5>1, LastExists
        <5>3. d \in cursor
          BY <3>2, <5>2 DEF LastOf
        <5>4. QED
          BY <3>4, <5>1, <5>2, <5>3
      <4>2. f.offset \in Nat
        BY PieceShape
      <4>3. QED
        BY <1>4, <1>5, <3>1, <3>4, <4>1, <4>2 DEF FragmentLess
    <3>5. \E q \in Pieces[job'.key] :
            PieceOf(job'.key, q) = FragmentOf(job'.key, job'.offset, job'.data_length, job'.nb)
      BY <1>7, <2>4, <3>2
    <3>6. QED
      BY <2>2, <2>4, <3>3, <3>4, <3>5 DEF WalkOK
  <2>9. QED
    BY <1>2, <2>6, <2>7, <2>8 DEF ApartInv
<1>12. QED
  BY <1>9, <1>10, <1>11

\* The fragment expected after f is the one that follows f in the tree.
LEMMA NextInTree ==
    ASSUME DisjointPieces, CacheInv, ApartInv, NEW f \in fragment_tree, Expected(f),
           next_point' = PointAfter(f), fragment_tree' = fragment_tree,
           NEW e \in fragment_tree, Expected(e)'
    PROVE  e \in FirstOf({d \in fragment_tree : FragmentLess(f, d)})
<1>1. /\ f.key \in Sent /\ f.offset \in Nat /\ f.data_length \in Nat
      /\ f.object_length = ObjectLength[f.key] /\ ObjectLength[f.key] \in Nat
      /\ End(f) = f.offset + f.data_length /\ End(f) <= ObjectLength[f.key]
      /\ f.data_length = 0 => ObjectLength[f.key] = 0
      /\ f.key = <<f.key[1], f.key[2]>> /\ f.key[1] \in Nat /\ f.key[2] \in Nat
  BY PieceShape, SentShape
<1>2. /\ e.key \in Sent /\ e.offset \in Nat
      /\ e.nb_objects_previous_group \in {0, NbPrevious(e.key)}
  BY PieceShape
<1>3. \/ /\ End(f) >= f.object_length
         /\ NextKey' = <<f.key[1], f.key[2] + 1>> /\ next_point'[3] = 0
      \/ /\ End(f) < f.object_length
         /\ NextKey' = f.key /\ next_point'[3] = End(f)
  BY PointAfterShape
<1>4. /\ next_point'[1] = NextKey'[1] /\ next_point'[2] = NextKey'[2]
  BY DEF NextKey
<1>5. \/ e.key = NextKey' /\ e.offset = next_point'[3]
      \/ /\ e.key = <<next_point'[1] + 1, 0>> /\ e.offset = 0
         /\ next_point'[2] > 0 /\ next_point'[3] = 0
         /\ next_point'[2] = e.nb_objects_previous_group
  BY DEF Expected, EntersNextGroup
<1>6. ASSUME NEW d \in fragment_tree, FragmentLess(f, d)
      PROVE  /\ d.key[1] \in Nat /\ d.key[2] \in Nat /\ d.offset \in Nat
             /\ d.key[2] < NbObjects[d.key[1]] /\ NbObjects[d.key[1]] \in Nat
             /\ d.key = <<d.key[1], d.key[2]>>
             /\ \/ Before(f.key, d.key)
                \/ d.key = f.key /\ End(f) <= d.offset /\ End(f) < ObjectLength[f.key]
  <2>1. /\ d.key[1] \in Nat /\ d.key[2] \in Nat /\ d.offset \in Nat /\ d.data_length \in Nat
        /\ d.key[2] < NbObjects[d.key[1]] /\ NbObjects[d.key[1]] \in Nat
        /\ d.key = <<d.key[1], d.key[2]>>
        /\ End(d) = d.offset + d.data_length /\ End(d) <= ObjectLength[d.key]
        /\ d.data_length = 0 => ObjectLength[d.key] = 0
    BY PieceShape, SentShape
  <2>2. ASSUME d.key = f.key, f.offset < d.offset
        PROVE  End(f) <= d.offset /\ End(f) < ObjectLength[f.key]
    <3>1. End(f) <= d.offset
      BY <1>1, <2>1, <2>2, FragmentsApart
    <3>2. QED
      BY <1>1, <2>1, <2>2, <3>1
  <2>3. QED
    BY <1>6, <2>1, <2>2 DEF FragmentLess
<1>7. CASE End(f) < f.object_length /\ NextKey' = f.key /\ next_point'[3] = End(f)
  <2>1. f.data_length > 0 /\ e.key = f.key /\ e.offset = End(f)
    BY <1>1, <1>5, <1>7
  <2>2. FragmentLess(f, e)
    BY <1>1, <2>1 DEF FragmentLess
  <2>3. ASSUME NEW d \in fragment_tree, FragmentLess(f, d) PROVE ~FragmentLess(d, e)
    BY <1>1, <1>6, <2>1, <2>3 DEF FragmentLess, Before
  <2>4. QED
    BY <2>2, <2>3 DEF FirstOf
<1>8. CASE /\ End(f) >= f.object_length
           /\ NextKey' = <<f.key[1], f.key[2] + 1>> /\ next_point'[3] = 0
  <2>1. ASSUME NEW d \in fragment_tree, FragmentLess(f, d) PROVE Before(f.key, d.key)
    BY <1>1, <1>6, <1>8, <2>1
  <2>2. CASE e.key = NextKey' /\ e.offset = next_point'[3]
    <3>1. FragmentLess(f, e)
      BY <1>1, <1>8, <2>2 DEF FragmentLess, Before
    <3>2. ASSUME NEW d \in fragment_tree, FragmentLess(f, d) PROVE ~FragmentLess(d, e)
      BY <1>1, <1>6, <1>8, <2>1, <2>2, <3>2 DEF FragmentLess, Before
    <3>3. QED
      BY <3>1, <3>2 DEF FirstOf
  <2>3. CASE /\ e.key = <<next_point'[1] + 1, 0>> /\ e.offset = 0
             /\ next_point'[2] > 0 /\ next_point'[2] = e.nb_objects_previous_group
    <3>1. e.key = <<f.key[1] + 1, 0>> /\ f.key[2] + 1 = NbPrevious(e.key)
      BY <1>1, <1>2, <1>4, <1>8, <2>3
    <3>2. f.key[2] + 1 = NbObjects[f.key[1]]
      BY <1>1, <3>1 DEF NbPrevious
    <3>3. FragmentLess(f, e)
      BY <1>1, <3>1 DEF FragmentLess, Before
    <3>4. ASSUME NEW d \in fragment_tree, FragmentLess(f, d) PROVE ~FragmentLess(d, e)
      BY <1>1, <1>6, <2>1, <2>3, <3>1, <3>2, <3>4 DEF FragmentLess, Before
    <3>5. QED
      BY <3>3, <3>4 DEF FirstOf
  <2>4. QED
    BY <1>5, <2>2, <2>3
<1>9. QED
  BY <1>3, <1>7, <1>8

\* Steps that leave the tree, the points and the counts alone.
LEMMA ApartStays ==
    ASSUME ApartInv,
           UNCHANGED <<fragment_tree, next_point, first_point, nb_object_received, pc,
                       job, at, received>>
    PROVE  ApartInv'
  BY DEF ApartInv, TreeOfPieces, WalkOK, MaximalOK, CountOK, Expected, EntersNextGroup,
         NextKey, Whole, OfObject

LEMMA ProposeApart ==
    ASSUME CacheInv, ApartInv, NEW k \in Sent, NEW p \in Pieces[k], Propose(k, p)
    PROVE  ApartInv'
<1> DEFINE S == {f \in fragment_tree : ~Before(k, f.key)}
           nb == IF p.offset = 0 THEN NbPrevious(k) ELSE 0
<1>1. job' = [key |-> k, offset |-> p.offset, data_length |-> p.data_length,
              nb |-> nb, added |-> FALSE, cursor |-> LastOf(S)]
  BY DEF Propose
<1>2. PieceOf(k, p) = FragmentOf(k, p.offset, p.data_length, nb)
  BY DEF PieceOf
<1> HIDE DEF S, nb
<1>3. /\ pc = "idle" /\ pc' = "walk"
      /\ UNCHANGED <<fragment_tree, next_point, first_point, nb_object_received, received>>
  BY DEF Propose, FeedOpen
<1>4. /\ job'.key = k /\ job'.offset = p.offset /\ job'.data_length = p.data_length
      /\ job'.nb = nb /\ job'.added = FALSE /\ job'.cursor = LastOf(S)
  BY <1>1
<1>5. job.added = FALSE
  BY <1>3 DEF CacheInv, CallOK, NoJob
<1>6. WalkOK'
  <2>1. \A c \in LastOf(S) : ~Before(k, c.key) /\ \A d \in LastOf(S) : ~FragmentLess(c, d)
    BY DEF LastOf, S
  <2>2. ASSUME NEW f \in fragment_tree, f.key = k, \A c \in LastOf(S) : FragmentLess(c, f)
        PROVE  FALSE
    <3>1. f \in S
      BY <2>2, SentShape DEF S, Before
    <3>2. \A e \in S : IsFragment(e)
      BY DEF S, CacheInv, CacheTypeOK
    <3>3. PICK c \in S : \A e \in S : ~FragmentLess(c, e)
      BY <3>1, <3>2, LastExists
    <3>4. QED
      BY <2>2, <3>1, <3>3 DEF LastOf
  <2>3. QED
    BY <1>2, <1>3, <1>4, <2>1, <2>2 DEF WalkOK
<1>7. TreeOfPieces' /\ MaximalOK'
  BY <1>3 DEF ApartInv, TreeOfPieces, MaximalOK, Expected, EntersNextGroup, NextKey
<1>8. CountOK'
  BY <1>3, <1>4, <1>5 DEF ApartInv, CountOK, Whole, OfObject
<1>9. QED
  BY <1>3, <1>6, <1>7, <1>8 DEF ApartInv

LEMMA ProgressStepApart ==
    ASSUME DisjointPieces, CacheInv, ApartInv, ProgressStep PROVE ApartInv'
<1>1. PICK f \in at : /\ Expected(f)
                      /\ next_point' = PointAfter(f)
                      /\ at' = FirstOf({e \in fragment_tree : FragmentLess(f, e)})
  BY DEF ProgressStep
<1>2. /\ pc = "progress" /\ pc' = pc /\ f \in fragment_tree
      /\ UNCHANGED <<fragment_tree, first_point, nb_object_received, job, received>>
  BY DEF ProgressStep, CacheInv, CacheTypeOK
<1>3. MaximalOK'
  <2> SUFFICES ASSUME NEW e \in fragment_tree, Expected(e)' PROVE e \in at'
    BY <1>2 DEF MaximalOK
  <2>1. QED
    BY <1>1, <1>2, NextInTree
<1>4. TreeOfPieces' /\ WalkOK' /\ CountOK'
  BY <1>2 DEF ApartInv, TreeOfPieces, WalkOK, CountOK, Whole, OfObject
<1>5. QED
  BY <1>2, <1>3, <1>4 DEF ApartInv

LEMMA ProgressEndApart ==
    ASSUME CacheInv, ApartInv, ProgressEnd PROVE ApartInv'
<1>1. /\ pc = "progress" /\ (\A f \in at : ~Expected(f)) /\ at' = {}
      /\ pc' = AfterTurn(job.data_length)
      /\ UNCHANGED <<fragment_tree, next_point, first_point, nb_object_received, job,
                     received>>
  BY DEF ProgressEnd
<1>2. pc' = "count" /\ job.data_length = 0
  BY <1>1 DEF ApartInv, CountOK, AfterTurn
<1>3. ~\E f \in fragment_tree : Expected(f)
  BY <1>1 DEF ApartInv, MaximalOK
<1>4. TreeOfPieces' /\ WalkOK' /\ MaximalOK'
  BY <1>1, <1>2, <1>3 DEF ApartInv, TreeOfPieces, WalkOK, MaximalOK, Expected,
                          EntersNextGroup, NextKey
<1>5. CountOK'
  BY <1>1, <1>2 DEF ApartInv, CountOK, Whole, OfObject
<1>6. QED
  BY <1>1, <1>4, <1>5 DEF ApartInv

LEMMA CountApart ==
    ASSUME DisjointPieces, CacheInv, ApartInv, Count PROVE ApartInv'
<1>1. /\ pc = "count" /\ pc' = "idle" /\ job' = NoJob
      /\ nb_object_received' =
           nb_object_received + IF job.added /\ JustCompleted(job.key) THEN 1 ELSE 0
      /\ received' = IF Whole(job.key) THEN received \cup {job.key} ELSE received
      /\ UNCHANGED <<fragment_tree, next_point, first_point, at>>
  BY DEF Count
<1>2. job.key \in Sent /\ job'.added = FALSE
  BY <1>1 DEF CacheInv, CallOK, JobOK, NoJob
<1>3. JustCompleted(job.key) <=> Whole(job.key)
  BY <1>2, JustCompletedIsWhole
<1>4. /\ nb_object_received = Cardinality(received) /\ nb_object_received \in Nat
      /\ IsFiniteSet(received) /\ (job.added => job.key \notin received)
      /\ \A k \in Sent : Whole(k) => k \in received \/ (job.added /\ k = job.key)
      /\ \A k \in received : ~Before(k, first_point) => Whole(k)
  BY <1>1 DEF ApartInv, CountOK, CacheInv, CacheTypeOK
<1>5. /\ IsFiniteSet(received') /\ nb_object_received' = Cardinality(received')
  <2>1. CASE job.added /\ Whole(job.key)
    <3>1. received' = received \cup {job.key} /\ nb_object_received' = nb_object_received + 1
      BY <1>1, <1>3, <2>1
    <3>2. /\ IsFiniteSet(received \cup {job.key})
          /\ Cardinality(received \cup {job.key}) = Cardinality(received) + 1
      BY <1>4, <2>1, FS_AddElement
    <3>3. QED
      BY <1>4, <3>1, <3>2
  <2>2. CASE ~(job.added /\ Whole(job.key))
    <3>1. received' = received
      BY <1>1, <1>2, <1>4, <2>2
    <3>2. nb_object_received' = nb_object_received
      BY <1>1, <1>3, <1>4, <2>2
    <3>3. QED
      BY <1>4, <3>1, <3>2
  <2>3. QED
    BY <2>1, <2>2
<1>6. TreeOfPieces' /\ WalkOK' /\ MaximalOK'
  BY <1>1 DEF ApartInv, TreeOfPieces, WalkOK, MaximalOK, Expected, EntersNextGroup, NextKey
<1>7. CountOK'
  <2>1. \A k : Whole(k)' <=> Whole(k)
    BY <1>1 DEF Whole, OfObject
  <2>2. \A k \in received' : ~Before(k, first_point) => Whole(k)
    BY <1>1, <1>4
  <2>3. \A k \in Sent : Whole(k) => k \in received'
    BY <1>1, <1>4
  <2>4. QED
    BY <1>1, <1>2, <1>5, <2>1, <2>2, <2>3 DEF CountOK
<1>8. QED
  BY <1>5, <1>6, <1>7 DEF ApartInv

LEMMA LearnStartApart ==
    ASSUME CacheInv, ApartInv, LearnStartPoint PROVE ApartInv'
<1>1. /\ pc = "idle" /\ pc' = pc
      /\ StartPoint # <<0, 0>> /\ ~start_learned
      /\ fragment_tree' = {f \in fragment_tree : ~Before(f.key, StartPoint)}
      /\ UNCHANGED <<nb_object_received, job, received>>
  BY DEF LearnStartPoint
<1>2. fragment_tree' = {} /\ received = {} /\ job.added = FALSE
  BY <1>1 DEF CacheInv, CallOK, Started, NoJob
<1>3. TreeOfPieces' /\ WalkOK' /\ MaximalOK'
  BY <1>1, <1>2 DEF TreeOfPieces, WalkOK, MaximalOK
<1>4. CountOK'
  BY <1>1, <1>2 DEF ApartInv, CountOK, Whole, OfObject
<1>5. QED
  BY <1>1, <1>3, <1>4 DEF ApartInv

LEMMA PurgeApart ==
    ASSUME CacheInv, ApartInv, NEW g \in 0..next_point[1], PurgeToGob(g)
    PROVE  ApartInv'
<1>1. /\ pc = "idle" /\ pc' = pc
      /\ UNCHANGED <<next_point, nb_object_received, job, at, received>>
  BY DEF PurgeToGob
<1>2. /\ fragment_tree' \subseteq fragment_tree
      /\ \A k \in Sent : ~Before(k, first_point') =>
           ~Before(k, first_point) /\ OfObject(k)' = OfObject(k)
  BY PurgeKeeps
<1>3. TreeOfPieces' /\ WalkOK' /\ MaximalOK'
  BY <1>1, <1>2 DEF ApartInv, TreeOfPieces, WalkOK, MaximalOK, Expected, EntersNextGroup,
                    NextKey
<1>4. CountOK'
  <2>1. ASSUME NEW k \in received, ~Before(k, first_point') PROVE Whole(k)'
    <3>1. k \in Sent
      BY DEF CacheInv, CacheTypeOK
    <3>2. Whole(k) /\ OfObject(k)' = OfObject(k)
      BY <1>1, <1>2, <2>1, <3>1 DEF ApartInv, CountOK
    <3>3. QED
      BY <3>2 DEF Whole
  <2>2. \A k : Whole(k)' => Whole(k)
    BY <1>2 DEF Whole, OfObject
  <2>3. QED
    BY <1>1, <2>1, <2>2 DEF ApartInv, CountOK
<1>5. QED
  BY <1>1, <1>3, <1>4 DEF ApartInv

LEMMA DeleteApart ==
    ASSUME CacheInv, ApartInv, DeleteCache PROVE ApartInv'
<1>1. /\ pc = "idle" /\ pc' = "deleted" /\ fragment_tree' = {}
      /\ UNCHANGED <<next_point, first_point, nb_object_received, job, at, received>>
  BY DEF DeleteCache
<1>2. TreeOfPieces' /\ WalkOK' /\ MaximalOK'
  BY <1>1 DEF TreeOfPieces, WalkOK, MaximalOK
<1>3. CountOK'
  BY <1>1 DEF ApartInv, CountOK, Whole, OfObject
<1>4. QED
  BY <1>1, <1>2, <1>3 DEF ApartInv

LEMMA ApartStep ==
    ASSUME DisjointPieces, CacheInv, ApartInv, [CacheNext]_cache_vars PROVE ApartInv'
<1>1. CASE \/ UNCHANGED cache_vars
           \/ \E k \in Sent : \E p \in Pieces[k] : ProposeOld(k, p)
           \/ LearnEndPoint \/ SetRealTimeCache \/ CloseFeed
  BY <1>1, ApartStays DEF cache_vars, ProposeOld, LearnEndPoint, SetRealTimeCache, CloseFeed
<1>2. CASE \E k \in Sent : \E p \in Pieces[k] : Propose(k, p)
  BY <1>2, ProposeApart
<1>3. CASE WalkApart \/ WalkOverlap \/ ProgressStep \/ ProgressEnd \/ Count
  BY <1>3, WalkApartApart, WalkOverlapApart, ProgressStepApart, ProgressEndApart, CountApart
<1>4. CASE LearnStartPoint \/ Purge \/ DeleteCache
  BY <1>4, LearnStartApart, PurgeApart, DeleteApart DEF Purge
<1>5. QED
  BY <1>1, <1>2, <1>3, <1>4 DEF CacheNext, FeedNext, Receive

\* The invariant of a cache whose objects are cut into disjoint pieces.
THEOREM ApartInvariantHolds ==
    ASSUME StartInTime, DisjointPieces PROVE CacheSpec => [](CacheInv /\ ApartInv)
<1>1. CacheInit => CacheInv /\ ApartInv
  <2> SUFFICES ASSUME CacheInit PROVE CacheInv /\ ApartInv
    OBVIOUS
  <2>1. CacheInv
    BY InitCacheInv
  <2>2. IsFiniteSet({}) /\ Cardinality({}) = 0
    BY FS_EmptySet
  <2>3. ApartInv
    BY <2>2 DEF CacheInit, ApartInv, TreeOfPieces, WalkOK, MaximalOK, CountOK, NoJob, Whole,
                OfObject
  <2>4. QED
    BY <2>1, <2>3
<1>2. CacheInv /\ ApartInv /\ [CacheNext]_cache_vars => (CacheInv /\ ApartInv)'
  BY CacheStep, ApartStep
<1>3. QED
  BY <1>1, <1>2, PTL DEF CacheSpec

\* When quicrq_fragment_propose_to_cache returns, the fragment expected at the
\* next point is not waiting in the tree, in whatever order fragments came.
THEOREM NextPointIsMaximal ==
    ASSUME StartInTime, DisjointPieces PROVE CacheSpec => []NextIsMaximal
<1>1. ApartInv => NextIsMaximal
  BY DEF ApartInv, MaximalOK, NextIsMaximal
<1>2. QED
  BY <1>1, ApartInvariantHolds, PTL

\* nb_object_received counts every object once, when it becomes complete,
\* whatever was repeated or purged.
THEOREM ObjectsCountedOnce ==
    ASSUME StartInTime, DisjointPieces PROVE CacheSpec => []CountedOnce
<1>1. ApartInv => CountedOnce
  BY DEF ApartInv, CountOK, CountedOnce
<1>2. QED
  BY <1>1, ApartInvariantHolds, PTL
=============================================================================
