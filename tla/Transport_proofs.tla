-------------------------- MODULE Transport_proofs --------------------------
(***************************************************************************)
(* Proofs about the transport of a media on warp and rush streams.         *)
(***************************************************************************)
EXTENDS Transport, Media_proofs

----------------------------------------------------------------------------
(* The cache.                                                              *)

LEMMA LengthShape ==
    ASSUME NEW k \in Key
    PROVE  ObjectLength[k] \in Nat /\ NbPrevious(k) \in Nat
<1>1. k[1] \in Group /\ k[1] \in Nat /\ k[2] \in Nat
  BY KeyShape
<1>2. k[1] > 0 => k[1] - 1 \in Group
  BY <1>1, MediaAssumption DEF Group
<1>3. QED
  BY <1>1, <1>2, MediaAssumption DEF NbPrevious

LEMMA FragmentShape ==
    ASSUME NEW f \in Fragment
    PROVE  /\ f.key \in Key /\ f.offset \in Nat /\ f.data_length \in Nat
           /\ f.offset + f.data_length <= ObjectLength[f.key]
           /\ f.data_length = 0 => ObjectLength[f.key] = 0
<1>1. PICK k \in Key : \E p \in Pieces[k] :
        f = [key |-> k, offset |-> p.offset, data_length |-> p.data_length]
  BY DEF Fragment
<1>2. PICK p \in Pieces[k] :
        f = [key |-> k, offset |-> p.offset, data_length |-> p.data_length]
  BY <1>1
<1>3. QED
  BY <1>2, SourceAssumption

LEMMA CachedShape ==
    ASSUME NEW c, c \subseteq Fragment, NEW k, NEW offset, Cached(c, k, offset)
    PROVE  k \in Key /\ \E f \in c : f.key = k /\ f.offset = offset
<1>1. \E f \in c : f.key = k /\ f.offset = offset
  BY DEF Cached, get_fragment
<1>2. QED
  BY <1>1, FragmentShape

LEMMA MaxOfTwo ==
    ASSUME NEW a \in Int, NEW b \in Int
    PROVE  Max({a, b}) = IF a >= b THEN a ELSE b
  BY DEF Max

\* What can be copied of an object ends before its end.
LEMMA CopyBound ==
    ASSUME NEW c, c \subseteq Fragment, NEW k \in Key, NEW offset \in Nat,
           NEW n \in 1..copy_available_data(c, k, offset)
    PROVE  n \in Nat \ {0} /\ offset + n <= ObjectLength[k]
<1> DEFINE held == UNION {Bytes(f.offset, f.data_length) : f \in {g \in c : g.key = k}}
           P(e) == Bytes(0, e) \subseteq held /\ e \notin held
           end == CHOOSE e \in 0..ObjectLength[k] : P(e)
           free == {e \in 0..ObjectLength[k] : e \notin held}
<1>1. ObjectLength[k] \in Nat
  BY LengthShape
<1>2. ObjectLength[k] \notin held
  <2>1. ASSUME NEW f \in c, f.key = k
        PROVE  ObjectLength[k] \notin Bytes(f.offset, f.data_length)
    BY <1>1, <2>1, FragmentShape DEF Bytes
  <2> QED
    BY <2>1
<1> HIDE DEF held
<1>3. free \subseteq Nat /\ free # {}
  BY <1>1, <1>2
<1>4. PICK m \in free : \A e \in free : m <= e
  <2> HIDE DEF free
  <2> QED
    BY <1>3, LeastNatural
<1>5. \A b \in Bytes(0, m) : b \in held
  BY <1>1, <1>4 DEF Bytes
<1>6. m \in 0..ObjectLength[k] /\ P(m)
  BY <1>4, <1>5
<1>7. end \in 0..ObjectLength[k]
  <2> HIDE DEF P
  <2> QED
    BY <1>6
<1>8. copy_available_data(c, k, offset) = Max({0, end - offset})
  BY DEF copy_available_data, held
<1> HIDE DEF end
<1>9. Max({0, end - offset}) = IF 0 >= end - offset THEN 0 ELSE end - offset
  BY <1>1, <1>7, MaxOfTwo
<1>10. QED
  BY <1>1, <1>7, <1>8, <1>9

\* The highest point is a key, and none that arrived is after it.
LEMMA HighestShape ==
    ASSUME NEW a, a \subseteq Fragment
    PROVE  /\ Highest(a) \in Key /\ \A f \in a : ~Before(Highest(a), f.key)
           /\ Highest(a) \in {f.key : f \in a} \cup {Origin}
<1> DEFINE points == {f.key : f \in a} \cup {Origin}
           Top(p) == \A q \in points : ~Before(p, q)
           groups == {p[1] : p \in points}
<1>1. Origin \in Key
  BY KeyMembers, MediaAssumption DEF Origin, Group
<1>2. points \subseteq Key
  BY <1>1, FragmentShape
<1>3. Origin \in points /\ \A f \in a : f.key \in points
  OBVIOUS
<1>4. Highest(a) = CHOOSE p \in points : Top(p)
  BY DEF Highest
<1> HIDE DEF points
<1>5. \E p \in points : Top(p)
  <2>1. LastGroup \in Nat
    BY MediaAssumption
  <2>2. groups \subseteq Nat /\ groups # {} /\ \A g \in groups : g <= LastGroup
    BY <1>2, <1>3, <2>1, KeyShape DEF Group
  <2>3. PICK g \in groups : \A h \in groups : h <= g
    <3> HIDE DEF groups
    <3> QED
      BY <2>1, <2>2, GreatestNatural
  <2> DEFINE objs == {p[2] : p \in {q \in points : q[1] = g}}
  <2>4. g \in Nat /\ NbObjects[g] \in Nat
    BY <1>2, <2>3, KeyShape
  <2>5. objs \subseteq Nat /\ objs # {} /\ \A o \in objs : o <= NbObjects[g]
    BY <1>2, <2>3, KeyShape
  <2>6. PICK o \in objs : \A i \in objs : i <= o
    <3> HIDE DEF objs
    <3> QED
      BY <2>4, <2>5, GreatestNatural
  <2>7. PICK p \in points : p[1] = g /\ p[2] = o
    BY <2>6
  <2>8. ASSUME NEW q \in points PROVE ~Before(p, q)
    <3>1. q[1] \in groups /\ (q[1] = g => q[2] \in objs)
      OBVIOUS
    <3>2. q[1] \in Nat /\ q[2] \in Nat /\ o \in Nat
      BY <1>2, <2>5, <2>6, KeyShape
    <3>3. q[1] <= g /\ (q[1] = g => q[2] <= o)
      BY <2>3, <2>6, <3>1
    <3> QED
      BY <2>4, <2>7, <3>2, <3>3 DEF Before
  <2> QED
    BY <2>7, <2>8
<1> HIDE DEF Top
<1>6. Highest(a) \in points /\ Top(Highest(a))
  BY <1>4, <1>5
<1>7. QED
  BY <1>2, <1>3, <1>6 DEF Top, points

LEMMA HighestGrows ==
    ASSUME NEW a, NEW b, a \subseteq b, b \subseteq Fragment
    PROVE  Highest(a)[1] <= Highest(b)[1]
<1>1. Highest(a) \in Key /\ Highest(b) \in Key /\ \A f \in b : ~Before(Highest(b), f.key)
  BY HighestShape
<1>2. (\E f \in a : f.key = Highest(a)) \/ Highest(a) = Origin
  BY HighestShape
<1>3. QED
  BY <1>1, <1>2, KeyShape DEF Before, Origin

----------------------------------------------------------------------------
(* Wake-up: new streams start at their opening on both sides.              *)

\* A stream is the only one that carries its objects.
LEMMA OneCarrier ==
    ASSUME StreamsOK, NEW s \in Key, NEW t \in DOMAIN uni, NEW k,
           mode = "warp" => s[2] = 0, Carries(s, k), Carries(t, k)
    PROVE  s = t
<1>1. t \in Key /\ OnUniStreams /\ (mode = "warp" => t[2] = 0)
  BY DEF StreamsOK
<1>2. s = <<s[1], s[2]>> /\ t = <<t[1], t[2]>>
  BY <1>1, KeyShape
<1>3. QED
  BY <1>1, <1>2 DEF Carries, OnUniStreams

LEMMA EndShape ==
    ASSUME NEW s \in Key
    PROVE  EndOf(s) \in Nat /\ s[2] < EndOf(s)
  BY KeyShape DEF EndOf

LEMMA WokenStreams ==
    ASSUME StreamsOK, OnUniStreams, UNCHANGED mode,
           NEW S, S \subseteq Key, mode = "warp" => \A s \in S : s[2] = 0, Woken(S)
    PROVE  /\ StreamsOK'
           /\ \A s \in DOMAIN uni : /\ s \in DOMAIN uni' /\ SenderPlace(s)' = SenderPlace(s)
                                    /\ wire'[s] = wire[s] /\ peer_uni'[s] = peer_uni[s]
           /\ \A s \in DOMAIN uni' : s \notin DOMAIN uni =>
                 /\ s \in Key /\ (mode = "warp" => s[2] = 0)
                 /\ SenderPlace(s)' = AtOpening(s)
                 /\ wire'[s] = <<>> /\ peer_uni'[s] = NoPeer
<1>1. /\ DOMAIN uni' = DOMAIN uni \cup S
      /\ DOMAIN wire' = DOMAIN uni' /\ DOMAIN peer_uni' = DOMAIN uni'
      /\ DOMAIN uni \cup S \subseteq Key
  BY DEF Woken, StreamsOK
<1>2. ASSUME NEW s \in DOMAIN uni
      PROVE  /\ uni'[s] = [uni[s] EXCEPT !.active = (uni[s].send_state # "closed")]
             /\ wire'[s] = wire[s] /\ peer_uni'[s] = peer_uni[s]
  BY <1>1 DEF Woken
<1>3. ASSUME NEW s \in DOMAIN uni', s \notin DOMAIN uni
      PROVE  /\ uni'[s] = NewUniStream(s) /\ wire'[s] = <<>> /\ peer_uni'[s] = NoPeer
             /\ s \in S
  BY <1>1, <1>3 DEF Woken
<1>4. ASSUME NEW s \in DOMAIN uni
      PROVE  /\ SenderOK(s)' /\ PeerOK(s)' /\ wire'[s] \in Seq(WireMessage(s)')
             /\ SenderPlace(s)' = SenderPlace(s)
  <2>1. SenderOK(s) /\ PeerOK(s) /\ wire[s] \in Seq(WireMessage(s))
    BY DEF StreamsOK
  <2>2. uni[s] \in UniContext
    BY <2>1 DEF SenderOK
  <2>3. /\ uni'[s] \in UniContext
        /\ uni'[s].send_state = uni[s].send_state /\ uni'[s].object = uni[s].object
        /\ uni'[s].offset = uni[s].offset /\ uni'[s].length = uni[s].length
        /\ uni'[s].last = uni[s].last
    BY <1>2, <2>2 DEF UniContext
  <2>4. SenderOK(s)'
    BY <2>1, <2>3 DEF SenderOK, EndOf, Current, Carries
  <2>5. PeerOK(s)'
    BY <1>2, <2>1, <2>3 DEF PeerOK, Carries
  <2>6. WireMessage(s)' = WireMessage(s)
    BY DEF WireMessage, HeaderMessage, DataMessage, Carries
  <2>7. SenderPlace(s)' = SenderPlace(s)
    BY <2>3 DEF SenderPlace
  <2> QED
    BY <1>2, <2>1, <2>4, <2>5, <2>6, <2>7
<1>5. ASSUME NEW s \in DOMAIN uni', s \notin DOMAIN uni
      PROVE  /\ SenderOK(s)' /\ PeerOK(s)' /\ wire'[s] \in Seq(WireMessage(s)')
             /\ SenderPlace(s)' = AtOpening(s)
             /\ s \in Key /\ (mode = "warp" => s[2] = 0)
  <2>1. /\ uni'[s] = NewUniStream(s) /\ wire'[s] = <<>> /\ peer_uni'[s] = NoPeer
        /\ s \in Key /\ s[2] \in Nat /\ (mode = "warp" => s[2] = 0)
        /\ EndOf(s) \in Nat /\ s[2] < EndOf(s)
    BY <1>1, <1>3, <1>5, KeyShape, EndShape
  <2>2. SenderOK(s)'
    BY <2>1 DEF SenderOK, EndOf, NewUniStream, UniContext
  <2>3. PeerOK(s)'
    BY <2>1 DEF PeerOK, NoPeer, NewPeer, PeerContext
  <2>4. SenderPlace(s)' = AtOpening(s)
    BY <2>1 DEF SenderPlace, NewUniStream, AtOpening, Place
  <2> QED
    BY <2>1, <2>2, <2>3, <2>4
<1>6. StreamsOK'
  BY <1>1, <1>4, <1>5 DEF StreamsOK, OnUniStreams
<1>7. QED
  BY <1>1, <1>2, <1>3, <1>4, <1>5, <1>6

LEMMA WokenKeeps ==
    ASSUME StreamsOK, ControlOK, UniReceivedOK, OnUniStreams,
           NEW S, S \subseteq Key, mode = "warp" => \A s \in S : s[2] = 0, Woken(S),
           UNCHANGED <<mode, control, peer_control, uni_error, received, repeated>>
    PROVE  StreamsOK' /\ ControlOK' /\ UniReceivedOK'
<1>1. StreamsOK'
  BY WokenStreams
<1>2. \A s \in DOMAIN uni : /\ s \in DOMAIN uni' /\ SenderPlace(s)' = SenderPlace(s)
                            /\ wire'[s] = wire[s] /\ peer_uni'[s] = peer_uni[s]
  BY WokenStreams
<1>3. \A s \in DOMAIN uni' : s \notin DOMAIN uni =>
                 /\ s \in Key /\ (mode = "warp" => s[2] = 0)
                 /\ SenderPlace(s)' = AtOpening(s)
                 /\ wire'[s] = <<>> /\ peer_uni'[s] = NoPeer
  BY WokenStreams
<1>4. \A s \in DOMAIN uni : PeerPlace(s)' = PeerPlace(s)
  BY <1>2 DEF PeerPlace
<1>5. \A s \in DOMAIN uni' : s \notin DOMAIN uni => PeerPlace(s)' = AtOpening(s)
  BY <1>3 DEF PeerPlace, NoPeer, NewPeer
<1>6. ControlOK'
  <2>1. ASSUME NEW s \in DOMAIN uni, InStep(s) PROVE InStep(s)'
    <3>1. \A a, m : (Continues(s, a, m) <=> Continues(s, a, m)') /\ After(s, m) = After(s, m)'
      BY DEF Continues, After, EndOf
    <3> QED
      BY <1>2, <1>4, <2>1, <3>1 DEF InStep
  <2>2. ASSUME NEW s \in DOMAIN uni', s \notin DOMAIN uni PROVE InStep(s)'
    BY <1>3, <1>5, <2>2 DEF InStep
  <2>3. ASSUME NEW s \in DOMAIN uni', peer_control = "deleted"
        PROVE  peer_uni'[s].receive_state \in {"none", "open", "closed"}
    BY <1>2, <1>3, <2>3 DEF ControlOK, NoPeer, NewPeer
  <2> QED
    BY <2>1, <2>2, <2>3 DEF ControlOK
<1>7. UniReceivedOK'
  <2>1. \A a, k : Filled(a, k)' <=> Filled(a, k)
    BY DEF Filled, Complete
  <2>2. \A s, k : Carries(s, k)' <=> Carries(s, k)
    BY DEF Carries
  <2>3. ASSUME peer_control = "open", NEW m \in received
        PROVE  /\ \E s \in DOMAIN uni' : Carries(s, m.key)
               /\ \A s \in DOMAIN uni' : Carries(s, m.key) => Past(PeerPlace(s)', m)
    <3>1. PICK t \in DOMAIN uni : Carries(t, m.key)
      BY <2>3 DEF UniReceivedOK
    <3>2. ASSUME NEW s \in DOMAIN uni', Carries(s, m.key) PROVE s \in DOMAIN uni
      BY <1>3, <3>1, <3>2, OneCarrier
    <3> QED
      BY <1>2, <1>4, <2>3, <3>1, <3>2 DEF UniReceivedOK
  <2>4. ASSUME NEW s \in DOMAIN uni', NEW k \in Key, Carries(s, k)
        PROVE  Filled(PeerPlace(s)', k)
    <3>1. CASE s \in DOMAIN uni
      BY <1>4, <2>4, <3>1 DEF UniReceivedOK
    <3>2. CASE s \notin DOMAIN uni
      BY <1>5, <3>2 DEF AtOpening, Place, Filled
    <3> QED
      BY <3>1, <3>2
  <2> QED
    BY <2>1, <2>2, <2>3, <2>4 DEF UniReceivedOK, OnUniStreams
<1>8. QED
  BY <1>1, <1>6, <1>7

LEMMA MaxOfBounded ==
    ASSUME NEW T, T \subseteq Nat, T # {}, NEW b \in Nat, \A n \in T : n <= b
    PROVE  Max(T) \in T /\ Max(T) \in Nat /\ Max(T) <= b
<1>1. PICK m \in T : \A n \in T : n <= m
  BY GreatestNatural
<1>2. \A n \in T : m >= n
  BY <1>1
<1>3. Max(T) \in T
  BY <1>2 DEF Max
<1>4. QED
  BY <1>3

LEMMA GreatestOf ==
    ASSUME NEW T, T \subseteq Nat, T # {}, NEW b \in Nat, \A n \in T : n <= b,
           NEW U, U \subseteq T
    PROVE  /\ Max(T) \in T /\ \A n \in T : n <= Max(T)
           /\ U # {} => Max(U) \in U /\ \A n \in U : n <= Max(U)
<1>1. ASSUME NEW V, V \subseteq T, V # {}
      PROVE  Max(V) \in V /\ \A n \in V : n <= Max(V)
  <2>1. PICK m \in V : \A n \in V : n <= m
    BY <1>1, GreatestNatural
  <2>2. \A n \in V : m >= n
    BY <1>1, <2>1
  <2>3. Max(V) \in V /\ \A n \in V : Max(V) >= n
    BY <2>2 DEF Max
  <2> QED
    BY <1>1, <2>3
<1>2. QED
  BY <1>1

\* The streams created in warp mode start at the groups up to the highest.
LEMMA WarpStreams ==
    ASSUME NEW a \in Nat, NEW h \in Key
    PROVE  /\ {<<g, 0>> : g \in a..h[1]} \subseteq Key
           /\ \A s \in {<<g, 0>> : g \in a..h[1]} : s[2] = 0
<1>1. h[1] \in Nat /\ h[1] <= LastGroup
  BY KeyShape, MediaAssumption DEF Group
<1>2. ASSUME NEW g \in a..h[1] PROVE <<g, 0>> \in Key
  <2>1. g \in Group
    BY <1>1, MediaAssumption DEF Group
  <2> QED
    BY <2>1, KeyMembers, MediaAssumption
<1>3. QED
  BY <1>2

LEMMA ObjectCountShape ==
    ASSUME NEW c, c \subseteq Fragment, NEW g \in Nat
    PROVE  /\ get_object_count(c, g) \in Nat
           /\ get_object_count(c, g) # 0 =>
                g \in Group /\ get_object_count(c, g) = NbObjects[g]
<1>1. CASE Cached(c, <<g + 1, 0>>, 0)
  <2>1. <<g + 1, 0>> \in Key
    BY <1>1, CachedShape
  <2>2. g \in Group /\ NbPrevious(<<g + 1, 0>>) = NbObjects[g]
    BY <2>1, KeyMembers, MediaAssumption DEF NbPrevious, Group
  <2> QED
    BY <1>1, <2>2, MediaAssumption DEF get_object_count
<1>2. CASE ~Cached(c, <<g + 1, 0>>, 0)
  BY <1>2 DEF get_object_count
<1>3. QED
  BY <1>1, <1>2

LEMMA RushWakeShape ==
    ASSUME NEW c, c \subseteq Fragment, NEW h \in Key,
           next_warp_group \in Nat, next_rush_object \in Nat, next_warp_group <= h[1],
           RushWakeUp(c, h)
    PROVE  /\ next_warp_group' \in Nat /\ next_rush_object' \in Nat
           /\ next_warp_group' <= h[1]
           /\ \E S : S \subseteq Key /\ Woken(S)
<1> DEFINE Count(g) == IF g < h[1] THEN get_object_count(c, g) ELSE h[2] + 1
           entered == {g \in next_warp_group..h[1] :
                         \A i \in next_warp_group..(g - 1) : Count(i) > 0}
           First(g) == IF g > next_warp_group THEN 0 ELSE next_rush_object
           created == {g \in entered : First(g) < Count(g)}
           S == UNION {{g} \X (First(g)..(Count(g) - 1)) : g \in created}
<1>1. /\ Woken(S)
      /\ next_warp_group' = Max(entered)
      /\ next_rush_object' = IF created = {} THEN next_rush_object ELSE Count(Max(created))
  BY DEF RushWakeUp
<1>2. /\ h[1] \in Nat /\ h[2] \in Nat /\ h[1] \in Group /\ h[1] <= LastGroup
      /\ h[2] < NbObjects[h[1]] /\ NbObjects[h[1]] \in Nat
  BY KeyShape, MediaAssumption DEF Group
<1>3. ASSUME NEW g \in next_warp_group..h[1]
      PROVE  g \in Group /\ Count(g) \in Nat /\ Count(g) <= NbObjects[g] /\ First(g) \in Nat
  <2>1. g \in Nat /\ g \in Group /\ g <= h[1]
    BY <1>2, MediaAssumption DEF Group
  <2>2. NbObjects[g] \in Nat
    BY <2>1, MediaAssumption
  <2>3. CASE g < h[1]
    BY <2>1, <2>2, <2>3, ObjectCountShape
  <2>4. CASE g = h[1]
    BY <1>2, <2>1, <2>4
  <2> QED
    BY <1>2, <2>1, <2>3, <2>4
<1>4. next_warp_group \in entered
  BY <1>2
<1>5. entered \subseteq next_warp_group..h[1] /\ created \subseteq entered
  OBVIOUS
<1>6. ASSUME NEW s \in S PROVE s \in Key
  <2>1. PICK g \in created : s \in {g} \X (First(g)..(Count(g) - 1))
    OBVIOUS
  <2>2. g \in Group /\ Count(g) \in Nat /\ Count(g) <= NbObjects[g] /\ First(g) \in Nat
    BY <1>3
  <2>3. NbObjects[g] \in Nat
    BY <2>2, MediaAssumption
  <2> HIDE DEF Count, First, created
  <2>4. PICK o \in First(g)..(Count(g) - 1) : s = <<g, o>>
    BY <2>1
  <2>5. o \in 0..(NbObjects[g] - 1)
    BY <2>2, <2>3, <2>4
  <2> QED
    BY <2>2, <2>4, <2>5, KeyMembers
<1> HIDE DEF entered, Count, created, S
<1>7. \A g \in entered : g \in Nat /\ g <= h[1]
  BY <1>2, <1>5
<1>8. Max(entered) \in Nat /\ Max(entered) <= h[1]
  BY <1>2, <1>4, <1>7, MaxOfBounded
<1>9. created # {} => Max(created) \in created
  BY <1>2, <1>5, <1>7, MaxOfBounded
<1>10. next_rush_object' \in Nat
  BY <1>1, <1>3, <1>5, <1>9
<1>11. QED
  BY <1>1, <1>6, <1>8, <1>10

LEMMA UniWakeKeeps ==
    ASSUME UniInv, OnUniStreams, UniWakeUp,
           arrived \subseteq arrived', arrived' \subseteq Fragment, fragments' \subseteq Fragment,
           UNCHANGED <<mode, received, repeated>>
    PROVE  UniInv'
<1> DEFINE h == Highest(arrived')
<1>1. h \in Key /\ h[1] \in Nat /\ Highest(arrived)[1] \in Nat /\ Highest(arrived)[1] <= h[1]
  BY HighestShape, HighestGrows, KeyShape DEF UniInv
<1>2. UNCHANGED <<control, peer_control, uni_error>>
  BY DEF UniWakeUp
<1> HIDE DEF h
<1>3. CASE mode = "warp"
  <2>1. WarpWakeUp(h)
    BY <1>3 DEF UniWakeUp, h
  <2>2. StreamsOK' /\ ControlOK' /\ UniReceivedOK'
    <3>1. Woken({<<g, 0>> : g \in next_warp_group..h[1]}) /\ next_warp_group \in Nat
      BY <2>1 DEF WarpWakeUp, UniInv
    <3> QED
      BY <1>1, <1>2, <3>1, WarpStreams, WokenKeeps DEF UniInv
  <2>3. next_warp_group' \in Nat /\ next_rush_object' \in Nat
    BY <1>1, <2>1, MaxOfTwo DEF WarpWakeUp, UniInv
  <2> QED
    BY <1>3, <2>2, <2>3 DEF UniInv
<1>4. CASE mode = "rush"
  <2>1. RushWakeUp(fragments', h) /\ next_warp_group \in Nat /\ next_rush_object \in Nat
        /\ next_warp_group <= h[1]
    BY <1>1, <1>4 DEF UniWakeUp, UniInv, h
  <2>2. /\ next_warp_group' \in Nat /\ next_rush_object' \in Nat
        /\ next_warp_group' <= h[1]
        /\ \E S : S \subseteq Key /\ Woken(S)
    BY <1>1, <2>1, RushWakeShape
  <2>3. StreamsOK' /\ ControlOK' /\ UniReceivedOK'
    BY <1>2, <1>4, <2>2, WokenKeeps DEF UniInv
  <2> QED
    BY <1>4, <2>2, <2>3 DEF UniInv, h
<1>5. QED
  BY <1>3, <1>4 DEF OnUniStreams

----------------------------------------------------------------------------
(* The sender: a message continues from the place of the sender and leaves *)
(* the sender where it leads.                                              *)

LEMMA ChainExtended ==
    ASSUME NEW S, NEW w \in Seq(S), NEW m \in S
    PROVE  LET v == Append(w, m)
           IN /\ v \in Seq(S) /\ v # <<>> /\ v[Len(v)] = m
              /\ Len(v) = Len(w) + 1 /\ Len(w) \in Nat
              /\ \A i \in 1..Len(w) : v[i] = w[i]
              /\ w = <<>> => v[1] = m /\ Len(v) = 1
              /\ w # <<>> => v[1] = w[1] /\ Len(w) > 0
  OBVIOUS

LEMMA ReceivedKept ==
    ASSUME UniReceivedOK, UNCHANGED <<mode, peer_control, received, repeated>>,
           DOMAIN uni' = DOMAIN uni, \A s \in DOMAIN uni : PeerPlace(s)' = PeerPlace(s)
    PROVE  UniReceivedOK'
<1>1. \A a, k : Filled(a, k)' <=> Filled(a, k)
  BY DEF Filled, Complete
<1>2. \A s, k : Carries(s, k)' <=> Carries(s, k)
  BY DEF Carries
<1> SUFFICES ASSUME OnUniStreams PROVE UniReceivedOK'
  BY DEF UniReceivedOK, OnUniStreams
<1>3. ASSUME peer_control = "open", NEW m \in received
      PROVE  /\ \E s \in DOMAIN uni' : Carries(s, m.key)
             /\ \A s \in DOMAIN uni' : Carries(s, m.key) => Past(PeerPlace(s)', m)
  BY <1>3 DEF UniReceivedOK
<1>4. ASSUME NEW s \in DOMAIN uni', NEW k \in Key, Carries(s, k)
      PROVE  Filled(PeerPlace(s)', k)
  BY <1>4 DEF UniReceivedOK
<1>5. QED
  BY <1>1, <1>2, <1>3, <1>4 DEF UniReceivedOK, OnUniStreams

LEMMA WriteKeeps ==
    ASSUME UniInv, NEW s \in DOMAIN uni, NEW m \in WireMessage(s), NEW u \in UniContext,
           Write(s, m, u), control = "open", uni[s].send_state # "closed",
           Continues(s, SenderPlace(s), m), After(s, m) = SenderPlace(s)', SenderOK(s)'
    PROVE  UniInv'
<1> DEFINE w == wire[s]
           v == wire'[s]
<1>1. /\ UNCHANGED <<next_warp_group, next_rush_object, peer_uni, control, peer_control, uni_error>>
      /\ UNCHANGED <<fragments, arrived, mode, received, repeated>>
  BY DEF Write, source_vars, stream_vars, consumer_vars
<1>2. /\ DOMAIN uni' = DOMAIN uni /\ DOMAIN wire' = DOMAIN uni /\ DOMAIN wire = DOMAIN uni
      /\ uni'[s] = u /\ v = Append(w, m)
      /\ \A t \in DOMAIN uni : t # s => uni'[t] = uni[t] /\ wire'[t] = wire[t]
  BY DEF Write, UniInv, StreamsOK
<1>3. w \in Seq(WireMessage(s))
  BY DEF UniInv, StreamsOK
<1>4. \A t : WireMessage(t)' = WireMessage(t) /\ PeerPlace(t)' = PeerPlace(t)
  BY <1>1 DEF WireMessage, HeaderMessage, DataMessage, Carries, PeerPlace
<1>5. StreamsOK'
  <2>1. v \in Seq(WireMessage(s))
    BY <1>2, <1>3
  <2>2. PeerOK(s)'
    BY <1>1 DEF PeerOK, UniInv, StreamsOK, Carries
  <2>3. ASSUME NEW t \in DOMAIN uni, t # s
        PROVE  SenderOK(t)' /\ PeerOK(t)' /\ wire'[t] \in Seq(WireMessage(t))
    <3>1. SenderOK(t) /\ PeerOK(t) /\ wire[t] \in Seq(WireMessage(t))
      BY DEF UniInv, StreamsOK
    <3>2. uni'[t] = uni[t] /\ wire'[t] = wire[t]
      BY <1>2, <2>3
    <3> QED
      BY <1>1, <3>1, <3>2 DEF SenderOK, PeerOK, EndOf, Current, Carries
  <2> QED
    BY <1>1, <1>2, <1>4, <2>1, <2>2, <2>3 DEF UniInv, StreamsOK, OnUniStreams
<1>6. ControlOK'
  <2>1. peer_control = "open" /\ ~uni_error /\ \A t \in DOMAIN uni : InStep(t)
    BY DEF UniInv, ControlOK
  <2>2. \A t, a, n : (Continues(t, a, n) <=> Continues(t, a, n)') /\ After(t, n) = After(t, n)'
    BY <1>1 DEF Continues, After, EndOf
  <2>3. ASSUME NEW t \in DOMAIN uni, t # s PROVE InStep(t)'
    <3>1. uni'[t] = uni[t] /\ wire'[t] = wire[t] /\ InStep(t)
      BY <1>2, <2>1, <2>3
    <3>2. SenderPlace(t)' = SenderPlace(t)
      BY <3>1 DEF SenderPlace
    <3> QED
      BY <1>4, <2>2, <3>1, <3>2 DEF InStep
  <2>4. InStep(s)'
    <3>1. /\ v # <<>> /\ v[Len(v)] = m /\ Len(v) = Len(w) + 1 /\ Len(w) \in Nat
          /\ \A i \in 1..Len(w) : v[i] = w[i]
          /\ w = <<>> => v[1] = m /\ Len(v) = 1
          /\ w # <<>> => v[1] = w[1] /\ Len(w) > 0
      BY <1>2, <1>3, ChainExtended
    <3>2. /\ w = <<>> => PeerPlace(s) = SenderPlace(s)
          /\ w # <<>> => Continues(s, PeerPlace(s), w[1]) /\ After(s, w[Len(w)]) = SenderPlace(s)
          /\ \A i \in 1..(Len(w) - 1) : Continues(s, After(s, w[i]), w[i + 1])
      BY <2>1 DEF InStep
    <3> HIDE DEF w, v
    <3>3. Continues(s, PeerPlace(s), v[1])
      BY <3>1, <3>2
    <3>4. ASSUME NEW i \in 1..(Len(v) - 1) PROVE Continues(s, After(s, v[i]), v[i + 1])
      <4>1. i \in 1..Len(w) /\ v[i] = w[i]
        BY <3>1
      <4>2. CASE i = Len(w)
        BY <3>1, <3>2, <4>1, <4>2
      <4>3. CASE i # Len(w)
        BY <3>1, <3>2, <4>1, <4>3
      <4> QED
        BY <4>2, <4>3
    <3>5. After(s, v[Len(v)]) = SenderPlace(s)'
      BY <3>1
    <3> QED
      BY <1>4, <2>2, <3>1, <3>3, <3>4, <3>5 DEF InStep, v
  <2> QED
    BY <1>1, <1>2, <2>1, <2>3, <2>4 DEF ControlOK
<1>7. UniReceivedOK'
  BY <1>1, <1>2, <1>4, ReceivedKept DEF UniInv
<1>8. QED
  BY <1>1, <1>5, <1>6, <1>7 DEF UniInv

\* The count of the objects of a stream is right once it is known.
LEMMA LastObjectShape ==
    ASSUME UniInv, NEW s \in DOMAIN uni
    PROVE  /\ LastObject(s) \in {0, EndOf(s)} /\ EndOf(s) \in Nat
           /\ mode = "rush" => LastObject(s) = s[2] + 1
<1>1. /\ s \in Key /\ s[1] \in Nat /\ s[2] \in Nat /\ mode \in {"warp", "rush"}
      /\ uni[s] \in UniContext /\ uni[s].last \in {0, EndOf(s)}
      /\ (mode = "rush" => uni[s].last # 0)
  BY KeyShape DEF UniInv, StreamsOK, SenderOK, OnUniStreams
<1>2. EndOf(s) \in Nat /\ s[2] < EndOf(s)
  BY <1>1, EndShape
<1>3. CASE uni[s].last > 0
  BY <1>1, <1>2, <1>3 DEF LastObject, EndOf
<1>4. CASE uni[s].last = 0
  <2>1. EndOf(s) = NbObjects[s[1]] /\ mode # "rush"
    BY <1>1, <1>4 DEF EndOf
  <2>2. CASE stream_final /\ FinalPoint[1] = s[1]
    BY <1>4, <2>1, <2>2, FinalShape DEF LastObject
  <2>3. CASE ~(stream_final /\ FinalPoint[1] = s[1])
    <3>1. LastObject(s) = get_object_count(fragments, s[1])
      BY <1>4, <2>3 DEF LastObject
    <3>2. fragments \subseteq Fragment
      BY DEF UniInv
    <3> QED
      BY <1>1, <1>2, <2>1, <3>1, <3>2, ObjectCountShape
  <2> QED
    BY <1>2, <2>1, <2>2, <2>3
<1>5. QED
  BY <1>1, <1>2, <1>3, <1>4 DEF UniContext

\* What a sender's step may use.
LEMMA SenderFacts ==
    ASSUME UniInv, NEW s, Prepared(s)
    PROVE  /\ s \in DOMAIN uni /\ s \in Key /\ control = "open" /\ SenderOK(s)
           /\ s = <<s[1], s[2]>> /\ s[1] \in Nat /\ s[2] \in Nat
           /\ mode \in {"warp", "rush"} /\ (mode = "warp" => s[2] = 0)
           /\ uni[s] \in UniContext /\ EndOf(s) \in Nat /\ s[2] < EndOf(s)
           /\ DOMAIN wire = DOMAIN uni
<1>1. s \in DOMAIN uni /\ control = "open" /\ OnUniStreams
  BY DEF Prepared
<1>2. s \in Key /\ SenderOK(s) /\ (mode = "warp" => s[2] = 0) /\ DOMAIN wire = DOMAIN uni
  BY <1>1 DEF UniInv, StreamsOK
<1>3. QED
  BY <1>1, <1>2, KeyShape, EndShape DEF SenderOK, OnUniStreams

LEMMA SendWarpHeaderKeeps ==
    ASSUME UniInv, NEW s, SendWarpHeader(s)
    PROVE  UniInv'
<1> DEFINE m == [type |-> "warp_header"]
           u == [uni[s] EXCEPT !.send_state = "header_sent"]
<1>1. Prepared(s) /\ uni[s].send_state = "open" /\ Write(s, m, u) /\ UNCHANGED mode
  BY DEF SendWarpHeader, Write, stream_vars
<1>2. s \in DOMAIN uni /\ control = "open" /\ SenderOK(s) /\ uni[s] \in UniContext
  BY <1>1, SenderFacts
<1>3. uni'[s] = u
  BY <1>1, <1>2 DEF Write
<1>4. /\ u \in UniContext /\ u.send_state = "header_sent" /\ u.object = uni[s].object
      /\ u.offset = uni[s].offset /\ u.last = uni[s].last
  BY <1>2 DEF UniContext
<1> HIDE DEF u
<1>5. m \in WireMessage(s)
  BY DEF WireMessage
<1>6. Continues(s, SenderPlace(s), m)
  BY <1>1 DEF Continues, SenderPlace
<1>7. After(s, m) = SenderPlace(s)'
  BY <1>1, <1>2, <1>3, <1>4 DEF After, SenderPlace, SenderOK
<1>8. SenderOK(s)'
  BY <1>1, <1>2, <1>3, <1>4 DEF SenderOK, EndOf
<1>9. QED
  BY <1>1, <1>2, <1>4, <1>5, <1>6, <1>7, <1>8, WriteKeeps

LEMMA SendObjectHeaderKeeps ==
    ASSUME UniInv, NEW s, NEW skip \in BOOLEAN, SendObjectHeader(s, skip)
    PROVE  UniInv'
<1> DEFINE k == Current(s)
           length == IF skip THEN 0 ELSE ObjectLength[k]
           m == [type |-> "object_header", object |-> k[2], nb_previous |-> NbPrevious(k),
                 length |-> length]
           context == [uni[s] EXCEPT !.last = LastObject(s), !.length = length]
           u == IF length = 0 THEN [context EXCEPT !.object = @ + 1]
                ELSE [context EXCEPT !.send_state = "object_data"]
<1>1. /\ Prepared(s) /\ uni[s].send_state = "header_sent" /\ ~AllSent(s)
      /\ Cached(fragments, k, 0) /\ Write(s, m, u) /\ UNCHANGED mode
  BY DEF SendObjectHeader, Write, stream_vars
<1>2. /\ s \in DOMAIN uni /\ control = "open" /\ SenderOK(s) /\ uni[s] \in UniContext
      /\ s = <<s[1], s[2]>> /\ s[1] \in Nat /\ s[2] \in Nat
      /\ mode \in {"warp", "rush"} /\ EndOf(s) \in Nat /\ s[2] < EndOf(s)
  BY <1>1, SenderFacts
<1>3. uni[s].object \in Nat /\ k = <<s[1], uni[s].object>> /\ k[2] = uni[s].object /\ k[1] = s[1]
  BY <1>2 DEF Current, UniContext
<1>4. LastObject(s) \in {0, EndOf(s)} /\ (mode = "rush" => LastObject(s) = s[2] + 1)
  BY <1>2, LastObjectShape
<1>5. k \in Key /\ ObjectLength[k] \in Nat /\ NbPrevious(k) \in Nat
  <2>1. fragments \subseteq Fragment
    BY DEF UniInv
  <2>2. k \in Key
    BY <1>1, <2>1, CachedShape
  <2> QED
    BY <2>2, LengthShape
<1>6. uni[s].object < EndOf(s) /\ Carries(s, k)
  <2>1. CASE mode = "rush"
    <3>1. uni[s].object < s[2] + 1 /\ uni[s].object >= s[2]
      BY <1>1, <1>2, <1>3, <1>4, <2>1 DEF AllSent, SenderOK
    <3>2. uni[s].object = s[2]
      BY <1>2, <1>3, <3>1
    <3> QED
      BY <1>2, <1>3, <3>2 DEF Carries
  <2>2. CASE mode = "warp"
    BY <1>3, <1>5, <2>2, KeyShape DEF Carries, EndOf
  <2> QED
    BY <1>2, <2>1, <2>2
<1>7. length \in Nat /\ length \in {0, ObjectLength[k]}
  BY <1>5
<1>8. m \in WireMessage(s)
  <2>1. m \in HeaderMessage(s)
    BY <1>3, <1>5, <1>6, <1>7 DEF HeaderMessage
  <2> QED
    BY <2>1 DEF WireMessage
<1> HIDE DEF length
<1>9. /\ u \in UniContext /\ u.last = LastObject(s) /\ u.offset = uni[s].offset
      /\ length = 0 => u.send_state = "header_sent" /\ u.object = uni[s].object + 1
      /\ length # 0 => /\ u.send_state = "object_data" /\ u.object = uni[s].object
                       /\ u.length = length
  <2>1. /\ context \in UniContext /\ context.last = LastObject(s)
        /\ context.offset = uni[s].offset /\ context.object = uni[s].object
        /\ context.send_state = "header_sent" /\ context.length = length
    <3>1. LastObject(s) \in Nat
      BY <1>2, <1>4
    <3> QED
      BY <1>1, <1>2, <1>7, <3>1 DEF UniContext
  <2> HIDE DEF context
  <2>2. CASE length = 0
    <3>1. u = [context EXCEPT !.object = @ + 1]
      BY <2>2
    <3> QED
      BY <2>1, <2>2, <3>1 DEF UniContext
  <2>3. CASE length # 0
    <3>1. u = [context EXCEPT !.send_state = "object_data"]
      BY <2>3
    <3> QED
      BY <2>1, <2>3, <3>1 DEF UniContext
  <2> QED
    BY <2>2, <2>3
<1>10. uni'[s] = u
  BY <1>1, <1>2 DEF Write
<1> HIDE DEF u
<1>11. Continues(s, SenderPlace(s), m)
  BY <1>1, <1>3 DEF Continues, SenderPlace
<1>12. uni[s].offset = 0
  BY <1>1, <1>2 DEF SenderOK
<1>13. After(s, m) = SenderPlace(s)'
  BY <1>3, <1>9, <1>10, <1>12 DEF After, SenderPlace
<1>14. SenderOK(s)'
  <2>1. EndOf(s)' = EndOf(s)
    BY <1>1 DEF EndOf
  <2>2. u.object <= EndOf(s)
    BY <1>2, <1>3, <1>6, <1>9
  <2>3. mode = "rush" => u.last # 0 /\ u.object >= s[2]
    BY <1>2, <1>3, <1>4, <1>9 DEF SenderOK
  <2>4. u.send_state = "object_data" =>
          /\ Current(s)' \in Key /\ Carries(s, Current(s))'
          /\ u.length = ObjectLength[Current(s)'] /\ u.offset < u.length
    <3>1. u.send_state = "object_data" => length # 0 /\ Current(s)' = k
      BY <1>3, <1>9, <1>10 DEF Current
    <3> QED
      BY <1>1, <1>5, <1>6, <1>7, <1>9, <1>12, <3>1 DEF Carries
  <2>5. u.send_state # "open"
    BY <1>9
  <2> QED
    BY <1>1, <1>4, <1>9, <1>10, <1>12, <2>1, <2>2, <2>3, <2>4, <2>5 DEF SenderOK
<1>15. QED
  BY <1>1, <1>2, <1>8, <1>9, <1>11, <1>13, <1>14, WriteKeeps

LEMMA SendObjectDataKeeps ==
    ASSUME UniInv, NEW s, NEW n, SendObjectData(s, n)
    PROVE  UniInv'
<1> DEFINE k == Current(s)
           offset == uni[s].offset
           m == [type |-> "data", source |-> k, offset |-> offset, length |-> n]
           u == IF offset + n < uni[s].length THEN [uni[s] EXCEPT !.offset = offset + n]
                ELSE [uni[s] EXCEPT !.offset = 0, !.object = @ + 1,
                                    !.send_state = "header_sent"]
<1>1. /\ Prepared(s) /\ uni[s].send_state = "object_data"
      /\ n \in 1..copy_available_data(fragments, k, offset)
      /\ Write(s, m, u) /\ UNCHANGED mode
  BY DEF SendObjectData, Write, stream_vars
<1>2. /\ s \in DOMAIN uni /\ control = "open" /\ SenderOK(s) /\ uni[s] \in UniContext
      /\ s = <<s[1], s[2]>> /\ s[1] \in Nat /\ s[2] \in Nat
      /\ mode \in {"warp", "rush"} /\ EndOf(s) \in Nat
  BY <1>1, SenderFacts
<1>3. /\ k = <<s[1], uni[s].object>> /\ k[2] = uni[s].object /\ k[1] = s[1]
      /\ k \in Key /\ Carries(s, k) /\ ObjectLength[k] \in Nat
      /\ uni[s].length = ObjectLength[k] /\ offset \in Nat /\ uni[s].object \in Nat
  BY <1>1, <1>2, LengthShape DEF Current, SenderOK, UniContext
<1>4. n \in Nat \ {0} /\ offset + n <= ObjectLength[k]
  <2>1. fragments \subseteq Fragment
    BY DEF UniInv
  <2> QED
    BY <1>1, <1>3, <2>1, CopyBound
<1>5. m \in WireMessage(s)
  <2>1. m \in DataMessage(s)
    BY <1>3, <1>4 DEF DataMessage
  <2> QED
    BY <2>1 DEF WireMessage
<1>6. /\ u \in UniContext /\ u.last = uni[s].last /\ u.length = uni[s].length
      /\ offset + n < uni[s].length => /\ u.send_state = "object_data"
                                       /\ u.object = uni[s].object /\ u.offset = offset + n
      /\ ~(offset + n < uni[s].length) => /\ u.send_state = "header_sent"
                                          /\ u.object = uni[s].object + 1 /\ u.offset = 0
  <2>1. CASE offset + n < uni[s].length
    <3>1. u = [uni[s] EXCEPT !.offset = offset + n] /\ offset + n \in Nat
      BY <1>3, <1>4, <2>1
    <3> QED
      BY <1>1, <1>2, <2>1, <3>1 DEF UniContext
  <2>2. CASE ~(offset + n < uni[s].length)
    <3>1. u = [uni[s] EXCEPT !.offset = 0, !.object = uni[s].object + 1,
                             !.send_state = "header_sent"]
      BY <1>2, <2>2 DEF UniContext
    <3>2. uni[s].object + 1 \in Nat
      BY <1>3
    <3> QED
      BY <1>2, <2>2, <3>1, <3>2 DEF UniContext
  <2> QED
    BY <2>1, <2>2
<1>7. uni'[s] = u
  BY <1>1, <1>2 DEF Write
<1> HIDE DEF u
<1>8. Continues(s, SenderPlace(s), m)
  BY <1>1, <1>3 DEF Continues, SenderPlace
<1>9. After(s, m) = SenderPlace(s)'
  BY <1>3, <1>6, <1>7 DEF After, SenderPlace
<1>10. SenderOK(s)'
  <2>1. EndOf(s)' = EndOf(s)
    BY <1>1 DEF EndOf
  <2>2. uni[s].object + 1 <= EndOf(s)
    <3>1. CASE mode = "rush"
      BY <1>2, <1>3, <3>1 DEF Carries, EndOf
    <3>2. CASE mode = "warp"
      BY <1>3, <3>2, KeyShape DEF EndOf
    <3> QED
      BY <1>2, <3>1, <3>2
  <2>3. u.object <= EndOf(s) /\ (mode = "rush" => u.last # 0 /\ u.object >= s[2])
    BY <1>2, <1>3, <1>6, <2>2 DEF SenderOK
  <2>4. u.send_state = "object_data" =>
          /\ Current(s)' \in Key /\ Carries(s, Current(s))'
          /\ u.length = ObjectLength[Current(s)'] /\ u.offset < u.length
    <3>1. u.send_state = "object_data" => offset + n < uni[s].length /\ Current(s)' = k
      BY <1>3, <1>6, <1>7 DEF Current
    <3> QED
      BY <1>1, <1>3, <1>6, <3>1 DEF Carries
  <2>5. u.send_state # "open" /\ (u.send_state # "object_data" => u.offset = 0)
    BY <1>6
  <2> QED
    BY <1>1, <1>2, <1>6, <1>7, <2>1, <2>3, <2>4, <2>5 DEF SenderOK
<1>11. QED
  BY <1>1, <1>2, <1>5, <1>6, <1>8, <1>9, <1>10, WriteKeeps

LEMMA SendStreamFinKeeps ==
    ASSUME UniInv, NEW s, SendStreamFin(s)
    PROVE  UniInv'
<1> DEFINE m == [type |-> "fin"]
           u == [uni[s] EXCEPT !.send_state = "closed", !.active = FALSE]
<1>1. /\ Prepared(s) /\ uni[s].send_state = "header_sent" /\ AllSent(s)
      /\ Write(s, m, u) /\ UNCHANGED mode
  BY DEF SendStreamFin, Write, stream_vars
<1>2. s \in DOMAIN uni /\ control = "open" /\ SenderOK(s) /\ uni[s] \in UniContext
  BY <1>1, SenderFacts
<1>3. uni'[s] = u
  BY <1>1, <1>2 DEF Write
<1>4. /\ u \in UniContext /\ u.send_state = "closed" /\ u.object = uni[s].object
      /\ u.offset = uni[s].offset /\ u.last = uni[s].last
  BY <1>2 DEF UniContext
<1> HIDE DEF u
<1>5. m \in WireMessage(s)
  BY DEF WireMessage
<1>6. Continues(s, SenderPlace(s), m)
  <2>1. uni[s].object >= EndOf(s)
    BY <1>1, <1>2, LastObjectShape DEF AllSent
  <2>2. SenderPlace(s) = AtHeader(uni[s].object)
    BY <1>1 DEF SenderPlace
  <2> QED
    BY <2>1, <2>2 DEF Continues, AtHeader, Place
<1>7. After(s, m) = SenderPlace(s)'
  BY <1>3, <1>4 DEF After, SenderPlace
<1>8. SenderOK(s)'
  BY <1>1, <1>2, <1>3, <1>4 DEF SenderOK, EndOf
<1>9. QED
  BY <1>1, <1>2, <1>4, <1>5, <1>6, <1>7, <1>8, WriteKeeps

\* A step that leaves sender, receiver and messages of all streams in their
\* places.
LEMMA QuietKeeps ==
    ASSUME UniInv, fragments' \subseteq Fragment, arrived \subseteq arrived', arrived' \subseteq Fragment,
           UNCHANGED <<mode, next_warp_group, next_rush_object, wire, peer_uni, peer_control,
                       uni_error, received, repeated>>,
           control' \in {control, "deleted"},
           DOMAIN uni' = DOMAIN uni,
           \A s \in DOMAIN uni :
               /\ uni'[s] \in UniContext /\ uni'[s].send_state = uni[s].send_state
               /\ uni'[s].object = uni[s].object /\ uni'[s].offset = uni[s].offset
               /\ uni'[s].length = uni[s].length
               /\ uni'[s].last \in {0, EndOf(s)} /\ (mode = "rush" => uni'[s].last # 0)
    PROVE  UniInv'
<1>1. \A s \in DOMAIN uni : SenderPlace(s)' = SenderPlace(s)
  BY DEF SenderPlace
<1>2. \A s : PeerPlace(s)' = PeerPlace(s) /\ WireMessage(s)' = WireMessage(s)
  BY DEF PeerPlace, WireMessage, HeaderMessage, DataMessage, Carries
<1>3. StreamsOK'
  <2>1. ASSUME NEW s \in DOMAIN uni PROVE SenderOK(s)' /\ PeerOK(s)'
    <3>1. SenderOK(s) /\ PeerOK(s)
      BY DEF UniInv, StreamsOK
    <3>2. EndOf(s)' = EndOf(s) /\ Current(s)' = Current(s)
      BY DEF EndOf, Current
    <3>3. SenderOK(s)'
      BY <3>1, <3>2 DEF SenderOK, Carries
    <3>4. PeerOK(s)'
      BY <3>1 DEF PeerOK, Carries
    <3> QED
      BY <3>3, <3>4
  <2> QED
    BY <1>2, <2>1 DEF UniInv, StreamsOK, OnUniStreams
<1>4. ControlOK'
  <2>1. \A s, a, m : (Continues(s, a, m) <=> Continues(s, a, m)') /\ After(s, m) = After(s, m)'
    BY DEF Continues, After, EndOf
  <2>2. ASSUME NEW s \in DOMAIN uni, InStep(s) PROVE InStep(s)'
    BY <1>1, <1>2, <2>1, <2>2 DEF InStep
  <2> QED
    BY <2>2 DEF UniInv, ControlOK
<1>5. UniReceivedOK'
  BY <1>2, ReceivedKept DEF UniInv
<1>6. mode = "rush" => next_warp_group <= Highest(arrived')[1]
  BY HighestShape, HighestGrows, KeyShape DEF UniInv
<1>7. QED
  BY <1>3, <1>4, <1>5, <1>6 DEF UniInv

LEMMA UniStreamIdleKeeps ==
    ASSUME UniInv, NEW s, UniStreamIdle(s)
    PROVE  UniInv'
<1>1. /\ Prepared(s)
      /\ UNCHANGED <<next_warp_group, next_rush_object, wire, peer_uni, control, peer_control,
                     uni_error, mode, received, repeated, fragments, arrived>>
  BY DEF UniStreamIdle, source_vars, consumer_vars
<1>2. s \in DOMAIN uni
  BY <1>1 DEF Prepared
<1>3. LastObject(s) \in {0, EndOf(s)} /\ LastObject(s) \in Nat /\ (mode = "rush" => LastObject(s) # 0)
  <2>1. s[2] \in Nat
    BY <1>2, KeyShape DEF UniInv, StreamsOK
  <2> QED
    BY <1>2, <2>1, LastObjectShape
<1>4. \/ uni' = [uni EXCEPT ![s].active = FALSE, ![s].last = LastObject(s)]
      \/ uni' = [uni EXCEPT ![s].active = FALSE]
  BY DEF UniStreamIdle
<1>5. ASSUME NEW t \in DOMAIN uni
      PROVE  /\ uni'[t] \in UniContext /\ uni'[t].send_state = uni[t].send_state
             /\ uni'[t].object = uni[t].object /\ uni'[t].offset = uni[t].offset
             /\ uni'[t].length = uni[t].length
             /\ uni'[t].last \in {0, EndOf(t)} /\ (mode = "rush" => uni'[t].last # 0)
  <2>1. /\ uni[t] \in UniContext /\ uni[t].last \in {0, EndOf(t)}
        /\ (mode = "rush" => uni[t].last # 0)
    BY DEF UniInv, StreamsOK, SenderOK
  <2>2. CASE t # s
    BY <1>4, <2>1, <2>2
  <2>3. CASE t = s
    <3>1. \/ uni'[t] = [uni[t] EXCEPT !.active = FALSE, !.last = LastObject(s)]
          \/ uni'[t] = [uni[t] EXCEPT !.active = FALSE]
      BY <1>4, <2>3
    <3>2. CASE uni'[t] = [uni[t] EXCEPT !.active = FALSE, !.last = LastObject(s)]
      BY <1>3, <2>1, <2>3, <3>2 DEF UniContext
    <3>3. CASE uni'[t] = [uni[t] EXCEPT !.active = FALSE]
      BY <2>1, <3>3 DEF UniContext
    <3> QED
      BY <3>1, <3>2, <3>3
  <2> QED
    BY <2>2, <2>3
<1>6. DOMAIN uni' = DOMAIN uni
  BY <1>4
<1>7. QED
  BY <1>1, <1>5, <1>6, QuietKeeps DEF UniInv

LEMMA SenderDeletesKeeps ==
    ASSUME UniInv, SenderDeletes
    PROVE  UniInv'
<1>1. /\ control' = "deleted"
      /\ uni' = [s \in DOMAIN uni |-> [uni[s] EXCEPT !.active = FALSE]]
      /\ UNCHANGED <<next_warp_group, next_rush_object, wire, peer_uni, peer_control,
                     uni_error, mode, received, repeated, fragments, arrived>>
  BY DEF SenderDeletes, ControlUnchanged, source_vars, stream_vars, consumer_vars
<1>2. ASSUME NEW t \in DOMAIN uni
      PROVE  /\ uni'[t] \in UniContext /\ uni'[t].send_state = uni[t].send_state
             /\ uni'[t].object = uni[t].object /\ uni'[t].offset = uni[t].offset
             /\ uni'[t].length = uni[t].length
             /\ uni'[t].last \in {0, EndOf(t)} /\ (mode = "rush" => uni'[t].last # 0)
  <2>1. /\ uni[t] \in UniContext /\ uni[t].last \in {0, EndOf(t)}
        /\ (mode = "rush" => uni[t].last # 0)
    BY DEF UniInv, StreamsOK, SenderOK
  <2>2. uni'[t] = [uni[t] EXCEPT !.active = FALSE]
    BY <1>1
  <2> QED
    BY <2>1, <2>2 DEF UniContext
<1>3. DOMAIN uni' = DOMAIN uni
  BY <1>1
<1>4. QED
  BY <1>1, <1>2, <1>3, QuietKeeps DEF UniInv

LEMMA PeerDeletesKeeps ==
    ASSUME UniInv, PeerDeletes
    PROVE  UniInv'
<1>1. /\ control = "deleted" /\ peer_control' = "deleted"
      /\ peer_uni' = [s \in DOMAIN peer_uni |->
                        IF peer_uni[s].receive_state = "closed" THEN peer_uni[s] ELSE NoPeer]
      /\ UNCHANGED <<uni, next_warp_group, next_rush_object, wire, control,
                     uni_error, mode, received, repeated, fragments, arrived>>
  BY DEF PeerDeletes, ControlUnchanged, source_vars, stream_vars, consumer_vars
<1>2. ASSUME NEW s \in DOMAIN uni
      PROVE  \/ peer_uni'[s] = peer_uni[s] /\ peer_uni[s].receive_state = "closed"
             \/ peer_uni'[s] = NoPeer
  BY <1>1 DEF UniInv, StreamsOK
<1>3. StreamsOK'
  <2>1. ASSUME NEW s \in DOMAIN uni PROVE SenderOK(s)' /\ PeerOK(s)'
    <3>1. SenderOK(s) /\ PeerOK(s)
      BY DEF UniInv, StreamsOK
    <3>2. SenderOK(s)'
      BY <1>1, <3>1 DEF SenderOK, EndOf, Current, Carries
    <3>3. NoPeer \in PeerContext /\ NoPeer.receive_state = "none" /\ NoPeer.object = 0
          /\ NoPeer.offset = 0
      BY DEF NoPeer, NewPeer, PeerContext
    <3>4. PeerOK(s)'
      BY <1>1, <1>2, <3>1, <3>3 DEF PeerOK, Carries
    <3> QED
      BY <3>2, <3>4
  <2>2. \A s : WireMessage(s)' = WireMessage(s)
    BY <1>1 DEF WireMessage, HeaderMessage, DataMessage, Carries
  <2> QED
    BY <1>1, <2>1, <2>2 DEF UniInv, StreamsOK, OnUniStreams
<1>4. ControlOK'
  BY <1>1, <1>2 DEF ControlOK, NoPeer, NewPeer
<1>5. UniReceivedOK'
  <2>1. \A a, k : Filled(a, k)' <=> Filled(a, k)
    BY <1>1 DEF Filled, Complete
  <2>2. ASSUME NEW s \in DOMAIN uni
        PROVE  \/ PeerPlace(s)' = PeerPlace(s)
               \/ PeerPlace(s)'.phase = "open"
    BY <1>1, <1>2 DEF PeerPlace, NoPeer, NewPeer, AtOpening, Place
  <2>3. ASSUME OnUniStreams, NEW s \in DOMAIN uni, NEW k \in Key, Carries(s, k)
        PROVE  Filled(PeerPlace(s)', k)
    BY <2>2, <2>3 DEF UniInv, UniReceivedOK, Filled
  <2>4. \A s, k : Carries(s, k)' <=> Carries(s, k)
    BY <1>1 DEF Carries
  <2> QED
    BY <1>1, <2>1, <2>3, <2>4 DEF UniInv, UniReceivedOK, OnUniStreams
<1>6. QED
  BY <1>1, <1>3, <1>4, <1>5 DEF UniInv

----------------------------------------------------------------------------
(* The receiver: it is where the next message continues from, and goes     *)
(* where the message leads.                                                *)

LEMMA ChainRead ==
    ASSUME NEW S, NEW w \in Seq(S), w # <<>>
    PROVE  LET v == Tail(w)
           IN /\ v \in Seq(S) /\ Len(v) \in Nat /\ Len(w) = Len(v) + 1
              /\ Head(w) = w[1] /\ w[1] \in S
              /\ \A i \in 1..Len(v) : v[i] = w[i + 1]
              /\ v = <<>> => Len(w) = 1
              /\ v # <<>> => Len(v) > 0 /\ v[1] = w[2] /\ v[Len(v)] = w[Len(w)]
<1> DEFINE v == Tail(w)
<1>1. /\ v \in Seq(S) /\ Len(v) \in Nat /\ Len(w) = Len(v) + 1
      /\ Head(w) = w[1] /\ w[1] \in S
      /\ \A i \in 1..Len(v) : v[i] = w[i + 1]
  OBVIOUS
<1>2. v # <<>> => Len(v) > 0
  OBVIOUS
<1> HIDE DEF v
<1>3. v = <<>> => Len(w) = 1
  BY <1>1
<1>4. v # <<>> => v[1] = w[2] /\ v[Len(v)] = w[Len(w)]
  BY <1>1, <1>2
<1>5. QED
  BY <1>1, <1>2, <1>3, <1>4 DEF v

\* The messages on the wire, and what they carry.
LEMMA MessageShape ==
    ASSUME NEW s, NEW m \in WireMessage(s)
    PROVE  /\ m.type \in {"warp_header", "fin", "object_header", "data"}
           /\ m.type = "object_header" => m \in HeaderMessage(s)
           /\ m.type = "data" => m \in DataMessage(s)
  BY DEF WireMessage, HeaderMessage, DataMessage

\* Reading the message m takes stream s to where it leads.
Reads(s, m, p) ==
    /\ peer_uni' = [peer_uni EXCEPT ![s] = p]
    /\ wire' = [wire EXCEPT ![s] = Tail(@)]
    /\ UNCHANGED <<uni, next_warp_group, next_rush_object, control, peer_control, uni_error,
                   mode, fragments, arrived>>

LEMMA ReadsKeeps ==
    ASSUME UniInv, peer_control = "open", NEW s \in DOMAIN uni, wire[s] # <<>>,
           NEW m, m = Head(wire[s]), NEW p, Reads(s, m, p),
           After(s, m) = PeerPlace(s)', PeerOK(s)'
    PROVE  /\ StreamsOK' /\ ControlOK'
           /\ DOMAIN uni' = DOMAIN uni
           /\ \A t \in DOMAIN uni : t # s => PeerPlace(t)' = PeerPlace(t)
<1> DEFINE w == wire[s]
           v == wire'[s]
<1>1. UNCHANGED <<uni, next_warp_group, next_rush_object, control, peer_control, uni_error, mode>>
  BY DEF Reads
<1>2. /\ DOMAIN peer_uni' = DOMAIN uni /\ DOMAIN wire' = DOMAIN uni
      /\ v = Tail(w)
      /\ \A t \in DOMAIN uni : t # s => peer_uni'[t] = peer_uni[t] /\ wire'[t] = wire[t]
  BY DEF Reads, UniInv, StreamsOK
<1>3. w \in Seq(WireMessage(s))
  BY DEF UniInv, StreamsOK
<1>4. \A t : WireMessage(t)' = WireMessage(t) /\ SenderPlace(t)' = SenderPlace(t)
  BY <1>1 DEF WireMessage, HeaderMessage, DataMessage, Carries, SenderPlace
<1>5. \A t \in DOMAIN uni : t # s => PeerPlace(t)' = PeerPlace(t)
  BY <1>1, <1>2 DEF PeerPlace
<1>6. /\ v \in Seq(WireMessage(s)) /\ Len(v) \in Nat /\ Len(w) = Len(v) + 1
      /\ m = w[1]
      /\ \A i \in 1..Len(v) : v[i] = w[i + 1]
      /\ v = <<>> => Len(w) = 1
      /\ v # <<>> => Len(v) > 0 /\ v[1] = w[2] /\ v[Len(v)] = w[Len(w)]
  BY <1>2, <1>3, ChainRead
<1>7. StreamsOK'
  <2>1. ASSUME NEW t \in DOMAIN uni PROVE SenderOK(t)'
    <3>1. SenderOK(t)
      BY DEF UniInv, StreamsOK
    <3> QED
      BY <1>1, <3>1 DEF SenderOK, EndOf, Current, Carries
  <2>2. ASSUME NEW t \in DOMAIN uni, t # s PROVE PeerOK(t)'
    <3>1. PeerOK(t)
      BY DEF UniInv, StreamsOK
    <3> QED
      BY <1>1, <1>2, <2>2, <3>1 DEF PeerOK, Carries
  <2> QED
    BY <1>1, <1>2, <1>4, <1>6, <2>1, <2>2 DEF UniInv, StreamsOK, OnUniStreams
<1>8. ControlOK'
  <2>1. ~uni_error /\ \A t \in DOMAIN uni : InStep(t)
    BY DEF UniInv, ControlOK
  <2>2. \A t, a, n : (Continues(t, a, n) <=> Continues(t, a, n)') /\ After(t, n) = After(t, n)'
    BY <1>1 DEF Continues, After, EndOf
  <2>3. ASSUME NEW t \in DOMAIN uni, t # s PROVE InStep(t)'
    <3>1. wire'[t] = wire[t] /\ InStep(t)
      BY <1>2, <2>1, <2>3
    <3> QED
      BY <1>4, <1>5, <2>2, <2>3, <3>1 DEF InStep
  <2>4. InStep(s)'
    <3>1. /\ After(s, w[Len(w)]) = SenderPlace(s)
          /\ \A i \in 1..(Len(w) - 1) : Continues(s, After(s, w[i]), w[i + 1])
      BY <2>1 DEF InStep
    <3> HIDE DEF w, v
    <3>2. v = <<>> => After(s, m) = SenderPlace(s)
      BY <1>6, <3>1
    <3>3. v # <<>> => Continues(s, After(s, m), v[1]) /\ After(s, v[Len(v)]) = SenderPlace(s)
      BY <1>6, <3>1
    <3>4. ASSUME NEW i \in 1..(Len(v) - 1) PROVE Continues(s, After(s, v[i]), v[i + 1])
      <4>1. i \in 1..Len(v) /\ i + 1 \in 1..Len(v) /\ i + 1 \in 1..(Len(w) - 1)
        BY <1>6
      <4>2. v[i] = w[i + 1] /\ v[i + 1] = w[(i + 1) + 1]
        BY <1>6, <4>1
      <4> QED
        BY <3>1, <4>1, <4>2
    <3> QED
      BY <1>4, <2>2, <3>2, <3>3, <3>4 DEF InStep, v
  <2> QED
    BY <1>1, <2>1, <2>3, <2>4 DEF ControlOK
<1>9. QED
  BY <1>1, <1>5, <1>7, <1>8

\* What a step of the receiver may use while the control stream is open.
LEMMA ReceiverFacts ==
    ASSUME UniInv, peer_control = "open", NEW s \in DOMAIN uni, wire[s] # <<>>,
           NEW m, m = Head(wire[s])
    PROVE  /\ m \in WireMessage(s) /\ Continues(s, PeerPlace(s), m)
           /\ peer_uni[s] \in PeerContext /\ PeerOK(s) /\ DOMAIN peer_uni = DOMAIN uni
           /\ s \in Key /\ s = <<s[1], s[2]>> /\ s[1] \in Nat /\ s[2] \in Nat
           /\ mode \in {"warp", "rush"} /\ (mode = "warp" => s[2] = 0)
           /\ ~uni_error
<1>1. wire[s] \in Seq(WireMessage(s)) /\ PeerOK(s) /\ s \in Key /\ OnUniStreams
      /\ (mode = "warp" => s[2] = 0) /\ DOMAIN peer_uni = DOMAIN uni
  BY DEF UniInv, StreamsOK
<1>2. m = wire[s][1] /\ m \in WireMessage(s)
  BY <1>1, ChainRead
<1>3. InStep(s) /\ ~uni_error
  BY DEF UniInv, ControlOK
<1>4. QED
  BY <1>1, <1>2, <1>3, KeyShape DEF InStep, PeerOK, OnUniStreams

\* The place tells the state of the receiver.
LEMMA PlaceTells ==
    ASSUME NEW s, peer_uni[s] \in PeerContext
    PROVE  LET p == peer_uni[s]
               a == PeerPlace(s)
           IN /\ a.phase = "open" => p.receive_state \in {"none", "open"}
              /\ a.phase = "header" =>
                   \/ p.receive_state = "warp_header" /\ a.object = s[2]
                   \/ /\ p.receive_state = "object_header"
                      /\ a.object = IF mode = "rush" THEN s[2] + 1 ELSE p.object
              /\ a.phase = "data" =>
                   p.receive_state = "object_data" /\ a.object = p.object /\ a.offset = p.offset
              /\ a.phase = "closed" => p.receive_state = "closed"
  BY DEF PeerContext, PeerPlace, AtOpening, AtHeader, AtData, AtEnd, Place

\* The streams other than s, and what was passed on before, are as they were.
LEMMA NothingPassed ==
    ASSUME UniInv, NEW s \in DOMAIN uni,
           UNCHANGED <<mode, peer_control, received, repeated>>,
           DOMAIN uni' = DOMAIN uni,
           \A t \in DOMAIN uni : t # s => PeerPlace(t)' = PeerPlace(t),
           \A m \in received : Carries(s, m.key) /\ Past(PeerPlace(s), m) => Past(PeerPlace(s)', m),
           \A k \in Key : Carries(s, k) /\ Filled(PeerPlace(s), k) => Filled(PeerPlace(s)', k)
    PROVE  UniReceivedOK'
<1>1. \A a, k : Filled(a, k)' <=> Filled(a, k)
  BY DEF Filled, Complete
<1>2. \A t, k : Carries(t, k)' <=> Carries(t, k)
  BY DEF Carries
<1>3. OnUniStreams /\ UniReceivedOK
  BY DEF UniInv, StreamsOK
<1>4. ASSUME peer_control = "open", NEW m \in received
      PROVE  /\ \E t \in DOMAIN uni' : Carries(t, m.key)
             /\ \A t \in DOMAIN uni' : Carries(t, m.key) => Past(PeerPlace(t)', m)
  BY <1>3, <1>4 DEF UniReceivedOK
<1>5. ASSUME NEW t \in DOMAIN uni', NEW k \in Key, Carries(t, k)
      PROVE  Filled(PeerPlace(t)', k)
  BY <1>3, <1>5 DEF UniReceivedOK
<1>6. QED
  BY <1>1, <1>2, <1>3, <1>4, <1>5 DEF UniReceivedOK, OnUniStreams

\* A message x for object k is passed on.
LEMMA OnePassed ==
    ASSUME UniInv, peer_control = "open", NEW s \in DOMAIN uni,
           NEW k \in Key, Carries(s, k),
           NEW x \in MessageType, x.key = k, x.source = k, x.source_offset = x.offset,
           x.object_length = (IF x.data_length = 0 THEN 0 ELSE ObjectLength[k]),
           x.nb_previous = NbPrevious(k),
           Consume(x), \A n \in received : n.key = k /\ Past(PeerPlace(s), n) => ~Overlaps(x, n),
           UNCHANGED <<mode, peer_control>>, DOMAIN uni' = DOMAIN uni,
           \A t \in DOMAIN uni : t # s => PeerPlace(t)' = PeerPlace(t),
           Past(PeerPlace(s)', x),
           \A m \in received : Carries(s, m.key) /\ Past(PeerPlace(s), m) => Past(PeerPlace(s)', m),
           \A j \in Key : j # k /\ Carries(s, j) /\ Filled(PeerPlace(s), j) => Filled(PeerPlace(s)', j),
           Filled(PeerPlace(s), k) => Filled(PeerPlace(s), k)'
    PROVE  UniReceivedOK'
<1>1. OnUniStreams /\ UniReceivedOK
  BY DEF UniInv, StreamsOK
<1>2. \A t, j : Carries(t, j)' <=> Carries(t, j)
  BY DEF Carries
<1>3. received' = received \cup {x}
  BY DEF Consume
<1>4. \A m \in received : \A t \in DOMAIN uni : Carries(t, m.key) => Past(PeerPlace(t), m)
  BY <1>1 DEF UniReceivedOK
<1>5. ~repeated'
  <2>1. ASSUME NEW n \in received, Overlaps(x, n) PROVE FALSE
    <3>1. n.key = k
      BY <2>1 DEF Overlaps
    <3> QED
      BY <1>4, <2>1, <3>1
  <2> QED
    BY <1>1, <2>1 DEF Consume, UniReceivedOK
<1>6. \A a, j : j # k => (Filled(a, j)' <=> Filled(a, j))
  <2>1. ASSUME NEW a, NEW j, j # k PROVE Filled(a, j)' <=> Filled(a, j)
    <3>1. {m \in received' : m.key = j} = {m \in received : m.key = j}
      BY <1>3, <2>1
    <3>2. Complete(j)' <=> Complete(j)
      BY <3>1 DEF Complete
    <3> QED
      BY <3>1, <3>2 DEF Filled
  <2> QED
    BY <2>1
<1>7. ASSUME NEW m \in received'
      PROVE  /\ \E t \in DOMAIN uni' : Carries(t, m.key)
             /\ \A t \in DOMAIN uni' : Carries(t, m.key) => Past(PeerPlace(t)', m)
  <2>1. CASE m = x
    <3>1. \A t \in DOMAIN uni : Carries(t, k) => t = s
      BY OneCarrier DEF UniInv, StreamsOK
    <3> QED
      BY <2>1, <3>1
  <2>2. CASE m \in received
    BY <1>1, <1>4, <2>2 DEF UniReceivedOK
  <2> QED
    BY <1>3, <2>1, <2>2
<1>8. ASSUME NEW t \in DOMAIN uni', NEW j \in Key, Carries(t, j)
      PROVE  Filled(PeerPlace(t), j)'
  <2>1. Filled(PeerPlace(t), j)
    BY <1>1, <1>8 DEF UniReceivedOK
  <2>2. CASE j = k
    <3>1. t = s
      BY <1>8, <2>2, OneCarrier DEF UniInv, StreamsOK
    <3> QED
      BY <2>1, <2>2, <3>1
  <2>3. CASE j # k
    BY <1>6, <1>8, <2>1, <2>3
  <2> QED
    BY <2>2, <2>3
<1>9. \A m \in received' :
        /\ m \in MessageType /\ m.key \in Key
        /\ m.source = m.key /\ m.source_offset = m.offset
        /\ m.object_length = IF m.data_length = 0 THEN 0 ELSE ObjectLength[m.key]
        /\ m.nb_previous = NbPrevious(m.key)
  BY <1>1, <1>3 DEF UniReceivedOK
<1>10. QED
  BY <1>1, <1>2, <1>5, <1>7, <1>8, <1>9 DEF UniReceivedOK, OnUniStreams

\* The receiver's context for the message at the head of stream s.
PeerOf(s) == IF peer_uni[s].receive_state = "none" THEN NewPeer ELSE peer_uni[s]

\* The steps of the receiver but for what they do with the message.
Taken(s) ==
    /\ wire' = [wire EXCEPT ![s] = Tail(@)]
    /\ UNCHANGED <<uni, next_warp_group, next_rush_object, control, peer_control,
                   mode, fragments, arrived>>

LEMMA WarpHeaderRead ==
    ASSUME UniInv, peer_control = "open", NEW s \in DOMAIN uni, wire[s] # <<>>,
           NEW m, m = Head(wire[s]), m.type = "warp_header",
           Taken(s), ReceiveWarpHeader(s, PeerOf(s))
    PROVE  UniInv'
<1> DEFINE p == PeerOf(s)
           q == [p EXCEPT !.receive_state = "warp_header"]
<1>1. /\ m \in WireMessage(s) /\ Continues(s, PeerPlace(s), m)
      /\ peer_uni[s] \in PeerContext /\ PeerOK(s) /\ DOMAIN peer_uni = DOMAIN uni
      /\ s[2] \in Nat /\ mode \in {"warp", "rush"} /\ (mode = "warp" => s[2] = 0)
  BY ReceiverFacts
<1>2. PeerPlace(s) = AtOpening(s) /\ PeerPlace(s).phase = "open"
  <2>1. PeerPlace(s) = AtOpening(s)
    BY <1>1 DEF Continues
  <2> QED
    BY <2>1 DEF AtOpening, Place
<1>3. peer_uni[s].receive_state \in {"none", "open"}
  BY <1>1, <1>2, PlaceTells
<1>4. p \in PeerContext /\ p.receive_state = "open" /\ p.object = 0 /\ p.offset = 0
  <2>1. CASE peer_uni[s].receive_state = "none"
    BY <2>1 DEF PeerOf, NewPeer, PeerContext
  <2>2. CASE peer_uni[s].receive_state = "open"
    BY <1>1, <2>2 DEF PeerOf, PeerOK
  <2> QED
    BY <1>3, <2>1, <2>2
<1> HIDE DEF p
<1>5. Becomes(s, q)
  BY <1>4 DEF ReceiveWarpHeader, p
<1>6. /\ q \in PeerContext /\ q.receive_state = "warp_header" /\ q.object = 0 /\ q.offset = 0
  BY <1>4 DEF PeerContext
<1> HIDE DEF q
<1>7. Reads(s, m, q) /\ UNCHANGED <<received, repeated, mode, peer_control>> /\ peer_uni'[s] = q
  BY <1>1, <1>5 DEF Becomes, Taken, Reads, consumer_vars
<1>8. PeerPlace(s)' = AtHeader(s[2]) /\ After(s, m) = AtHeader(s[2])
  BY <1>6, <1>7 DEF PeerPlace, After
<1>9. PeerOK(s)'
  BY <1>6, <1>7 DEF PeerOK
<1>10. /\ StreamsOK' /\ ControlOK' /\ DOMAIN uni' = DOMAIN uni
       /\ \A t \in DOMAIN uni : t # s => PeerPlace(t)' = PeerPlace(t)
  BY <1>7, <1>8, <1>9, ReadsKeeps
<1>11. UniReceivedOK'
  <2>1. \A x \in received : ~Past(PeerPlace(s), x)
    BY <1>2 DEF Past
  <2>2. ASSUME NEW k \in Key, Carries(s, k) PROVE ~(k[2] < s[2])
    BY <1>1, <2>2, KeyShape DEF Carries
  <2>3. \A k \in Key : Carries(s, k) => Filled(PeerPlace(s)', k)
    BY <1>8, <2>2 DEF Filled, AtHeader, Place
  <2> QED
    BY <1>7, <1>10, <2>1, <2>3, NothingPassed
<1>12. QED
  BY <1>7, <1>10, <1>11 DEF UniInv, Reads

LEMMA ObjectHeaderRead ==
    ASSUME UniInv, peer_control = "open", NEW s \in DOMAIN uni, wire[s] # <<>>,
           NEW m, m = Head(wire[s]), m.type = "object_header",
           Taken(s), ReceiveObjectHeader(s, PeerOf(s), m)
    PROVE  UniInv'
<1> DEFINE p == peer_uni[s]
           k == <<s[1], m.object>>
           o == m.object
<1>1. /\ m \in WireMessage(s) /\ Continues(s, PeerPlace(s), m)
      /\ peer_uni[s] \in PeerContext /\ PeerOK(s) /\ DOMAIN peer_uni = DOMAIN uni
      /\ s = <<s[1], s[2]>> /\ s[1] \in Nat
      /\ s[2] \in Nat /\ mode \in {"warp", "rush"} /\ (mode = "warp" => s[2] = 0)
  BY ReceiverFacts
<1>2. /\ o \in Nat /\ k \in Key /\ Carries(s, k)
      /\ m.nb_previous = NbPrevious(k) /\ m.nb_previous \in Nat
      /\ m.length \in Nat /\ m.length \in {0, ObjectLength[k]}
  BY <1>1, MessageShape DEF HeaderMessage
<1>3. PeerPlace(s) = AtHeader(o) /\ PeerPlace(s).phase = "header" /\ PeerPlace(s).object = o
  <2>1. PeerPlace(s) = AtHeader(o)
    BY <1>1 DEF Continues
  <2> QED
    BY <2>1 DEF AtHeader, Place
<1>4. /\ p.receive_state \in {"warp_header", "object_header"} /\ PeerOf(s) = p
      /\ p.object = Predicted(m) /\ p.object \in Nat /\ p.offset = 0
      /\ mode = "warp" => p.object = o
      /\ mode = "rush" => o = s[2]
  <2>1. \/ p.receive_state = "warp_header" /\ o = s[2]
        \/ /\ p.receive_state = "object_header"
           /\ o = IF mode = "rush" THEN s[2] + 1 ELSE p.object
    BY <1>1, <1>3, PlaceTells
  <2>2. mode = "rush" => o = s[2]
    <3>1. mode = "rush" => k = s
      BY <1>2 DEF Carries
    <3> QED
      BY <1>1, <3>1
  <2>3. p.receive_state = "warp_header" => p.object = 0
    BY <1>1 DEF PeerOK
  <2>4. p.object = Predicted(m) /\ (mode = "warp" => p.object = o)
    BY <1>1, <2>1, <2>2, <2>3 DEF Predicted
  <2>5. p.object \in Nat /\ p.offset = 0
    BY <1>1, <2>1 DEF PeerContext, PeerOK
  <2>6. PeerOf(s) = p
    BY <2>1 DEF PeerOf
  <2> QED
    BY <2>1, <2>2, <2>4, <2>5, <2>6
<1>5. \A x \in received : Carries(s, x.key) => Past(PeerPlace(s), x) /\ x.key[2] < o
  <2>1. \A x \in received : Carries(s, x.key) => Past(PeerPlace(s), x)
    BY DEF UniInv, UniReceivedOK, StreamsOK
  <2> HIDE DEF o
  <2> QED
    BY <1>3, <2>1 DEF Past
<1>6. ASSUME NEW j \in Key, Carries(s, j), j[2] = o PROVE j = k
  BY <1>6, KeyShape DEF Carries
<1>7. CASE m.length > 0
  <2> DEFINE q == [receive_state |-> "object_data", object |-> m.object, offset |-> 0,
                   length |-> m.length, nb_previous |-> m.nb_previous]
  <2>1. Becomes(s, q)
    BY <1>4, <1>7 DEF ReceiveObjectHeader
  <2>2. /\ q \in PeerContext /\ q.receive_state = "object_data" /\ q.object = o
        /\ q.offset = 0 /\ q.length = m.length /\ q.nb_previous = m.nb_previous
    BY <1>2 DEF PeerContext
  <2> HIDE DEF q
  <2>3. Reads(s, m, q) /\ UNCHANGED <<received, repeated, mode, peer_control>> /\ peer_uni'[s] = q
    BY <1>1, <2>1 DEF Becomes, Taken, Reads, consumer_vars
  <2>4. PeerPlace(s)' = AtData(o, 0) /\ After(s, m) = AtData(o, 0)
    BY <1>7, <2>2, <2>3 DEF PeerPlace, After
  <2>5. PeerOK(s)'
    BY <1>2, <1>7, <2>2, <2>3 DEF PeerOK, Carries
  <2>6. /\ StreamsOK' /\ ControlOK' /\ DOMAIN uni' = DOMAIN uni
        /\ \A t \in DOMAIN uni : t # s => PeerPlace(t)' = PeerPlace(t)
    BY <2>3, <2>4, <2>5, ReadsKeeps
  <2>7. \A x \in received : Carries(s, x.key) => Past(AtData(o, 0), x)
    BY <1>5 DEF Past, AtData, Place
  <2>8. ASSUME NEW j \in Key, Carries(s, j), Filled(AtHeader(o), j)
        PROVE  Filled(AtData(o, 0), j)
    <3>1. j[2] = o => {x \in received : x.key = j} = {}
      <4>1. ASSUME NEW x \in received, x.key = j, j[2] = o PROVE FALSE
        BY <1>2, <1>5, <2>8, <4>1
      <4> QED
        BY <4>1
    <3>2. Bytes(0, 0) = {}
      BY DEF Bytes
    <3> QED
      BY <2>8, <3>1, <3>2 DEF Filled, AtHeader, AtData, Place
  <2>9. UniReceivedOK'
    BY <1>3, <2>3, <2>4, <2>6, <2>7, <2>8, NothingPassed
  <2> QED
    BY <2>3, <2>6, <2>9 DEF UniInv, Reads
<1>8. CASE m.length = 0
  <2> DEFINE q == [p EXCEPT !.receive_state = "object_header", !.object = @ + 1]
             x == PlaceHolder(k, m.nb_previous, k)
  <2>1. Passes(s, q, x)
    BY <1>4, <1>8 DEF ReceiveObjectHeader
  <2>2. /\ q \in PeerContext /\ q.receive_state = "object_header" /\ q.object = p.object + 1
        /\ q.offset = 0
    <3>1. q = [p EXCEPT !.receive_state = "object_header", !.object = p.object + 1]
      BY <1>1 DEF PeerContext
    <3>2. p.object + 1 \in Nat
      BY <1>4
    <3> QED
      BY <1>1, <1>4, <3>1, <3>2 DEF PeerContext
  <2>3. /\ x \in MessageType /\ x.key = k /\ x.source = k /\ x.source_offset = x.offset
        /\ x.object_length = 0 /\ x.data_length = 0 /\ x.nb_previous = NbPrevious(k)
    BY <1>1, <1>2 DEF PlaceHolder, Passed, MessageType
  <2> HIDE DEF q, x
  <2>4. Reads(s, m, q) /\ Consume(x) /\ UNCHANGED <<mode, peer_control>> /\ peer_uni'[s] = q
    BY <1>1, <2>1 DEF Passes, Taken, Reads
  <2>5. PeerPlace(s)' = AtHeader(o + 1) /\ After(s, m) = AtHeader(o + 1)
    BY <1>1, <1>4, <1>8, <2>2, <2>4 DEF PeerPlace, After
  <2>6. PeerOK(s)'
    BY <2>2, <2>4 DEF PeerOK
  <2>7. /\ StreamsOK' /\ ControlOK' /\ DOMAIN uni' = DOMAIN uni
        /\ \A t \in DOMAIN uni : t # s => PeerPlace(t)' = PeerPlace(t)
    BY <2>4, <2>5, <2>6, ReadsKeeps
  <2>8. \A n \in received : n.key # k
    BY <1>2, <1>5
  <2>9. \A n \in received : Carries(s, n.key) => Past(AtHeader(o + 1), n)
    <3>1. \A n \in received : n.key \in Key
      BY DEF UniInv, UniReceivedOK, StreamsOK
    <3>2. \A n \in received : n.key[2] \in Nat
      BY <3>1, KeyShape
    <3> QED
      BY <1>2, <1>5, <3>2 DEF Past, AtHeader, Place
  <2>10. Past(AtHeader(o + 1), x)
    BY <1>2, <2>3 DEF Past, AtHeader, Place
  <2>11. ASSUME NEW j \in Key, j # k, Carries(s, j), Filled(AtHeader(o), j)
         PROVE  Filled(AtHeader(o + 1), j)
    <3>1. j[2] \in Nat /\ j[2] # o
      BY <1>6, <2>11, KeyShape
    <3> QED
      BY <1>2, <2>11, <3>1 DEF Filled, AtHeader, Place
  <2>12. Filled(PeerPlace(s), k)'
    <3>1. x \in received'
      BY <2>4 DEF Consume
    <3>2. Complete(k)'
      BY <2>3, <3>1 DEF Complete
    <3> QED
      BY <2>5, <3>2 DEF Filled, AtHeader, Place
  <2>13. UniReceivedOK'
    BY <1>2, <1>3, <2>3, <2>4, <2>5, <2>7, <2>8, <2>9, <2>10, <2>11, <2>12, OnePassed
  <2> QED
    BY <2>4, <2>7, <2>13 DEF UniInv, Reads
<1>9. QED
  BY <1>2, <1>7, <1>8

LEMMA BytesJoin ==
    ASSUME NEW a \in Nat, NEW n \in Nat
    PROVE  Bytes(0, a) \cup Bytes(a, n) = Bytes(0, a + n)
  BY DEF Bytes

LEMMA ObjectDataRead ==
    ASSUME UniInv, peer_control = "open", NEW s \in DOMAIN uni, wire[s] # <<>>,
           NEW m, m = Head(wire[s]), m.type = "data",
           Taken(s), ReceiveObjectData(s, PeerOf(s), m)
    PROVE  UniInv'
<1> DEFINE p == peer_uni[s]
           k == m.source
           o == k[2]
           off == m.offset
           end == p.offset + m.length
           q == IF end < p.length THEN [p EXCEPT !.offset = end]
                ELSE [p EXCEPT !.receive_state = "object_header", !.object = @ + 1, !.offset = 0]
           x == Passed(<<s[1], p.object>>, p.offset, p.nb_previous, m.source, m.offset,
                       p.length, m.length)
<1>1. /\ m \in WireMessage(s) /\ Continues(s, PeerPlace(s), m)
      /\ p \in PeerContext /\ PeerOK(s) /\ DOMAIN peer_uni = DOMAIN uni
      /\ s = <<s[1], s[2]>> /\ s[1] \in Nat
      /\ s[2] \in Nat /\ mode \in {"warp", "rush"} /\ (mode = "warp" => s[2] = 0)
  BY ReceiverFacts
<1>2. /\ k \in Key /\ Carries(s, k) /\ off \in Nat /\ m.length \in Nat \ {0}
      /\ off + m.length <= ObjectLength[k]
  BY <1>1, MessageShape DEF DataMessage
<1>3. /\ k = <<k[1], k[2]>> /\ k[1] = s[1] /\ o \in Nat /\ ObjectLength[k] \in Nat
      /\ (mode = "rush" => o = s[2])
  BY <1>2, KeyShape, LengthShape DEF Carries
<1>4. PeerPlace(s) = AtData(o, off) /\ PeerPlace(s).phase = "data"
      /\ PeerPlace(s).object = o /\ PeerPlace(s).offset = off
  <2>1. PeerPlace(s) = AtData(o, off)
    BY <1>1 DEF Continues
  <2> QED
    BY <2>1 DEF AtData, Place
<1>5. /\ p.receive_state = "object_data" /\ p.object = o /\ p.offset = off
      /\ p.length = ObjectLength[k] /\ p.nb_previous = NbPrevious(k) /\ <<s[1], p.object>> = k
      /\ PeerOf(s) = p
  <2>1. p.receive_state = "object_data" /\ p.object = o /\ p.offset = off
    BY <1>1, <1>4, PlaceTells
  <2>2. <<s[1], p.object>> = k
    BY <1>3, <2>1
  <2> QED
    BY <1>1, <2>1, <2>2 DEF PeerOK, PeerOf
<1>6. Passes(s, q, x)
  BY <1>5 DEF ReceiveObjectData
<1>7. /\ x \in MessageType /\ x.key = k /\ x.source = k /\ x.source_offset = x.offset
      /\ x.offset = off /\ x.data_length = m.length /\ x.object_length = ObjectLength[k]
      /\ x.nb_previous = NbPrevious(k)
  <2>1. k \in Nat \X Nat /\ NbPrevious(k) \in Nat
    BY <1>2, KeyShape, LengthShape
  <2> QED
    BY <1>2, <1>3, <1>5, <2>1 DEF Passed, MessageType
<1>8. /\ q \in PeerContext
      /\ end < ObjectLength[k] => /\ q.receive_state = "object_data" /\ q.offset = end
                                  /\ q.object = o /\ q.length = p.length
                                  /\ q.nb_previous = p.nb_previous
      /\ ~(end < ObjectLength[k]) => /\ q.receive_state = "object_header" /\ q.object = o + 1
                                     /\ q.offset = 0
  <2>1. CASE end < p.length
    <3>1. q = [p EXCEPT !.offset = end] /\ end \in Nat
      BY <1>2, <1>5, <2>1
    <3> HIDE DEF q, end
    <3> QED
      BY <1>1, <1>5, <2>1, <3>1 DEF PeerContext
  <2>2. CASE ~(end < p.length)
    <3>1. q = [p EXCEPT !.receive_state = "object_header", !.object = o + 1, !.offset = 0]
      BY <1>1, <1>5, <2>2 DEF PeerContext
    <3>2. o + 1 \in Nat
      BY <1>3
    <3> HIDE DEF q, end
    <3> QED
      BY <1>1, <1>5, <2>2, <3>1, <3>2 DEF PeerContext
  <2> QED
    BY <2>1, <2>2
<1>9. end = off + m.length /\ end \in Nat
  BY <1>2, <1>5
<1> HIDE DEF q, x, end
<1>10. Reads(s, m, q) /\ Consume(x) /\ UNCHANGED <<mode, peer_control>> /\ peer_uni'[s] = q
  BY <1>1, <1>6 DEF Passes, Taken, Reads
<1> DEFINE b == IF end < ObjectLength[k] THEN AtData(o, end) ELSE AtHeader(o + 1)
<1>11. PeerPlace(s)' = b /\ After(s, m) = b
  <2>1. After(s, m) = b
    BY <1>9 DEF After
  <2>2. PeerPlace(s)' = b
    BY <1>1, <1>3, <1>8, <1>10 DEF PeerPlace
  <2> QED
    BY <2>1, <2>2
<1>12. PeerOK(s)'
  <2>1. CASE end < ObjectLength[k]
    BY <1>2, <1>3, <1>5, <1>8, <1>10, <2>1 DEF PeerOK, Carries
  <2>2. CASE ~(end < ObjectLength[k])
    BY <1>8, <1>10, <2>2 DEF PeerOK
  <2> QED
    BY <2>1, <2>2
<1>13. /\ StreamsOK' /\ ControlOK' /\ DOMAIN uni' = DOMAIN uni
       /\ \A t \in DOMAIN uni : t # s => PeerPlace(t)' = PeerPlace(t)
  BY <1>10, <1>11, <1>12, ReadsKeeps
<1>14. \A n \in received : n.key \in Key /\ n.key[2] \in Nat /\ n \in MessageType
  <2>1. \A n \in received : n.key \in Key /\ n \in MessageType
    BY DEF UniInv, UniReceivedOK, StreamsOK
  <2> QED
    BY <2>1, KeyShape
<1>15. ASSUME NEW n \in received, n.key = k, Past(PeerPlace(s), n)
       PROVE  ~Overlaps(x, n)
  <2>1. n.data_length > 0 /\ n.offset + n.data_length <= off
    BY <1>3, <1>4, <1>15 DEF Past
  <2>2. n.data_length \in Nat /\ n.offset \in Nat
    BY <1>14 DEF MessageType
  <2>3. Bytes(x.offset, x.data_length) \cap Bytes(n.offset, n.data_length) = {}
    BY <1>2, <1>7, <2>1, <2>2 DEF Bytes
  <2> QED
    BY <1>2, <1>7, <2>1, <2>2, <2>3 DEF Overlaps
<1>16. Past(b, x)
  BY <1>2, <1>3, <1>7, <1>9 DEF Past, AtData, AtHeader, Place
<1>17. ASSUME NEW n \in received, Carries(s, n.key), Past(PeerPlace(s), n)
       PROVE  Past(b, n)
  <2>1. n.data_length \in Nat /\ n.offset \in Nat /\ n.key[2] \in Nat
    BY <1>14 DEF MessageType
  <2>2. \/ n.key[2] < o
        \/ n.key[2] = o /\ n.data_length > 0 /\ n.offset + n.data_length <= off
    BY <1>4, <1>17 DEF Past
  <2>3. CASE end < ObjectLength[k]
    <3>1. b.phase = "data" /\ b.object = o /\ b.offset = end
      BY <2>3 DEF AtData, Place
    <3>2. off <= end
      BY <1>2, <1>9
    <3>3. n.offset + n.data_length <= off => n.offset + n.data_length <= end
      BY <1>2, <1>9, <2>1, <3>2
    <3> HIDE DEF b
    <3> QED
      BY <2>2, <3>1, <3>3 DEF Past
  <2>4. CASE ~(end < ObjectLength[k])
    BY <1>3, <2>1, <2>2, <2>4 DEF Past, AtHeader, Place
  <2> QED
    BY <2>3, <2>4
<1>18. ASSUME NEW j \in Key, j # k, Carries(s, j), Filled(PeerPlace(s), j)
       PROVE  Filled(b, j)
  <2>1. j[2] \in Nat /\ j[2] # o
    BY <1>3, <1>18, KeyShape DEF Carries
  <2>2. j[2] < o => Complete(j)
    BY <1>4, <1>18 DEF Filled
  <2> QED
    BY <1>3, <2>1, <2>2 DEF Filled, AtData, AtHeader, Place
<1>19. ASSUME Filled(PeerPlace(s), k) PROVE Filled(PeerPlace(s), k)'
  <2> DEFINE Held(R) == UNION {Bytes(n.offset, n.data_length) : n \in {i \in R : i.key = k}}
  <2>1. Held(received) = Bytes(0, off)
    BY <1>4, <1>19 DEF Filled
  <2>2. received' = received \cup {x}
    BY <1>10 DEF Consume
  <2>3. Held(received') = Held(received) \cup Bytes(x.offset, x.data_length)
    BY <1>7, <2>2
  <2>4. Held(received') = Bytes(0, end)
    <3>1. Bytes(0, off) \cup Bytes(off, m.length) = Bytes(0, off + m.length)
      BY <1>2, BytesJoin
    <3> HIDE DEF Held
    <3> QED
      BY <1>7, <1>9, <2>1, <2>3, <3>1
  <2>5. CASE end < ObjectLength[k]
    <3>1. PeerPlace(s)' = AtData(o, end)
      BY <1>11, <2>5
    <3> QED
      BY <1>3, <2>4, <3>1 DEF Filled, AtData, Place
  <2>6. CASE ~(end < ObjectLength[k])
    <3>1. PeerPlace(s)' = AtHeader(o + 1)
      BY <1>11, <2>6
    <3>2. end = ObjectLength[k]
      BY <1>2, <1>3, <1>9, <2>6
    <3>3. {n \in received' : n.key = k} # {}
      BY <1>7, <2>2
    <3>4. Complete(k)'
      BY <2>4, <3>2, <3>3 DEF Complete
    <3> QED
      BY <3>1, <3>4 DEF Filled, AtHeader, Place
  <2> QED
    BY <2>5, <2>6
<1>20. UniReceivedOK'
  <2>1. x.object_length = IF x.data_length = 0 THEN 0 ELSE ObjectLength[k]
    BY <1>2, <1>7
  <2> HIDE DEF b, k
  <2> QED
    BY <1>2, <1>7, <1>10, <1>11, <1>13, <1>15, <1>16, <1>17, <1>18, <1>19, <2>1, OnePassed
<1>21. QED
  BY <1>10, <1>13, <1>20 DEF UniInv, Reads

LEMMA StreamFinRead ==
    ASSUME UniInv, peer_control = "open", NEW s \in DOMAIN uni, wire[s] # <<>>,
           NEW m, m = Head(wire[s]), m.type = "fin",
           Taken(s), ReceiveStreamFin(s, PeerOf(s))
    PROVE  UniInv'
<1> DEFINE p == peer_uni[s]
           q == [p EXCEPT !.receive_state = "closed"]
           a == PeerPlace(s)
<1>1. /\ m \in WireMessage(s) /\ Continues(s, PeerPlace(s), m)
      /\ p \in PeerContext /\ PeerOK(s) /\ DOMAIN peer_uni = DOMAIN uni
      /\ s \in Key /\ mode \in {"warp", "rush"}
  BY ReceiverFacts
<1>2. a.phase = "header" /\ a.object >= EndOf(s)
  BY <1>1 DEF Continues
<1>3. p.receive_state \in {"warp_header", "object_header"} /\ PeerOf(s) = p /\ p.offset = 0
  <2>1. p.receive_state \in {"warp_header", "object_header"}
    BY <1>1, <1>2, PlaceTells
  <2> QED
    BY <1>1, <2>1 DEF PeerOf, PeerOK
<1>4. Becomes(s, q)
  BY <1>3 DEF ReceiveStreamFin
<1>5. q \in PeerContext /\ q.receive_state = "closed" /\ q.offset = 0
  BY <1>1, <1>3 DEF PeerContext
<1> HIDE DEF q
<1>6. Reads(s, m, q) /\ UNCHANGED <<received, repeated, mode, peer_control>> /\ peer_uni'[s] = q
  BY <1>1, <1>4 DEF Becomes, Taken, Reads, consumer_vars
<1>7. PeerPlace(s)' = AtEnd /\ After(s, m) = AtEnd
  BY <1>5, <1>6 DEF PeerPlace, After
<1>8. wire'[s] = <<>> /\ uni'[s].send_state = "closed"
  <2> DEFINE w == wire[s]
  <2>1. w \in Seq(WireMessage(s)) /\ InStep(s) /\ DOMAIN wire = DOMAIN uni /\ SenderOK(s)
    BY DEF UniInv, StreamsOK, ControlOK
  <2>2. /\ Tail(w) \in Seq(WireMessage(s)) /\ Len(Tail(w)) \in Nat /\ Len(w) = Len(Tail(w)) + 1
        /\ m = w[1] /\ (Tail(w) = <<>> => Len(w) = 1)
        /\ (Tail(w) # <<>> => Len(Tail(w)) > 0)
    BY <2>1, ChainRead
  <2>3. Tail(w) = <<>>
    <3> SUFFICES ASSUME Tail(w) # <<>> PROVE FALSE
      OBVIOUS
    <3>1. 1 \in 1..(Len(w) - 1) /\ 2 \in DOMAIN w
      BY <2>1, <2>2
    <3>2. Continues(s, AtEnd, w[2]) /\ w[2] \in WireMessage(s)
      BY <1>7, <2>1, <2>2, <3>1 DEF InStep
    <3>3. AtEnd.phase = "closed"
      BY DEF AtEnd, Place
    <3>4. w[2].type \in {"warp_header", "fin", "object_header", "data"}
      BY <3>2, MessageShape
    <3>5. w[2].type # "fin"
      BY <3>2, <3>3 DEF Continues
    <3>6. \/ AtEnd = AtOpening(s) \/ AtEnd = AtHeader(w[2].object)
          \/ AtEnd = AtData(w[2].source[2], w[2].offset)
      BY <3>2, <3>4, <3>5 DEF Continues
    <3> QED
      BY <3>3, <3>6 DEF AtOpening, AtHeader, AtData, Place
  <2>4. SenderPlace(s) = AtEnd
    BY <1>7, <2>1, <2>2, <2>3 DEF InStep
  <2>5. uni[s].send_state = "closed"
    BY <2>1, <2>4 DEF SenderPlace, SenderOK, UniContext, AtOpening, AtHeader, AtData, AtEnd, Place
  <2>6. wire'[s] = Tail(w) /\ uni' = uni
    BY <2>1 DEF Taken
  <2> QED
    BY <2>3, <2>5, <2>6
<1>9. PeerOK(s)'
  BY <1>5, <1>6, <1>8 DEF PeerOK
<1>10. /\ StreamsOK' /\ ControlOK' /\ DOMAIN uni' = DOMAIN uni
       /\ \A t \in DOMAIN uni : t # s => PeerPlace(t)' = PeerPlace(t)
  BY <1>6, <1>7, <1>9, ReadsKeeps
<1>11. UniReceivedOK'
  <2>1. \A x \in received : Past(AtEnd, x)
    BY DEF Past, AtEnd, Place
  <2>2. ASSUME NEW k \in Key, Carries(s, k), Filled(a, k) PROVE Filled(AtEnd, k)
    <3>1. k[2] < EndOf(s) /\ k[2] \in Nat /\ EndOf(s) \in Nat
      BY <1>1, <2>2, KeyShape, EndShape DEF Carries, EndOf
    <3>2. a.object \in Nat
      BY <1>1, <1>2, PlaceTells, KeyShape DEF PeerContext
    <3>3. Complete(k)
      BY <1>2, <2>2, <3>1, <3>2 DEF Filled
    <3> QED
      BY <3>3 DEF Filled, AtEnd, Place
  <2> QED
    BY <1>6, <1>7, <1>10, <2>1, <2>2, NothingPassed
<1>12. QED
  BY <1>6, <1>10, <1>11 DEF UniInv, Reads

\* On streams that outlive the control stream nothing is passed on.
LEMMA OutlivedRead ==
    ASSUME UniInv, peer_control = "deleted", NEW s, ReceiveOnUniStream(s)
    PROVE  UniInv'
<1> DEFINE m == Head(wire[s])
           p == PeerOf(s)
<1>1. /\ s \in DOMAIN wire /\ wire[s] # <<>> /\ Taken(s)
      /\ CASE m.type = "warp_header" -> ReceiveWarpHeader(s, p)
           [] m.type = "object_header" -> ReceiveObjectHeader(s, p, m)
           [] m.type = "data" -> ReceiveObjectData(s, p, m)
           [] m.type = "fin" -> ReceiveStreamFin(s, p)
  BY DEF ReceiveOnUniStream, PeerOf, Taken, source_vars, stream_vars
<1>2. /\ s \in DOMAIN uni /\ PeerOK(s) /\ wire[s] \in Seq(WireMessage(s))
      /\ DOMAIN peer_uni = DOMAIN uni /\ DOMAIN wire = DOMAIN uni
  BY <1>1 DEF UniInv, StreamsOK
<1>3. peer_uni[s].receive_state \in {"none", "open"}
  BY <1>1, <1>2 DEF UniInv, ControlOK, PeerOK
<1>4. p \in PeerContext /\ p.receive_state = "open" /\ p.object = 0 /\ p.offset = 0
  <2>1. CASE peer_uni[s].receive_state = "none"
    BY <2>1 DEF PeerOf, NewPeer, PeerContext
  <2>2. CASE peer_uni[s].receive_state = "open"
    BY <1>2, <2>2 DEF PeerOf, PeerOK
  <2> QED
    BY <1>3, <2>1, <2>2
<1>5. m.type \in {"warp_header", "fin", "object_header", "data"}
  <2>1. m \in WireMessage(s)
    BY <1>1, <1>2, ChainRead
  <2> QED
    BY <2>1, MessageShape
<1>6. /\ UNCHANGED <<received, repeated>>
      /\ peer_uni' \in {peer_uni, [peer_uni EXCEPT ![s] = p]}
  <2> HIDE DEF p, m
  <2>1. Fails \/ Becomes(s, p)
    <3>1. CASE m.type = "warp_header"
      BY <1>1, <3>1 DEF ReceiveWarpHeader
    <3>2. CASE m.type = "object_header"
      BY <1>1, <1>4, <3>2 DEF ReceiveObjectHeader
    <3>3. CASE m.type = "data"
      BY <1>1, <1>4, <3>3 DEF ReceiveObjectData
    <3>4. CASE m.type = "fin"
      BY <1>1, <1>4, <3>4 DEF ReceiveStreamFin
    <3> QED
      BY <1>5, <3>1, <3>2, <3>3, <3>4
  <2> QED
    BY <2>1 DEF Fails, Becomes, consumer_vars
<1> HIDE DEF p
<1>7. /\ DOMAIN peer_uni' = DOMAIN uni /\ DOMAIN wire' = DOMAIN uni /\ uni' = uni
      /\ wire'[s] = Tail(wire[s])
      /\ \A t \in DOMAIN uni : t # s => peer_uni'[t] = peer_uni[t] /\ wire'[t] = wire[t]
      /\ peer_uni'[s] \in {peer_uni[s], p}
      /\ UNCHANGED <<mode, control, peer_control, next_warp_group, next_rush_object,
                     fragments, arrived>>
  BY <1>1, <1>2, <1>6 DEF Taken
<1>8. Tail(wire[s]) \in Seq(WireMessage(s))
  BY <1>1, <1>2, ChainRead
<1>9. \A t \in DOMAIN uni : PeerPlace(t)' = PeerPlace(t)
  BY <1>3, <1>4, <1>7 DEF PeerPlace
<1>10. StreamsOK'
  <2>1. ASSUME NEW t \in DOMAIN uni PROVE SenderOK(t)'
    <3>1. SenderOK(t)
      BY DEF UniInv, StreamsOK
    <3> QED
      BY <1>7, <3>1 DEF SenderOK, EndOf, Current, Carries
  <2>2. ASSUME NEW t \in DOMAIN uni PROVE PeerOK(t)'
    <3>1. PeerOK(t)
      BY DEF UniInv, StreamsOK
    <3>2. CASE t # s
      BY <1>7, <3>1, <3>2 DEF PeerOK, Carries
    <3>3. CASE t = s
      BY <1>3, <1>4, <1>7, <3>1, <3>3 DEF PeerOK
    <3> QED
      BY <3>2, <3>3
  <2>3. \A t : WireMessage(t)' = WireMessage(t)
    BY <1>7 DEF WireMessage, HeaderMessage, DataMessage, Carries
  <2> QED
    BY <1>7, <1>8, <2>1, <2>2, <2>3 DEF UniInv, StreamsOK, OnUniStreams
<1>11. ControlOK'
  BY <1>3, <1>4, <1>7 DEF UniInv, ControlOK
<1>12. UniReceivedOK'
  BY <1>6, <1>7, <1>9, ReceivedKept DEF UniInv
<1>13. QED
  BY <1>7, <1>10, <1>11, <1>12 DEF UniInv

LEMMA ReceiveOnUniStreamKeeps ==
    ASSUME UniInv, NEW s, ReceiveOnUniStream(s)
    PROVE  UniInv'
<1>1. CASE peer_control = "deleted"
  BY <1>1, OutlivedRead
<1>2. CASE peer_control = "open"
  <2>1. PICK m : m = Head(wire[s])
    OBVIOUS
  <2>2. /\ s \in DOMAIN wire /\ wire[s] # <<>> /\ Taken(s)
        /\ CASE m.type = "warp_header" -> ReceiveWarpHeader(s, PeerOf(s))
             [] m.type = "object_header" -> ReceiveObjectHeader(s, PeerOf(s), m)
             [] m.type = "data" -> ReceiveObjectData(s, PeerOf(s), m)
             [] m.type = "fin" -> ReceiveStreamFin(s, PeerOf(s))
    BY <2>1 DEF ReceiveOnUniStream, PeerOf, Taken, source_vars, stream_vars
  <2>3. s \in DOMAIN uni
    BY <2>2 DEF UniInv, StreamsOK
  <2>4. m.type \in {"warp_header", "fin", "object_header", "data"}
    BY <1>2, <2>1, <2>2, <2>3, ReceiverFacts, MessageShape
  <2>5. CASE m.type = "warp_header"
    BY <1>2, <2>1, <2>2, <2>3, <2>5, WarpHeaderRead
  <2>6. CASE m.type = "object_header"
    BY <1>2, <2>1, <2>2, <2>3, <2>6, ObjectHeaderRead
  <2>7. CASE m.type = "data"
    BY <1>2, <2>1, <2>2, <2>3, <2>7, ObjectDataRead
  <2>8. CASE m.type = "fin"
    BY <1>2, <2>1, <2>2, <2>3, <2>8, StreamFinRead
  <2> QED
    BY <2>4, <2>5, <2>6, <2>7, <2>8
<1>3. QED
  BY <1>1, <1>2 DEF UniInv, ControlOK

----------------------------------------------------------------------------
(* The whole.                                                              *)

\* In the other modes there is no stream.
LEMMA OtherModeKeeps ==
    ASSUME UniInv, ~OnUniStreams, fragments' \subseteq Fragment, arrived' \subseteq Fragment,
           UNCHANGED <<mode, uni, next_warp_group, next_rush_object, wire, peer_uni,
                       control, peer_control, uni_error>>
    PROVE  UniInv'
<1>1. DOMAIN uni = {} /\ DOMAIN uni' = {} /\ ~OnUniStreams'
  BY DEF UniInv, StreamsOK, OnUniStreams
<1>2. StreamsOK'
  BY <1>1 DEF UniInv, StreamsOK
<1>3. ControlOK'
  BY <1>1 DEF UniInv, ControlOK
<1>4. UniReceivedOK'
  BY <1>1 DEF UniReceivedOK
<1>5. mode' # "rush"
  BY <1>1 DEF OnUniStreams
<1>6. QED
  BY <1>2, <1>3, <1>4, <1>5 DEF UniInv

\* A step that leaves the streams alone.
LEMMA StillKeeps ==
    ASSUME UniInv, fragments' \subseteq Fragment, arrived \subseteq arrived', arrived' \subseteq Fragment,
           UNCHANGED <<mode, uni, next_warp_group, next_rush_object, wire, peer_uni,
                       control, peer_control, uni_error, received, repeated>>
    PROVE  UniInv'
<1>1. ASSUME NEW s \in DOMAIN uni
      PROVE  /\ uni[s] \in UniContext /\ uni[s].last \in {0, EndOf(s)}
             /\ (mode = "rush" => uni[s].last # 0)
  BY DEF UniInv, StreamsOK, SenderOK
<1>2. QED
  BY <1>1, QuietKeeps

\* The source wakes the reader up.
LEMMA WakeUpKeeps ==
    ASSUME UniInv, WakeUp, arrived \subseteq arrived', arrived' \subseteq Fragment,
           fragments' \subseteq Fragment, UNCHANGED <<mode, received, repeated>>
    PROVE  UniInv'
<1>1. CASE UNCHANGED uni_vars
  BY <1>1, StillKeeps DEF uni_vars
<1>2. CASE OnUniStreams /\ UniWakeUp
  BY <1>2, UniWakeKeeps
<1>3. QED
  BY <1>1, <1>2 DEF WakeUp

LEMMA UniStreamStepKeeps ==
    ASSUME UniInv, NEW s, UniStreamStep(s)
    PROVE  UniInv'
<1>1. CASE SendWarpHeader(s)
  BY <1>1, SendWarpHeaderKeeps
<1>2. CASE \E skip \in BOOLEAN : SendObjectHeader(s, skip)
  BY <1>2, SendObjectHeaderKeeps
<1>3. CASE \E n \in 1..Max({f.data_length : f \in Fragment}) : SendObjectData(s, n)
  BY <1>3, SendObjectDataKeeps
<1>4. CASE SendStreamFin(s)
  BY <1>4, SendStreamFinKeeps
<1>5. CASE UniStreamIdle(s)
  BY <1>5, UniStreamIdleKeeps
<1>6. CASE ReceiveOnUniStream(s)
  BY <1>6, ReceiveOnUniStreamKeeps
<1>7. QED
  BY <1>1, <1>2, <1>3, <1>4, <1>5, <1>6 DEF UniStreamStep

\* A step of the single stream leaves the source alone.
LEMMA StreamStepFrame ==
    ASSUME StreamPublisherNext
    PROVE  /\ mode = "single_stream"
           /\ UNCHANGED <<source_vars, mode, congestion, intent_point, start_point>>
<1>1. CASE SendStartPoint \/ SendCachePolicy
  BY <1>1 DEF SendStartPoint, SendCachePolicy, SendPreamble
<1>2. CASE SkipObject \/ \E n \in 0..Max({f.data_length : f \in Fragment}) : SendFragment(n)
  BY <1>2 DEF SkipObject, SendFragment, SendMessage, Prepares, stream_vars
<1>3. CASE SendNothing \/ ProbeReady
  BY <1>3 DEF SendNothing, ProbeReady, Prepares, stream_vars
<1>4. QED
  BY <1>1, <1>2, <1>3 DEF StreamPublisherNext

LEMMA UniInvInitially ==
    ASSUME TransportInit
    PROVE  UniInv
<1>1. /\ fragments = {} /\ arrived = {} /\ mode \in TransportMode /\ received = {} /\ repeated = FALSE
  BY SourceAssumption DEF TransportInit, SourceInit
<1>2. /\ uni = <<>> /\ wire = <<>> /\ peer_uni = <<>> /\ next_warp_group = 0
      /\ next_rush_object = 0 /\ control = "open" /\ peer_control = "open" /\ uni_error = FALSE
  BY DEF TransportInit, UniInit
<1>3. DOMAIN uni = {} /\ DOMAIN wire = {} /\ DOMAIN peer_uni = {}
  BY <1>2
<1>4. StreamsOK /\ ControlOK
  BY <1>2, <1>3 DEF StreamsOK, ControlOK
<1>5. UniReceivedOK
  BY <1>1, <1>3 DEF UniReceivedOK
<1>6. Highest(arrived)[1] \in Nat
  BY <1>1, HighestShape, KeyShape
<1>7. QED
  BY <1>1, <1>2, <1>4, <1>5, <1>6 DEF UniInv

LEMMA UniInvStep ==
    ASSUME UniInv, [TransportNext]_vars
    PROVE  UniInv'
<1>1. fragments \subseteq Fragment /\ arrived \subseteq Fragment
  BY DEF UniInv
<1>2. ASSUME NEW f \in Fragment, Arrive(f) PROVE UniInv'
  <2>1. /\ WakeUp /\ arrived' = arrived \cup {f} /\ fragments' = fragments \cup {f}
        /\ UNCHANGED <<mode, received, repeated>>
    BY <1>2 DEF Arrive, AddToCache, WakeStream, consumer_vars
  <2> QED
    BY <1>1, <2>1, WakeUpKeeps
<1>3. CASE LearnEnd
  <2>1. WakeUp /\ UNCHANGED <<arrived, fragments, mode, received, repeated>>
    BY <1>3 DEF LearnEnd, LearnEndPoint, WakeStream, consumer_vars
  <2> QED
    BY <1>1, <2>1, WakeUpKeeps
<1>4. ASSUME NEW i, Subscribe(i) PROVE UniInv'
  BY <1>1, <1>4, StillKeeps DEF Subscribe, Request, source_vars, consumer_vars, uni_vars
<1>5. CASE StreamPublisherNext /\ UNCHANGED <<datagram_vars, uni_vars>>
  <2>1. mode = "single_stream" /\ UNCHANGED <<source_vars, mode>>
    BY <1>5, StreamStepFrame
  <2> QED
    BY <1>1, <1>5, <2>1, OtherModeKeeps DEF OnUniStreams, source_vars, uni_vars
<1>6. CASE DatagramPublisherNext /\ UNCHANGED <<publisher_vars, uni_vars>>
  <2>1. mode = "datagram" /\ UNCHANGED <<source_vars, mode>>
    BY <1>6 DEF DatagramPublisherNext, SendDatagram, DatagramIdle, Sending, stream_vars
  <2> QED
    BY <1>1, <1>6, <2>1, OtherModeKeeps DEF OnUniStreams, source_vars, uni_vars
<1>7. CASE \E s \in DOMAIN uni : UniStreamStep(s) /\ UNCHANGED <<publisher_vars, datagram_vars>>
  BY <1>7, UniStreamStepKeeps
<1>8. CASE Purge
  <2>1. /\ fragments' \subseteq fragments /\ arrived' = arrived
        /\ UNCHANGED <<mode, consumer_vars, uni_vars>>
    BY <1>8 DEF Purge, PurgeToGob
  <2> QED
    BY <1>1, <2>1, StillKeeps DEF consumer_vars, uni_vars
<1>9. CASE ControlEnds
  BY <1>9, SenderDeletesKeeps, PeerDeletesKeeps DEF ControlEnds
<1>10. CASE UNCHANGED vars
  BY <1>1, <1>10, StillKeeps DEF vars, source_vars, stream_vars, consumer_vars, uni_vars
<1>11. QED
  BY <1>2, <1>3, <1>4, <1>5, <1>6, <1>7, <1>8, <1>9, <1>10 DEF TransportNext, Progress

\* What a warp or rush stream carries: at every moment the messages in flight
\* lead the receiver of lib/quicrq.c, one by one, from where it is on the
\* stream to where quicrq_prepare_to_send_on_unistream stopped, and what was
\* passed to the consumer is what lies behind the receiver, once.
THEOREM UniInvariantHolds == TransportSpec => []UniInv
<1>1. TransportInit => UniInv
  BY UniInvInitially
<1>2. UniInv /\ [TransportNext]_vars => UniInv'
  BY UniInvStep
<1>3. QED
  BY <1>1, <1>2, PTL DEF TransportSpec

\* No callback of quicrq_receive_warp_or_rush_stream_data fails while the
\* control stream of the media exists, for any media, any order of arrival
\* and any interleaving of the streams.
THEOREM StreamsUnderstood == TransportSpec => []NoUniStreamError
<1>1. UniInv => NoUniStreamError
  BY DEF UniInv, ControlOK, NoUniStreamError
<1>2. QED
  BY <1>1, UniInvariantHolds, PTL

----------------------------------------------------------------------------
(* No second stream for what has one.                                      *)

LEMMA WarpOpens ==
    ASSUME UniInv, OpenedInv, mode = "warp", UNCHANGED mode, NEW h \in Key, WarpWakeUp(h)
    PROVE  OpenedInv'
<1> DEFINE S == {<<g, 0>> : g \in next_warp_group..h[1]}
<1>1. /\ next_warp_group \in Nat /\ h[1] \in Nat /\ DOMAIN uni \subseteq Key
      /\ ~opened_twice /\ \A s \in DOMAIN uni : s[1] < next_warp_group
  BY KeyShape DEF UniInv, StreamsOK, OpenedInv, OpenedOK
<1>2. /\ opened_twice' = (opened_twice \/ S \cap DOMAIN uni # {})
      /\ DOMAIN uni' = DOMAIN uni \cup S
      /\ next_warp_group' = Max({next_warp_group, h[1] + 1})
  BY DEF WarpWakeUp, Woken
<1>3. next_warp_group' \in Nat /\ next_warp_group <= next_warp_group' /\ h[1] < next_warp_group'
  BY <1>1, <1>2, MaxOfTwo
<1>4. ASSUME NEW s \in S PROVE s \notin DOMAIN uni /\ s[1] < next_warp_group'
  BY <1>1, <1>3
<1>5. ASSUME NEW s \in DOMAIN uni PROVE s[1] < next_warp_group'
  BY <1>1, <1>3, KeyShape
<1> HIDE DEF S
<1>6. ~opened_twice'
  <2>1. S \cap DOMAIN uni = {}
    BY <1>4
  <2> QED
    BY <1>1, <1>2, <2>1
<1>7. QED
  BY <1>2, <1>4, <1>5, <1>6 DEF OpenedInv, OpenedOK

LEMMA RushOpens ==
    ASSUME UniInv, OpenedInv, mode = "rush", UNCHANGED mode,
           NEW c, c \subseteq Fragment, NEW h \in Key, next_warp_group <= h[1], RushWakeUp(c, h)
    PROVE  OpenedInv'
<1> DEFINE Count(g) == IF g < h[1] THEN get_object_count(c, g) ELSE h[2] + 1
           entered == {g \in next_warp_group..h[1] :
                         \A i \in next_warp_group..(g - 1) : Count(i) > 0}
           First(g) == IF g > next_warp_group THEN 0 ELSE next_rush_object
           created == {g \in entered : First(g) < Count(g)}
           S == UNION {{g} \X (First(g)..(Count(g) - 1)) : g \in created}
<1>1. /\ opened_twice' = (opened_twice \/ S \cap DOMAIN uni # {})
      /\ DOMAIN uni' = DOMAIN uni \cup S
      /\ next_warp_group' = Max(entered)
      /\ next_rush_object' = IF created = {} THEN next_rush_object ELSE Count(Max(created))
  BY DEF RushWakeUp, Woken
<1>2. /\ next_warp_group \in Nat /\ next_rush_object \in Nat /\ h[1] \in Nat /\ h[2] \in Nat
      /\ DOMAIN uni \subseteq Key /\ ~opened_twice
      /\ \A s \in DOMAIN uni : \/ s[1] < next_warp_group
                               \/ s[1] = next_warp_group /\ s[2] < next_rush_object
  BY KeyShape DEF UniInv, StreamsOK, OpenedInv, OpenedOK
<1>3. ASSUME NEW g \in entered PROVE g \in Nat /\ g <= h[1] /\ next_warp_group <= g /\ Count(g) \in Nat
  <2>1. g \in Nat /\ g <= h[1] /\ next_warp_group <= g
    BY <1>2
  <2> QED
    BY <1>2, <2>1, ObjectCountShape
<1>4. next_warp_group \in entered /\ created \subseteq entered
  BY <1>2
<1>5. ASSUME NEW g \in created PROVE First(g) < Count(g) /\ First(g) \in Nat
  BY <1>2
<1>6. First(next_warp_group) = next_rush_object
  BY <1>2
<1>7. ASSUME NEW s \in S
      PROVE  s[1] \in created /\ s[2] \in Nat /\ First(s[1]) <= s[2] /\ s[2] < Count(s[1])
  <2>1. PICK g \in created : s \in {g} \X (First(g)..(Count(g) - 1))
    OBVIOUS
  <2>2. First(g) \in Nat /\ Count(g) \in Nat
    BY <1>3, <1>4, <1>5
  <2> HIDE DEF First, Count, created
  <2> QED
    BY <2>1, <2>2
<1> HIDE DEF entered, Count, created, S, First
<1>8. /\ Max(entered) \in entered /\ \A g \in entered : g <= Max(entered)
      /\ created # {} => Max(created) \in created /\ \A g \in created : g <= Max(created)
  <2>1. entered \subseteq Nat /\ entered # {} /\ \A g \in entered : g <= h[1]
    BY <1>3, <1>4
  <2> QED
    BY <1>2, <1>4, <2>1, GreatestOf
<1>9. ASSUME NEW s \in S PROVE s \notin DOMAIN uni
  <2>1. s[1] \in Nat /\ next_warp_group <= s[1] /\ s[2] \in Nat /\ First(s[1]) <= s[2]
    BY <1>3, <1>4, <1>7
  <2>2. s[1] = next_warp_group => next_rush_object <= s[2]
    BY <1>6, <2>1
  <2> QED
    BY <1>2, <2>1, <2>2
<1>10. ASSUME NEW s \in S
       PROVE  s[1] < next_warp_group' \/ (s[1] = next_warp_group' /\ s[2] < next_rush_object')
  <2>1. s[1] \in created /\ s[1] \in entered /\ s[1] <= Max(entered) /\ s[1] <= Max(created)
    BY <1>4, <1>7, <1>8
  <2>2. Max(created) \in entered /\ Max(created) <= Max(entered) /\ created # {}
    BY <1>4, <1>8, <2>1
  <2>3. Max(entered) \in Nat /\ Max(created) \in Nat /\ s[1] \in Nat
    BY <1>3, <1>8, <2>1, <2>2
  <2>4. CASE s[1] = Max(entered)
    <3>1. Max(created) = s[1]
      BY <2>1, <2>2, <2>3, <2>4
    <3> QED
      BY <1>1, <1>7, <2>2, <2>4, <3>1
  <2>5. CASE s[1] # Max(entered)
    BY <1>1, <2>1, <2>3, <2>5
  <2> QED
    BY <2>4, <2>5
<1>11. ASSUME NEW s \in DOMAIN uni
       PROVE  s[1] < next_warp_group' \/ (s[1] = next_warp_group' /\ s[2] < next_rush_object')
  <2>1. s[1] \in Nat /\ s[2] \in Nat /\ next_warp_group' \in Nat /\ next_warp_group <= next_warp_group'
    BY <1>1, <1>2, <1>3, <1>4, <1>8, KeyShape
  <2>2. CASE next_warp_group < next_warp_group'
    BY <1>2, <2>1, <2>2
  <2>3. CASE next_warp_group' = next_warp_group
    <3>1. \A g \in created : g = next_warp_group
      BY <1>1, <1>2, <1>3, <1>4, <1>8, <2>3
    <3>2. CASE created = {}
      BY <1>1, <1>2, <2>1, <2>3, <3>2
    <3>3. CASE created # {}
      <4>1. Max(created) = next_warp_group /\ next_warp_group \in created
        BY <1>8, <3>1, <3>3
      <4>2. next_rush_object' = Count(next_warp_group) /\ Count(next_warp_group) \in Nat
        BY <1>1, <1>3, <1>4, <3>3, <4>1
      <4>3. next_rush_object < next_rush_object'
        BY <1>5, <1>6, <4>1, <4>2
      <4> QED
        BY <1>2, <2>1, <2>3, <4>2, <4>3
    <3> QED
      BY <3>2, <3>3
  <2> QED
    BY <1>2, <2>1, <2>2, <2>3
<1>12. ~opened_twice'
  <2>1. S \cap DOMAIN uni = {}
    BY <1>9
  <2> QED
    BY <1>1, <1>2, <2>1
<1>13. QED
  BY <1>1, <1>10, <1>11, <1>12 DEF OpenedInv, OpenedOK

\* A step that opens no stream.
LEMMA OpenedStill ==
    ASSUME OpenedInv, DOMAIN uni' = DOMAIN uni,
           UNCHANGED <<mode, next_warp_group, next_rush_object, opened_twice>>
    PROVE  OpenedInv'
  BY DEF OpenedInv, OpenedOK

LEMMA OpenedUniStep ==
    ASSUME OpenedInv, NEW s, UniStreamStep(s)
    PROVE  OpenedInv'
<1>1. ASSUME NEW m, NEW u, Write(s, m, u) PROVE OpenedInv'
  BY <1>1, OpenedStill DEF Write, stream_vars
<1>2. CASE UniStreamIdle(s)
  <2>1. DOMAIN uni' = DOMAIN uni
    BY <1>2 DEF UniStreamIdle
  <2>2. UNCHANGED <<mode, next_warp_group, next_rush_object, opened_twice>>
    BY <1>2 DEF UniStreamIdle
  <2> QED
    BY <2>1, <2>2, OpenedStill
<1>3. CASE ReceiveOnUniStream(s)
  BY <1>3, OpenedStill DEF ReceiveOnUniStream, stream_vars
<1>4. CASE SendWarpHeader(s) \/ SendStreamFin(s)
  BY <1>1, <1>4 DEF SendWarpHeader, SendStreamFin
<1>5. CASE \E skip \in BOOLEAN : SendObjectHeader(s, skip)
  BY <1>1, <1>5 DEF SendObjectHeader
<1>6. CASE \E n \in 1..Max({f.data_length : f \in Fragment}) : SendObjectData(s, n)
  BY <1>1, <1>6 DEF SendObjectData
<1>7. QED
  BY <1>2, <1>3, <1>4, <1>5, <1>6 DEF UniStreamStep

LEMMA OpenedInvStep ==
    ASSUME OpenedInv, UniInv, [TransportNext]_vars
    PROVE  OpenedInv'
<1>1. ASSUME WakeUp, UNCHANGED mode, arrived \subseteq arrived', arrived' \subseteq Fragment,
             fragments' \subseteq Fragment
      PROVE  OpenedInv'
  <2>1. CASE UNCHANGED uni_vars
    BY <1>1, <2>1, OpenedStill DEF uni_vars
  <2>2. CASE OnUniStreams /\ UniWakeUp
    <3> DEFINE h == Highest(arrived')
    <3>1. h \in Key /\ h[1] \in Nat /\ Highest(arrived)[1] \in Nat /\ Highest(arrived)[1] <= h[1]
      BY <1>1, HighestShape, HighestGrows, KeyShape DEF UniInv
    <3> HIDE DEF h
    <3>2. CASE mode = "warp"
      <4>1. WarpWakeUp(h)
        BY <2>2, <3>2 DEF UniWakeUp, h
      <4> QED
        BY <1>1, <3>1, <3>2, <4>1, WarpOpens
    <3>3. CASE mode = "rush"
      <4>1. RushWakeUp(fragments', h) /\ next_warp_group <= h[1]
        BY <2>2, <3>1, <3>3 DEF UniWakeUp, UniInv, h
      <4> QED
        BY <1>1, <3>1, <3>3, <4>1, RushOpens
    <3> QED
      BY <2>2, <3>2, <3>3 DEF OnUniStreams
  <2> QED
    BY <1>1, <2>1, <2>2 DEF WakeUp
<1>2. fragments \subseteq Fragment /\ arrived \subseteq Fragment
  BY DEF UniInv
<1>3. ASSUME NEW f \in Fragment, Arrive(f) PROVE OpenedInv'
  BY <1>1, <1>2, <1>3 DEF Arrive, AddToCache, WakeStream
<1>4. CASE LearnEnd
  BY <1>1, <1>2, <1>4 DEF LearnEnd, LearnEndPoint, WakeStream
<1>5. ASSUME NEW i, Subscribe(i) PROVE OpenedInv'
  BY <1>5, OpenedStill DEF Subscribe, Request, uni_vars
<1>6. CASE StreamPublisherNext /\ UNCHANGED <<datagram_vars, uni_vars>>
  BY <1>6, StreamStepFrame, OpenedStill DEF uni_vars
<1>7. CASE DatagramPublisherNext /\ UNCHANGED <<publisher_vars, uni_vars>>
  <2>1. UNCHANGED mode
    BY <1>7 DEF DatagramPublisherNext, SendDatagram, DatagramIdle, stream_vars
  <2> QED
    BY <1>7, <2>1, OpenedStill DEF uni_vars
<1>8. CASE \E s \in DOMAIN uni : UniStreamStep(s)
  BY <1>8, OpenedUniStep
<1>9. CASE Purge
  BY <1>9, OpenedStill DEF Purge, uni_vars
<1>10. CASE ControlEnds
  <2>1. DOMAIN uni' = DOMAIN uni /\ UNCHANGED <<mode, next_warp_group, next_rush_object, opened_twice>>
    BY <1>10 DEF ControlEnds, SenderDeletes, PeerDeletes, ControlUnchanged, stream_vars
  <2> QED
    BY <2>1, OpenedStill
<1>11. CASE UNCHANGED vars
  BY <1>11, OpenedStill DEF vars, stream_vars, uni_vars
<1>12. QED
  BY <1>3, <1>4, <1>5, <1>6, <1>7, <1>8, <1>9, <1>10, <1>11 DEF TransportNext, Progress

\* The wake-ups of lib/proto.c open one stream for each group of a warp media
\* and for each object of a rush media, however far next_warp_group_id and
\* next_rush_object_id jump: every stream in use comes before the two.
THEOREM StreamsOpenedOnce == TransportSpec => []OpenedInv
<1>1. TransportInit => OpenedInv
  <2>1. ASSUME TransportInit PROVE opened_twice = FALSE /\ DOMAIN uni = {}
    BY <2>1 DEF TransportInit, UniInit
  <2> QED
    BY <2>1 DEF OpenedInv, OpenedOK
<1>2. OpenedInv /\ UniInv /\ [TransportNext]_vars => OpenedInv'
  BY OpenedInvStep
<1>3. QED
  BY <1>1, <1>2, UniInvariantHolds, PTL DEF TransportSpec

----------------------------------------------------------------------------
(* The single stream.                                                      *)

LEMMA OriginIsKey == Origin \in Key
  BY KeyMembers, MediaAssumption DEF Origin, Group

\* A set of keys has a first one.
LEMMA FirstKey ==
    ASSUME NEW S, S \subseteq Key, S # {}
    PROVE  \E k \in S : \A j \in S : ~Before(j, k)
<1> DEFINE groups == {k[1] : k \in S}
<1>1. groups \subseteq Nat /\ groups # {}
  BY KeyShape
<1>2. PICK g \in groups : \A h \in groups : g <= h
  <2> HIDE DEF groups
  <2> QED
    BY <1>1, LeastNatural
<1> DEFINE objs == {k[2] : k \in {j \in S : j[1] = g}}
<1>3. objs \subseteq Nat /\ objs # {}
  BY <1>2, KeyShape
<1>4. PICK o \in objs : \A i \in objs : o <= i
  <2> HIDE DEF objs
  <2> QED
    BY <1>3, LeastNatural
<1>5. PICK k \in S : k[1] = g /\ k[2] = o
  BY <1>4
<1>6. ASSUME NEW j \in S PROVE ~Before(j, k)
  <2>1. j[1] \in groups /\ (j[1] = g => j[2] \in objs)
    OBVIOUS
  <2>2. j[1] \in Nat /\ j[2] \in Nat /\ g \in Nat /\ o \in Nat
    BY <1>1, <1>2, <1>3, <1>4, KeyShape
  <2>3. g <= j[1] /\ (j[1] = g => o <= j[2])
    BY <1>2, <1>4, <2>1
  <2> QED
    BY <1>5, <2>2, <2>3 DEF Before
<1>7. QED
  BY <1>5, <1>6

LEMMA NextGroupIdShape == next_group_id \in Nat
<1> DEFINE T == {0} \cup {g \in Group :
                 /\ \A f \in Fragment : f.key[1] < g => f \in arrived
                 /\ \E f \in arrived : f.key = <<g, 0>> /\ f.offset = 0}
<1>1. LastGroup \in Nat /\ T \subseteq Nat /\ T # {} /\ \A n \in T : n <= LastGroup
  BY MediaAssumption DEF Group
<1>2. next_group_id = Max(T)
  BY DEF next_group_id
<1> HIDE DEF T
<1>3. QED
  BY <1>1, <1>2, MaxOfBounded

LEMMA IntentShape ==
    ASSUME NEW i \in Intent
    PROVE  /\ IntentPoint(i) \in Nat \X Nat
           /\ IntentPoint(i)[2] = 0 \/ (i.intent = "start_point" /\ IntentPoint(i) = i.point)
           /\ first_point \in Key => ReadPoint(i) \in Nat \X Nat
<1>1. /\ IntentPoint(i) \in Nat \X Nat
      /\ IntentPoint(i)[2] = 0 \/ (i.intent = "start_point" /\ IntentPoint(i) = i.point)
  <2>1. i.intent \in {"start_point", "current_group", "next_group"} /\ i.point \in Nat \X Nat
    BY DEF Intent
  <2> QED
    BY <2>1, NextGroupIdShape DEF IntentPoint
<1>2. first_point \in Key => first_point \in Nat \X Nat
  BY KeyShape
<1>3. QED
  BY <1>1, <1>2 DEF ReadPoint

LEMMA PurgeShape ==
    ASSUME NEW S, PurgeToGob(S), fragments \subseteq Fragment, first_point \in Key
    PROVE  fragments' \subseteq Fragment /\ first_point' \in Key /\ fragments' \subseteq fragments
<1> DEFINE keys == {f.key : f \in fragments'}
<1>1. fragments' \subseteq fragments
  BY DEF PurgeToGob
<1>2. first_point' = IF fragments' = {} THEN first_point
                     ELSE CHOOSE k \in keys : \A j \in keys : ~Before(j, k)
  BY DEF PurgeToGob
<1>3. keys \subseteq Key /\ (fragments' # {} => keys # {})
  BY <1>1, FragmentShape
<1> HIDE DEF keys
<1>4. fragments' # {} => \E k \in keys : \A j \in keys : ~Before(j, k)
  BY <1>3, FirstKey
<1>5. QED
  BY <1>1, <1>2, <1>3, <1>4

LEMMA FragmentFound ==
    ASSUME NEW c, c \subseteq Fragment, NEW k, NEW offset, Cached(c, k, offset)
    PROVE  /\ get_fragment(c, k, offset) \in Fragment
           /\ get_fragment(c, k, offset).key = k /\ get_fragment(c, k, offset).offset = offset
<1> DEFINE found == {f \in c : f.key = k /\ f.offset = offset}
<1>1. found # {} /\ get_fragment(c, k, offset) = CHOOSE f \in found : TRUE
  BY DEF Cached, get_fragment
<1>2. (CHOOSE f \in found : TRUE) \in found
  BY <1>1
<1>3. QED
  BY <1>1, <1>2

LEMMA NoFragmentShape == NoFragment \notin Fragment
<1>1. NoFragment.offset = -1
  BY DEF NoFragment
<1>2. -1 \notin Nat
  OBVIOUS
<1>3. QED
  BY <1>1, <1>2, FragmentShape

\* A message is passed on, and the stream counts on from it.
LEMMA MessageSent ==
    ASSUME StreamInv, mode = "single_stream", NEW x \in MessageType, Consume(x),
           UNCHANGED <<mode, start_point, intent_point>>,
           \/ x.key = next_point /\ x.offset = next_offset
           \/ /\ x.key = NextGroup(next_point) /\ x.offset = 0 /\ next_offset = 0
              /\ Misnumbered \/ (next_point[1] \in Group => next_point[2] = NbObjects[next_point[1]]),
           Misnumbered \/ TrueMessage(x),
           x.data_length = 0 => x.object_length = 0 /\ x.offset = 0,
           x.data_length > 0 => /\ x.object_length = ObjectLength[x.source]
                                /\ x.offset + x.data_length <= x.object_length,
           next_point' = IF IsLastFragment(x) THEN NextObject(x.key) ELSE x.key,
           next_offset' = IF IsLastFragment(x) THEN 0 ELSE x.offset + x.data_length
    PROVE  StreamReceivedOK' /\ next_point' \in Nat \X Nat /\ FollowsMessage(x)'
<1> DEFINE a == next_point
           b == next_point'
<1>1. /\ a \in Nat \X Nat /\ a = <<a[1], a[2]>> /\ a[1] \in Nat /\ a[2] \in Nat /\ next_offset \in Nat
      /\ start_point \in Nat \X Nat
  <2>1. reader.offset \in Nat /\ reader.length_sent \in Nat
    BY DEF StreamInv, ReaderOK, StreamReader
  <2> QED
    BY <2>1 DEF StreamInv, LabelsOK
<1>2. /\ x.key \in Nat \X Nat /\ x.key = <<x.key[1], x.key[2]>>
      /\ x.key[1] \in Nat /\ x.key[2] \in Nat /\ x.source \in Key
      /\ x.offset \in Nat /\ x.data_length \in Nat /\ x.object_length \in Nat
  BY DEF MessageType
<1>3. b \in Nat \X Nat /\ b = <<b[1], b[2]>> /\ b[1] \in Nat /\ b[2] \in Nat /\ next_offset' \in Nat
  BY <1>1, <1>2 DEF NextObject
<1>4. Misnumbered' <=> Misnumbered
  BY DEF Misnumbered
<1>5. \A n \in received : n \in MessageType /\ Behind(n) /\ (Misnumbered \/ TrueMessage(n))
  BY DEF StreamInv, StreamReceivedOK
<1>6. \A n \in received : /\ n.key = <<n.key[1], n.key[2]>> /\ n.key[1] \in Nat /\ n.key[2] \in Nat
                          /\ n.offset \in Nat /\ n.data_length \in Nat
  BY <1>5 DEF MessageType
<1>7. received' = received \cup {x}
  BY DEF Consume
<1>8. ~IsLastFragment(x) => x.data_length > 0
  BY <1>2 DEF IsLastFragment
<1>9. ~repeated'
  <2>1. ASSUME NEW n \in received, Overlaps(x, n) PROVE FALSE
    <3>1. n.key = x.key /\ Behind(n)
      BY <1>5, <2>1 DEF Overlaps
    <3>2. ~Before(x.key, a)
      BY <1>1, <1>2 DEF Before, NextGroup
    <3>3. /\ n.key = a /\ n.data_length > 0 /\ n.offset + n.data_length <= next_offset
      BY <3>1, <3>2 DEF Behind
    <3>4. x.key = a /\ x.offset = next_offset
      BY <1>1, <1>2, <3>1, <3>3 DEF NextGroup
    <3>5. x.data_length > 0
      BY <1>2, <1>6, <3>3, <3>4
    <3>6. Bytes(x.offset, x.data_length) \cap Bytes(n.offset, n.data_length) = {}
      BY <1>2, <1>6, <3>3, <3>4 DEF Bytes
    <3> QED
      BY <1>6, <2>1, <3>3, <3>5, <3>6 DEF Overlaps
  <2>2. ~repeated
    BY DEF StreamInv, StreamReceivedOK
  <2> QED
    BY <2>1, <2>2 DEF Consume
<1>10. ASSUME NEW n \in received' PROVE Behind(n)'
  <2>1. CASE n = x
    BY <1>2, <1>8, <2>1 DEF Behind, NextObject, Before
  <2>2. CASE n \in received
    <3>1. Behind(n) /\ n.key = <<n.key[1], n.key[2]>> /\ n.key[1] \in Nat /\ n.key[2] \in Nat
          /\ n.offset \in Nat /\ n.data_length \in Nat
      BY <1>5, <1>6, <2>2
    <3>2. a = b \/ Before(a, b)
      BY <1>1, <1>2 DEF NextObject, NextGroup, Before
    <3>3. a = b => x.key = a /\ ~IsLastFragment(x) /\ next_offset <= next_offset'
      BY <1>1, <1>2 DEF NextObject, NextGroup
    <3>4. Before(n.key, a) => Before(n.key, b)
      BY <1>1, <1>3, <3>1, <3>2 DEF Before
    <3> QED
      BY <1>1, <1>3, <3>1, <3>2, <3>3, <3>4 DEF Behind
  <2> QED
    BY <1>7, <2>1, <2>2
<1>11. \A n \in received' : n \in MessageType /\ (Misnumbered' \/ TrueMessage(n)')
  BY <1>4, <1>5, <1>7 DEF TrueMessage
<1>12. ASSUME ~Misnumbered, NEW k \in Key, ~Before(k, start_point)
       PROVE  /\ Before(k, b) => Complete(k)'
              /\ k = b => PassedBytes(k)' = Bytes(0, next_offset')
  <2>1. k = <<k[1], k[2]>> /\ k[1] \in Group /\ k[1] \in Nat /\ k[2] \in Nat /\ k[2] < NbObjects[k[1]]
        /\ NbObjects[k[1]] \in Nat
    BY KeyShape
  <2>2. /\ Before(k, a) => Complete(k)
        /\ k = a => PassedBytes(k) = Bytes(0, next_offset)
    BY <1>12 DEF StreamInv, StreamReceivedOK
  <2>3. ~Before(k, a) /\ k # a => PassedBytes(k) = {}
    BY <1>5, <1>6, <2>1 DEF PassedBytes, Behind
  <2>4. CASE k # x.key
    <3>1. {m \in received' : m.key = k} = {m \in received : m.key = k}
      BY <1>7, <2>4
    <3>2. PassedBytes(k)' = PassedBytes(k) /\ (Complete(k)' <=> Complete(k))
      BY <3>1 DEF PassedBytes, Complete
    <3>3. Before(k, b) => Before(k, a)
      BY <1>1, <1>2, <1>12, <2>1, <2>4 DEF Before, NextObject, NextGroup
    <3>4. k = b => next_offset' = 0 /\ ~Before(k, a) /\ k # a
      BY <1>1, <1>2, <2>1, <2>4 DEF Before, NextObject, NextGroup
    <3>5. Bytes(0, 0) = {}
      BY DEF Bytes
    <3> QED
      BY <2>2, <2>3, <3>2, <3>3, <3>4, <3>5
  <2>5. CASE k = x.key
    <3>1. PassedBytes(k) = Bytes(0, x.offset)
      <4>1. CASE k = a
        BY <1>1, <1>2, <2>2, <2>5, <4>1 DEF NextGroup
      <4>2. CASE k # a
        <5>1. x.offset = 0 /\ ~Before(k, a)
          BY <1>1, <2>5, <4>2 DEF NextGroup, Before
        <5> QED
          BY <2>3, <4>2, <5>1 DEF Bytes
      <4> QED
        BY <4>1, <4>2
    <3>2. PassedBytes(k)' = PassedBytes(k) \cup Bytes(x.offset, x.data_length)
      <4>1. {m \in received' : m.key = k} = {m \in received : m.key = k} \cup {x}
        BY <1>7, <2>5
      <4> QED
        BY <4>1 DEF PassedBytes
    <3>3. PassedBytes(k)' = Bytes(0, x.offset + x.data_length)
      BY <1>2, <3>1, <3>2, BytesJoin
    <3>4. IsLastFragment(x) => Complete(k)'
      <4>1. x \in received' /\ x.key = k
        BY <1>7, <2>5
      <4>2. CASE x.data_length = 0
        BY <4>1, <4>2 DEF Complete
      <4>3. CASE x.data_length > 0 /\ IsLastFragment(x)
        <5>1. x.source = k
          BY <1>12, <2>5 DEF TrueMessage
        <5>2. x.offset + x.data_length = ObjectLength[k]
          BY <1>2, <4>3, <5>1 DEF IsLastFragment
        <5>3. UNION {Bytes(m.offset, m.data_length) : m \in {n \in received' : n.key = k}}
                = Bytes(0, ObjectLength[k])
          BY <3>3, <5>2 DEF PassedBytes
        <5> QED
          BY <4>1, <5>3 DEF Complete
      <4> QED
        BY <1>2, <4>2, <4>3
    <3>5. ~IsLastFragment(x) => b = k
      BY <2>5
    <3>6. IsLastFragment(x) => b # k
      BY <2>1, <2>5 DEF NextObject
    <3> QED
      BY <1>3, <2>1, <3>3, <3>4, <3>5, <3>6 DEF Before
  <2> QED
    BY <2>4, <2>5
<1>13. StreamReceivedOK'
  BY <1>4, <1>9, <1>10, <1>11, <1>12 DEF StreamReceivedOK
<1>14. FollowsMessage(x)'
  BY <1>2, <1>8 DEF FollowsMessage, IsLastFragment
<1>15. QED
  BY <1>3, <1>13, <1>14

LEMMA KeyBeforeFinal ==
    ASSUME NEW k \in Key
    PROVE  Before(k, FinalPoint)
  BY KeyShape, FinalShape DEF Group, Before

LEMMA ReadingShape ==
    ASSUME ReaderOK
    PROVE  /\ ReadingPoint \in Nat \X Nat /\ ReadingPoint[1] = reader.current[1]
           /\ send_state = "single_stream" =>
                ReadingPoint[1] \in Group /\ ReadingPoint[2] <= NbObjects[ReadingPoint[1]]
<1>1. reader.current \in Nat \X Nat
  BY DEF ReaderOK, StreamReader
<1>2. CASE reader.skipped
  <2>1. reader.current \in Key
    BY <1>2 DEF ReaderOK
  <2> QED
    BY <1>1, <1>2, <2>1, KeyShape DEF ReadingPoint, NextObject
<1>3. CASE ~reader.skipped
  BY <1>1, <1>3 DEF ReadingPoint, ReaderOK
<1>4. QED
  BY <1>2, <1>3

\* What the reader finds next, and what the stream labels it.
LEMMA GetDataShape ==
    ASSUME StreamInv, mode = "single_stream", send_state \in {"single_stream", "ready"},
           NEW got, got = GetData(reader)
    PROVE  LET r == got.reader
               label == Label(got)
           IN /\ (got.finished \/ r.fragment = NoFragment) =>
                   /\ ~got.is_new_group
                   /\ \/ r = reader
                      \/ r = [reader EXCEPT !.fragment = NoFragment] /\ reader.length_sent = 0
                   /\ got.finished => Reached(ReadingPoint)
              /\ (~got.finished /\ r.fragment # NoFragment) =>
                   /\ r \in StreamReader /\ r.fragment \in Fragment
                   /\ r.fragment.key = r.current /\ r.fragment.offset = r.offset /\ ~r.skipped
                   /\ r.length_sent = 0 \/ r.length_sent < r.fragment.data_length
                   /\ label.offset = r.offset + r.length_sent
                   /\ Misnumbered \/ label.key = r.current
                   /\ \/ /\ ~got.is_new_group /\ label.key = next_point
                         /\ label.offset = next_offset
                         /\ r.current = ReadingPoint /\ r.offset = reader.offset
                         /\ r.length_sent = reader.length_sent
                      \/ /\ got.is_new_group /\ label.key = NextGroup(next_point)
                         /\ label.offset = 0 /\ next_offset = 0
                         /\ label.nb_previous = next_point[2]
                         /\ r.current[2] = 0 /\ r.offset = 0 /\ r.length_sent = 0
                         /\ ReadingPoint[1] \in Group \ {LastGroup}
                         /\ ReadingPoint[2] >= NbObjects[ReadingPoint[1]]
                         /\ Misnumbered \/ next_point[2] = NbObjects[next_point[1]]
<1> DEFINE r == reader
           k == IF r.skipped THEN NextObject(r.current) ELSE r.current
           offset == IF r.skipped THEN 0 ELSE r.offset
           first == NextGroup(r.current)
           At(key, o) == [r EXCEPT !.current = key, !.offset = o, !.skipped = FALSE,
                                   !.fragment = get_fragment(fragments, key, o)]
           Result(moved, is_new_group, finished) ==
               [reader |-> moved, is_new_group |-> is_new_group, finished |-> finished]
<1>1. /\ ReaderOK /\ LabelsOK /\ reader \in StreamReader /\ fragments \subseteq Fragment
      /\ reader.current \in Nat \X Nat /\ reader.offset \in Nat /\ reader.length_sent \in Nat
      /\ reader.skipped \in BOOLEAN /\ reader.fragment \in Fragment \cup {NoFragment}
  BY DEF StreamInv, ReaderOK, StreamReader
<1>2. k = ReadingPoint /\ offset = reader.offset
  BY <1>1 DEF ReadingPoint, ReaderOK
<1>3. next_offset = reader.offset + reader.length_sent /\ (Misnumbered \/ next_point = ReadingPoint)
      /\ next_point \in Nat \X Nat
  BY <1>1 DEF LabelsOK
<1>4. CASE Reached(reader.current)
  <2>1. got = Result(reader, FALSE, TRUE)
    BY <1>4 DEF GetData
  <2>2. reader.skipped => reader.current \in Key
    BY <1>1 DEF ReaderOK
  <2>3. Reached(ReadingPoint)
    BY <1>1, <1>4, <2>2, KeyBeforeFinal DEF Reached, ReadingPoint
  <2> QED
    BY <2>1, <2>3
<1>5. CASE ~Reached(reader.current) /\ reader.fragment # NoFragment /\ ~reader.skipped
  <2>1. got = Result(reader, FALSE, FALSE)
    BY <1>5 DEF GetData
  <2>2. /\ got.reader = reader /\ got.is_new_group = FALSE /\ got.finished = FALSE
    BY <2>1
  <2>3. Label(got).key = next_point /\ Label(got).offset = next_offset
    BY <2>2 DEF Label
  <2>4. reader.current = ReadingPoint
    BY <1>5 DEF ReadingPoint
  <2>5. /\ reader.fragment \in Fragment
        /\ reader.fragment.key = reader.current /\ reader.fragment.offset = reader.offset
        /\ reader.length_sent = 0 \/ reader.length_sent < reader.fragment.data_length
    BY <1>1, <1>5 DEF ReaderOK
  <2> QED
    BY <1>1, <1>3, <1>5, <2>2, <2>3, <2>4, <2>5
<1>6. CASE ~Reached(reader.current) /\ (reader.fragment = NoFragment \/ reader.skipped)
  <2>1. reader.length_sent = 0
    BY <1>1, <1>6 DEF ReaderOK
  <2>2. got = IF Cached(fragments, k, offset) THEN Result(At(k, offset), FALSE, FALSE)
              ELSE IF /\ offset = 0
                      /\ Cached(fragments, first, 0)
                      /\ k[2] >= NbPrevious(first)
                   THEN Result(At(first, 0), TRUE, FALSE)
                   ELSE Result([r EXCEPT !.fragment = NoFragment], FALSE, Reached(k))
    BY <1>6 DEF GetData
  <2> HIDE DEF k, offset, first
  <2>3. ASSUME NEW key \in Nat \X Nat, NEW o \in Nat, Cached(fragments, key, o)
        PROVE  /\ At(key, o) \in StreamReader /\ At(key, o).current = key /\ At(key, o).offset = o
               /\ ~At(key, o).skipped /\ At(key, o).length_sent = 0
               /\ At(key, o).fragment \in Fragment /\ At(key, o).fragment.key = key
               /\ At(key, o).fragment.offset = o
    <3>1. /\ get_fragment(fragments, key, o) \in Fragment
          /\ get_fragment(fragments, key, o).key = key
          /\ get_fragment(fragments, key, o).offset = o
      BY <1>1, <2>3, FragmentFound
    <3> QED
      BY <1>1, <2>1, <3>1 DEF StreamReader
  <2> HIDE DEF At
  <2>4. k \in Nat \X Nat /\ offset \in Nat
    BY <1>1, <1>2, ReadingShape
  <2>5. CASE Cached(fragments, k, offset)
    <3>1. got = Result(At(k, offset), FALSE, FALSE)
      BY <2>2, <2>5
    <3>2. /\ At(k, offset) \in StreamReader /\ At(k, offset).current = k
          /\ At(k, offset).offset = offset
          /\ ~At(k, offset).skipped /\ At(k, offset).length_sent = 0
          /\ At(k, offset).fragment \in Fragment /\ At(k, offset).fragment.key = k
          /\ At(k, offset).fragment.offset = offset
      BY <2>3, <2>4, <2>5
    <3>3. got.reader = At(k, offset) /\ got.is_new_group = FALSE /\ got.finished = FALSE
      BY <3>1
    <3>4. Label(got).key = next_point /\ Label(got).offset = next_offset
      BY <3>3 DEF Label
    <3>5. got.reader.fragment # NoFragment
      BY <3>2, <3>3, NoFragmentShape
    <3> QED
      BY <1>1, <1>2, <1>3, <2>1, <3>2, <3>3, <3>4, <3>5
  <2>6. CASE /\ ~Cached(fragments, k, offset)
             /\ offset = 0 /\ Cached(fragments, first, 0) /\ k[2] >= NbPrevious(first)
    <3>1. got = Result(At(first, 0), TRUE, FALSE)
      BY <2>2, <2>6
    <3>2. first \in Key /\ first = <<reader.current[1] + 1, 0>> /\ first \in Nat \X Nat
      BY <1>1, <2>6, CachedShape, KeyShape DEF first, NextGroup
    <3>3. /\ At(first, 0) \in StreamReader /\ At(first, 0).current = first
          /\ At(first, 0).offset = 0
          /\ ~At(first, 0).skipped /\ At(first, 0).length_sent = 0
          /\ At(first, 0).fragment \in Fragment /\ At(first, 0).fragment.key = first
          /\ At(first, 0).fragment.offset = 0
      BY <2>3, <2>6, <3>2
    <3>4. got.reader = At(first, 0) /\ got.is_new_group = TRUE /\ got.finished = FALSE
      BY <3>1
    <3>5. /\ Label(got).key = NextGroup(next_point) /\ Label(got).offset = 0
          /\ Label(got).nb_previous = next_point[2]
      BY <3>4 DEF Label
    <3>6. got.reader.fragment # NoFragment
      BY <3>3, <3>4, NoFragmentShape
    <3> DEFINE g == reader.current[1]
    <3>7. /\ g \in Nat /\ g \in Group \ {LastGroup} /\ NbObjects[g] \in Nat \ {0}
          /\ NbPrevious(first) = NbObjects[g]
      <4>1. g + 1 \in Group /\ g \in Nat
        BY <1>1, <3>2, KeyMembers
      <4>2. g \in Group \ {LastGroup}
        BY <4>1, MediaAssumption DEF Group
      <4>3. NbObjects[g] \in Nat \ {0}
        BY <4>2, MediaAssumption
      <4>4. NbPrevious(first) = NbObjects[g]
        BY <3>2, <4>1 DEF NbPrevious
      <4> QED
        BY <4>1, <4>2, <4>3, <4>4
    <3>8. /\ ReadingPoint[1] = g /\ ReadingPoint[2] >= NbObjects[g] /\ ReadingPoint \in Nat \X Nat
          /\ Misnumbered \/ ReadingPoint[2] = NbObjects[g]
      <4>1. /\ ReadingPoint[1] = g /\ ReadingPoint[2] >= NbObjects[g] /\ ReadingPoint \in Nat \X Nat
            /\ send_state = "single_stream" => ReadingPoint[2] <= NbObjects[ReadingPoint[1]]
        BY <1>1, <1>2, <2>6, <3>7, ReadingShape
      <4>2. CASE send_state = "single_stream"
        BY <3>7, <4>1, <4>2
      <4>3. CASE send_state = "ready"
        <5>1. ~reader.skipped /\ (Misnumbered \/ reader.current = start_point)
          BY <1>1, <4>3 DEF ReaderOK
        <5>2. ReadingPoint = reader.current
          BY <5>1 DEF ReadingPoint
        <5>3. Misnumbered
          BY <3>7, <4>1, <5>1, <5>2 DEF Misnumbered
        <5> QED
          BY <4>1, <5>3
      <4> QED
        BY <4>1, <4>2, <4>3
    <3>9. Misnumbered \/ (NextGroup(next_point) = first /\ next_point[2] = NbObjects[next_point[1]])
      BY <1>3, <3>2, <3>8 DEF NextGroup
    <3> QED
      BY <1>2, <1>3, <2>1, <2>6, <3>2, <3>3, <3>4, <3>5, <3>6, <3>7, <3>8, <3>9
  <2>7. CASE /\ ~Cached(fragments, k, offset)
             /\ ~(offset = 0 /\ Cached(fragments, first, 0) /\ k[2] >= NbPrevious(first))
    <3>1. got = Result([r EXCEPT !.fragment = NoFragment], FALSE, Reached(k))
      BY <2>2, <2>7
    <3>2. /\ got.reader = [r EXCEPT !.fragment = NoFragment] /\ got.is_new_group = FALSE
          /\ got.finished = Reached(k)
      BY <3>1
    <3>3. got.reader.fragment = NoFragment
      BY <1>1, <3>2 DEF StreamReader
    <3> QED
      BY <1>2, <2>1, <3>2, <3>3
  <2> QED
    BY <2>5, <2>6, <2>7
<1>7. QED
  BY <1>4, <1>5, <1>6

\* A step that does not concern the stream.
LEMMA StreamStill ==
    ASSUME StreamInv, fragments' \subseteq Fragment, first_point' \in Key,
           UNCHANGED <<mode, congestion, intent_point, start_point, reader, next_point,
                       next_offset, send_state, last_sent, announced>>,
           mode = "single_stream" => UNCHANGED <<received, repeated>>
    PROVE  StreamInv'
<1>1. CASE mode # "single_stream"
  BY <1>1 DEF StreamInv
<1>2. CASE mode = "single_stream"
  <2>2. Misnumbered' <=> Misnumbered
    BY DEF Misnumbered
  <2>1. ReaderOK'
    BY <1>2, <2>2 DEF StreamInv, ReaderOK
  <2>3. LabelsOK'
    BY <1>2, <2>2 DEF StreamInv, LabelsOK, ReadingPoint, FollowsMessage
  <2>4. StreamReceivedOK'
    BY <1>2, <2>2 DEF StreamInv, StreamReceivedOK, Behind, TrueMessage, Complete, PassedBytes
  <2>5. AnnouncedOK' /\ (subscribed' <=> subscribed)
    BY <1>2, <2>2 DEF StreamInv, AnnouncedOK, subscribed
  <2> QED
    BY <1>2, <2>1, <2>3, <2>4, <2>5 DEF StreamInv
<1>3. QED
  BY <1>1, <1>2

LEMMA StreamWritten ==
    ASSUME StreamInv, mode = "single_stream", Prepares, NEW x \in MessageType, SendMessage(x),
           Misnumbered \/ TrueMessage(x), ReaderOK', StreamReceivedOK', FollowsMessage(x)',
           next_point' \in Nat \X Nat, next_offset' = (reader.offset + reader.length_sent)',
           Misnumbered \/ next_point' = ReadingPoint',
           next_point'[2] # 0 \/ next_offset' # 0
    PROVE  StreamInv'
<1>1. /\ last_sent' = x
      /\ UNCHANGED <<mode, congestion, intent_point, start_point, fragments, first_point,
                     send_state, announced>>
  BY DEF SendMessage, source_vars, stream_vars
<1>2. Misnumbered' <=> Misnumbered
  BY <1>1 DEF Misnumbered
<1>3. LabelsOK'
  BY <1>1, <1>2 DEF LabelsOK
<1>4. announced = NoMessage /\ subscribed
  BY DEF StreamInv, AnnouncedOK, Prepares
<1>5. AnnouncedOK' /\ subscribed'
  BY <1>1, <1>4 DEF AnnouncedOK, subscribed
<1>6. QED
  BY <1>1, <1>3, <1>5 DEF StreamInv

LEMMA SkipObjectKeeps ==
    ASSUME StreamInv, "delay" \notin Congestions \/ "single_stream" \notin Modes, SkipObject
    PROVE  StreamInv'
<1>1. PICK got : got = GetData(reader)
  OBVIOUS
<1> DEFINE r == got.reader
           label == Label(got)
<1>a. PICK x : x = PlaceHolder(label.key, label.nb_previous, r.current)
  OBVIOUS
<1>2. /\ Prepares /\ mode = "single_stream" /\ ~got.finished /\ r.fragment # NoFragment
      /\ ShouldSkip(r) /\ SendMessage(x) /\ next_point' = NextObject(label.key)
      /\ next_offset' = 0 /\ reader' = [r EXCEPT !.skipped = TRUE]
  BY <1>1, <1>a DEF SkipObject, Prepares
<1>3. /\ r \in StreamReader /\ r.fragment \in Fragment
      /\ r.fragment.key = r.current /\ r.fragment.offset = r.offset /\ ~r.skipped
      /\ label.offset = r.offset + r.length_sent
      /\ Misnumbered \/ label.key = r.current
      /\ \/ /\ ~got.is_new_group /\ label.key = next_point /\ label.offset = next_offset
         \/ r.current[2] = 0
  BY <1>1, <1>2, GetDataShape DEF Prepares
<1>4. /\ r.offset = 0 /\ r.length_sent = 0 /\ r.fragment.key[2] # 0
      /\ r.current \in Key /\ r.current[2] # 0
  BY <1>2, <1>3, FragmentShape DEF ShouldSkip, StreamInv
<1>5. /\ ~got.is_new_group /\ label.key = next_point /\ label.offset = next_offset
      /\ label.nb_previous = 0 /\ next_offset = 0 /\ next_point \in Nat \X Nat
  BY <1>2, <1>3, <1>4 DEF Label, StreamInv, LabelsOK
<1>6. /\ x \in MessageType /\ x.key = next_point /\ x.offset = 0 /\ x.data_length = 0
      /\ x.object_length = 0 /\ x.source = r.current /\ x.source_offset = 0
  BY <1>4, <1>5, <1>a DEF PlaceHolder, Passed, MessageType
<1>7. Misnumbered \/ TrueMessage(x)
  BY <1>3, <1>4, <1>5, <1>6 DEF TrueMessage
<1>8. IsLastFragment(x)
  BY <1>6 DEF IsLastFragment
<1>9. Consume(x) /\ UNCHANGED <<mode, start_point, intent_point, send_state>>
  BY <1>2 DEF SendMessage, stream_vars
<1>10. /\ next_point' = IF IsLastFragment(x) THEN NextObject(x.key) ELSE x.key
       /\ next_offset' = IF IsLastFragment(x) THEN 0 ELSE x.offset + x.data_length
  BY <1>2, <1>5, <1>6, <1>8
<1>11. StreamReceivedOK' /\ next_point' \in Nat \X Nat /\ FollowsMessage(x)'
  BY <1>2, <1>5, <1>6, <1>7, <1>9, <1>10, MessageSent
<1>12. /\ reader' \in StreamReader /\ reader'.current = r.current /\ reader'.offset = 0
       /\ reader'.length_sent = 0 /\ reader'.skipped /\ reader'.fragment = r.fragment
  BY <1>2, <1>3, <1>4 DEF StreamReader
<1>13. ReaderOK'
  BY <1>2, <1>3, <1>4, <1>9, <1>12, KeyShape DEF ReaderOK, Prepares, SendState
<1>14. Misnumbered \/ next_point' = ReadingPoint'
  BY <1>2, <1>3, <1>12 DEF ReadingPoint
<1>15. next_point'[2] # 0
  BY <1>2, <1>5 DEF NextObject
<1>16. QED
  BY <1>2, <1>6, <1>7, <1>11, <1>12, <1>13, <1>14, <1>15, StreamWritten

LEMMA SendFragmentKeeps ==
    ASSUME StreamInv, NEW n \in Nat, SendFragment(n)
    PROVE  StreamInv'
<1>1. PICK got : got = GetData(reader)
  OBVIOUS
<1> DEFINE r == got.reader
           f == r.fragment
           label == Label(got)
           length == ObjectLength[f.key]
           ends == label.offset + n >= length
<1>a. PICK x : x = Passed(label.key, label.offset, label.nb_previous, f.key,
                          f.offset + r.length_sent, length, n)
  OBVIOUS
<1>2. /\ Prepares /\ mode = "single_stream" /\ ~got.finished /\ f # NoFragment
      /\ n \in Sendable(r) /\ SendMessage(x)
      /\ next_point' = IF ends THEN NextObject(label.key) ELSE label.key
      /\ next_offset' = IF ends THEN 0 ELSE label.offset + n
      /\ reader' = CopyData(r, n)
  BY <1>1, <1>a DEF SendFragment, Prepares
<1>3. /\ r \in StreamReader /\ f \in Fragment /\ f.key = r.current /\ f.offset = r.offset
      /\ ~r.skipped /\ (r.length_sent = 0 \/ r.length_sent < f.data_length)
      /\ label.offset = r.offset + r.length_sent
      /\ Misnumbered \/ label.key = r.current
      /\ \/ /\ ~got.is_new_group /\ label.key = next_point /\ label.offset = next_offset
         \/ /\ got.is_new_group /\ label.key = NextGroup(next_point)
            /\ label.offset = 0 /\ next_offset = 0 /\ label.nb_previous = next_point[2]
            /\ Misnumbered \/ next_point[2] = NbObjects[next_point[1]]
  BY <1>1, <1>2, GetDataShape DEF Prepares
<1>4. /\ f.key \in Key /\ f.offset \in Nat /\ f.data_length \in Nat /\ length \in Nat
      /\ f.offset + f.data_length <= length /\ (f.data_length = 0 => length = 0)
      /\ r.current \in Nat \X Nat /\ r.offset \in Nat /\ r.length_sent \in Nat
      /\ next_point \in Nat \X Nat
  BY <1>2, <1>3, FragmentShape, LengthShape DEF StreamReader, StreamInv, LabelsOK
<1>5. /\ label.key \in Nat \X Nat /\ label.nb_previous \in Nat
  BY <1>3, <1>4 DEF Label, NextGroup
<1>6. /\ n = 0 => f.data_length = 0 /\ length = 0 /\ label.offset = 0
      /\ n > 0 => r.length_sent + n <= f.data_length
  <2>1. CASE f.data_length = 0 /\ r.length_sent = 0
    BY <1>2, <1>3, <1>4, <2>1 DEF Sendable
  <2>2. CASE ~(f.data_length = 0 /\ r.length_sent = 0)
    BY <1>2, <1>3, <1>4, <2>2 DEF Sendable, Available
  <2> QED
    BY <2>1, <2>2
<1>7. /\ x \in MessageType /\ x.key = label.key /\ x.offset = label.offset /\ x.data_length = n
      /\ x.nb_previous = label.nb_previous
      /\ x.object_length = length /\ x.source = f.key /\ x.source_offset = label.offset
  BY <1>3, <1>4, <1>5, <1>a DEF Passed, MessageType
<1> HIDE DEF label, length
<1>8. Misnumbered \/ TrueMessage(x)
  <2>1. ASSUME ~Misnumbered, x.key[2] = 0, x.offset = 0, start_point[1] < x.key[1]
        PROVE  x.nb_previous = NbPrevious(x.key)
    <3>1. got.is_new_group
      <4>1. next_point[2] = 0 /\ next_offset = 0 => next_point[1] <= start_point[1]
        BY <1>2, <2>1 DEF StreamInv, LabelsOK
      <4>2. start_point[1] \in Nat
        BY DEF StreamInv
      <4> QED
        BY <1>3, <1>4, <1>7, <2>1, <4>1, <4>2
    <3> QED
      BY <1>3, <1>4, <1>7, <2>1, <3>1 DEF NbPrevious, NextGroup
  <2> QED
    BY <1>3, <1>4, <1>6, <1>7, <2>1 DEF TrueMessage, length
<1>9. IsLastFragment(x) <=> ends
  BY <1>7 DEF IsLastFragment
<1>10. Consume(x) /\ UNCHANGED <<mode, start_point, intent_point, send_state>>
  BY <1>2 DEF SendMessage, stream_vars
<1>11. StreamReceivedOK' /\ next_point' \in Nat \X Nat /\ FollowsMessage(x)'
  <2>1. /\ next_point' = IF IsLastFragment(x) THEN NextObject(x.key) ELSE x.key
        /\ next_offset' = IF IsLastFragment(x) THEN 0 ELSE x.offset + x.data_length
    BY <1>2, <1>7, <1>9
  <2>2. /\ x.data_length = 0 => x.object_length = 0 /\ x.offset = 0
        /\ x.data_length > 0 => /\ x.object_length = ObjectLength[x.source]
                                /\ x.offset + x.data_length <= x.object_length
    BY <1>3, <1>4, <1>6, <1>7 DEF length
  <2>3. \/ x.key = next_point /\ x.offset = next_offset
        \/ /\ x.key = NextGroup(next_point) /\ x.offset = 0 /\ next_offset = 0
           /\ Misnumbered \/ (next_point[1] \in Group => next_point[2] = NbObjects[next_point[1]])
    BY <1>3, <1>7
  <2> HIDE DEF ends
  <2> QED
    BY <1>2, <1>7, <1>8, <1>10, <2>1, <2>2, <2>3, MessageSent
<1>12. /\ reader' \in StreamReader /\ ~reader'.skipped
       /\ ~ends => reader'.current = r.current /\ n > 0
       /\ ends => reader'.current = NextObject(r.current) /\ reader'.fragment = NoFragment
       /\ reader'.fragment # NoFragment =>
            /\ reader'.fragment = f /\ reader'.offset = r.offset /\ reader'.current = r.current
            /\ reader'.length_sent < f.data_length
       /\ reader'.fragment = NoFragment => reader'.length_sent = 0
       /\ next_offset' = reader'.offset + reader'.length_sent
  <2> DEFINE next == r.offset + f.data_length
             done == next >= length
  <2>1. reader' = IF r.length_sent + n # f.data_length
                  THEN [r EXCEPT !.length_sent = r.length_sent + n]
                  ELSE [r EXCEPT !.length_sent = 0, !.fragment = NoFragment,
                                 !.current = IF done THEN NextObject(r.current) ELSE r.current,
                                 !.offset = IF done THEN 0 ELSE next]
    BY <1>2, <1>3 DEF CopyData, StreamReader, length
  <2>2. next \in Nat /\ NextObject(r.current) \in Nat \X Nat
    BY <1>4 DEF NextObject
  <2>3. CASE r.length_sent + n # f.data_length
    <3>1. reader' = [r EXCEPT !.length_sent = r.length_sent + n]
      BY <2>1, <2>3
    <3>2. n > 0 /\ r.length_sent + n < f.data_length
      <4>1. n = 0 => r.length_sent = 0 /\ f.data_length = 0
        BY <1>3, <1>4, <1>6
      <4> QED
        BY <1>4, <1>6, <2>3, <4>1
    <3>a. ~ends
      BY <1>3, <1>4, <3>2
    <3>3. r.length_sent + n \in Nat
      BY <1>4
    <3> HIDE DEF ends
    <3>4. /\ reader' \in StreamReader /\ ~reader'.skipped /\ reader'.current = r.current
          /\ reader'.fragment = f /\ reader'.offset = r.offset
          /\ reader'.length_sent = r.length_sent + n
      BY <1>3, <3>1, <3>3 DEF StreamReader
    <3>5. next_offset' = label.offset + n
      BY <1>2, <3>a
    <3> QED
      BY <1>3, <1>4, <3>2, <3>a, <3>4, <3>5, NoFragmentShape
  <2>4. CASE r.length_sent + n = f.data_length
    <3>1. ends <=> done
      BY <1>3, <1>4, <2>4
    <3>2. CASE done
      <4>1. reader' = [r EXCEPT !.length_sent = 0, !.fragment = NoFragment,
                                !.current = NextObject(r.current), !.offset = 0]
        BY <2>1, <2>4, <3>2
      <4>2. next_offset' = 0 /\ ends
        BY <1>2, <3>1, <3>2
      <4> HIDE DEF ends, done
      <4>3. /\ reader' \in StreamReader /\ ~reader'.skipped
            /\ reader'.current = NextObject(r.current)
            /\ reader'.fragment = NoFragment /\ reader'.offset = 0 /\ reader'.length_sent = 0
        BY <1>3, <2>2, <4>1 DEF StreamReader
      <4> QED
        BY <4>2, <4>3
    <3>3. CASE ~done
      <4>1. reader' = [r EXCEPT !.length_sent = 0, !.fragment = NoFragment, !.current = r.current,
                                !.offset = next]
        BY <2>1, <2>4, <3>3
      <4>2. next_offset' = next /\ ~ends
        BY <1>2, <1>3, <1>4, <2>4, <3>1, <3>3
      <4>3. n > 0
        BY <1>3, <1>4, <1>6, <3>3
      <4> HIDE DEF ends, done, next
      <4>4. /\ reader' \in StreamReader /\ ~reader'.skipped /\ reader'.current = r.current
            /\ reader'.fragment = NoFragment /\ reader'.offset = next /\ reader'.length_sent = 0
        BY <1>3, <1>4, <2>2, <4>1 DEF StreamReader
      <4> QED
        BY <2>2, <4>2, <4>3, <4>4
    <3> QED
      BY <3>2, <3>3
  <2> QED
    BY <2>3, <2>4
<1>13. ReaderOK'
  <2>1. reader'.current[1] \in Group /\ reader'.current[2] <= NbObjects[reader'.current[1]]
    BY <1>3, <1>4, <1>12, KeyShape DEF NextObject
  <2>2. send_state' = "single_stream"
    BY <1>2, <1>10 DEF Prepares
  <2> HIDE DEF ends
  <2> QED
    BY <1>3, <1>12, <2>1, <2>2 DEF ReaderOK, SendState
<1>14. Misnumbered \/ next_point' = ReadingPoint'
  BY <1>2, <1>3, <1>12 DEF ReadingPoint
<1>15. next_point'[2] # 0 \/ next_offset' # 0
  <2>1. CASE ends
    BY <1>2, <1>5, <2>1 DEF NextObject
  <2>2. CASE ~ends
    BY <1>2, <1>3, <1>4, <1>12, <2>2
  <2> QED
    BY <2>1, <2>2
<1> HIDE DEF ends
<1>16. QED
  BY <1>2, <1>7, <1>8, <1>11, <1>12, <1>13, <1>14, <1>15, StreamWritten

\* The reader moved, or looked in vain, and nothing was sent.
LEMMA ReaderMoved ==
    ASSUME StreamInv, mode = "single_stream", subscribed,
           UNCHANGED <<mode, congestion, intent_point, start_point, fragments, first_point,
                       received, repeated, next_point, next_offset, last_sent>>,
           reader' \in StreamReader, Misnumbered \/ ReadingPoint' = ReadingPoint,
           ReaderOK', AnnouncedOK',
           reader'.offset + reader'.length_sent = reader.offset + reader.length_sent
    PROVE  StreamInv'
<1>1. (Misnumbered' <=> Misnumbered) /\ subscribed'
  BY DEF Misnumbered, subscribed
<1>2. LabelsOK'
  BY <1>1 DEF StreamInv, LabelsOK, FollowsMessage
<1>3. StreamReceivedOK'
  BY <1>1 DEF StreamInv, StreamReceivedOK, Behind, TrueMessage, Complete, PassedBytes
<1>4. QED
  BY <1>1, <1>2, <1>3 DEF StreamInv

LEMMA SendNothingKeeps ==
    ASSUME StreamInv, SendNothing
    PROVE  StreamInv'
<1>1. PICK got : got = GetData(reader)
  OBVIOUS
<1> DEFINE r == got.reader
           label == Label(got)
<1>2. /\ Prepares /\ mode = "single_stream" /\ send_state = "single_stream"
      /\ \/ got.finished \/ r.fragment = NoFragment
         \/ Available(r) = 0 /\ r.length_sent > 0
      /\ reader' = r /\ next_point' = label.key /\ next_offset' = label.offset
      /\ send_state' = (IF got.finished THEN "finished" ELSE send_state)
      /\ announced' = (IF got.finished THEN label.key ELSE announced)
      /\ UNCHANGED <<mode, congestion, intent_point, start_point, fragments, first_point,
                     received, repeated, last_sent>>
  BY <1>1 DEF SendNothing, Prepares, source_vars, stream_vars, consumer_vars
<1>3. got.finished \/ r.fragment = NoFragment
  <2>1. ASSUME ~got.finished, r.fragment # NoFragment PROVE FALSE
    <3>1. /\ r \in StreamReader /\ r.fragment \in Fragment
          /\ r.length_sent = 0 \/ r.length_sent < r.fragment.data_length
      BY <1>1, <1>2, <2>1, GetDataShape
    <3>2. r.length_sent \in Nat /\ r.fragment.data_length \in Nat
      BY <3>1, FragmentShape DEF StreamReader
    <3> QED
      BY <1>2, <2>1, <3>1, <3>2 DEF Available
  <2> QED
    BY <2>1
<1>4. /\ ~got.is_new_group
      /\ r = reader \/ (r = [reader EXCEPT !.fragment = NoFragment] /\ reader.length_sent = 0)
      /\ got.finished => Reached(ReadingPoint)
  BY <1>1, <1>2, <1>3, GetDataShape
<1>5. next_point' = next_point /\ next_offset' = next_offset /\ label.key = next_point
  BY <1>2, <1>4 DEF Label
<1>6. /\ ReaderOK /\ reader \in StreamReader /\ announced = NoMessage /\ subscribed
  BY <1>2 DEF StreamInv, ReaderOK, AnnouncedOK
<1>7. /\ reader' \in StreamReader /\ reader'.current = reader.current
      /\ reader'.offset = reader.offset /\ reader'.length_sent = reader.length_sent
      /\ reader'.skipped = reader.skipped
      /\ reader'.fragment = reader.fragment
         \/ (reader'.fragment = NoFragment /\ reader.length_sent = 0)
  BY <1>2, <1>4, <1>6 DEF StreamReader
<1>8. ReaderOK' /\ ReadingPoint' = ReadingPoint
  BY <1>2, <1>6, <1>7 DEF ReaderOK, ReadingPoint, SendState
<1>9. AnnouncedOK'
  <2>1. CASE ~got.finished
    BY <1>2, <1>6, <2>1 DEF AnnouncedOK
  <2>2. CASE got.finished
    <3>1. ~Before(ReadingPoint, FinalPoint)
      BY <1>4, <2>2 DEF Reached
    <3>2. /\ ReadingPoint \in Nat \X Nat /\ ReadingPoint[1] \in Group
          /\ ReadingPoint[2] <= NbObjects[ReadingPoint[1]]
      BY <1>2, <1>6, ReadingShape
    <3>3. ReadingPoint = FinalPoint
      <4>1. ReadingPoint[1] <= LastGroup /\ LastGroup \in Nat
        BY <3>2, MediaAssumption DEF Group
      <4> QED
        BY <3>1, <3>2, <4>1, FinalShape DEF Before
    <3>4. Misnumbered \/ next_point = FinalPoint
      BY <1>2, <3>3 DEF StreamInv, LabelsOK
    <3>5. Misnumbered' <=> Misnumbered
      BY <1>2 DEF Misnumbered
    <3> QED
      BY <1>2, <1>5, <2>2, <3>4, <3>5 DEF AnnouncedOK
  <2> QED
    BY <2>1, <2>2
<1>10. QED
  BY <1>2, <1>5, <1>6, <1>7, <1>8, <1>9, ReaderMoved

LEMMA ProbeReadyKeeps ==
    ASSUME StreamInv, ProbeReady
    PROVE  StreamInv'
<1>1. PICK got : got = GetData(reader)
  OBVIOUS
<1> DEFINE r == got.reader
<1>2. /\ mode = "single_stream" /\ send_state = "ready" /\ reader' = r
      /\ IF ~got.finished /\ Available(r) > 0 THEN send_state' = "single_stream"
         ELSE send_state' = send_state
      /\ UNCHANGED <<mode, congestion, intent_point, start_point, fragments, first_point,
                     received, repeated, next_point, next_offset, last_sent, announced>>
  BY <1>1 DEF ProbeReady, source_vars, stream_vars, consumer_vars
<1>3. /\ ReaderOK /\ reader \in StreamReader /\ announced = NoMessage /\ subscribed
      /\ reader.current \in Nat \X Nat /\ reader.offset = 0 /\ reader.length_sent = 0
      /\ ~reader.skipped /\ (Misnumbered \/ reader.current = start_point)
  BY <1>2 DEF StreamInv, ReaderOK, AnnouncedOK, StreamReader
<1>4. ReadingPoint = reader.current /\ (Misnumbered' <=> Misnumbered)
  BY <1>2, <1>3 DEF ReadingPoint, Misnumbered
<1>5. AnnouncedOK'
  BY <1>2, <1>3 DEF AnnouncedOK
<1>6. CASE got.finished \/ r.fragment = NoFragment
  <2>1. \/ r = reader
        \/ r = [reader EXCEPT !.fragment = NoFragment] /\ reader.length_sent = 0
    BY <1>1, <1>2, <1>6, GetDataShape
  <2>2. /\ reader' \in StreamReader /\ reader'.current = reader.current
        /\ reader'.offset = reader.offset /\ reader'.length_sent = reader.length_sent
        /\ reader'.skipped = reader.skipped
        /\ reader'.fragment = reader.fragment
           \/ (reader'.fragment = NoFragment /\ reader.length_sent = 0)
    BY <1>2, <1>3, <2>1 DEF StreamReader
  <2>3. send_state' = "ready"
    <3>1. r.fragment = NoFragment => Available(r) = 0
      BY <1>2, <1>3, <2>2 DEF Available, NoFragment
    <3> QED
      BY <1>2, <1>6, <3>1
  <2>4. ReaderOK' /\ ReadingPoint' = ReadingPoint
    BY <1>2, <1>3, <1>4, <2>2, <2>3 DEF ReaderOK, ReadingPoint, SendState
  <2> QED
    BY <1>2, <1>3, <1>5, <2>2, <2>4, ReaderMoved
<1>7. CASE ~got.finished /\ r.fragment # NoFragment
  <2>1. /\ r \in StreamReader /\ r.fragment \in Fragment
        /\ r.fragment.key = r.current /\ r.fragment.offset = r.offset /\ ~r.skipped
        /\ \/ r.current = ReadingPoint /\ r.offset = reader.offset
              /\ r.length_sent = reader.length_sent
           \/ /\ r.offset = 0 /\ r.length_sent = 0
              /\ ReadingPoint[1] \in Group \ {LastGroup}
              /\ ReadingPoint[2] >= NbObjects[ReadingPoint[1]]
    BY <1>1, <1>2, <1>7, GetDataShape
  <2>2. /\ Misnumbered \/ r.current = reader.current
        /\ r.offset = 0 /\ r.length_sent = 0
    <3>1. CASE r.current = ReadingPoint
      BY <1>3, <1>4, <2>1, <3>1
    <3>2. CASE r.current # ReadingPoint
      BY <1>2, <1>3, <1>4, <2>1, <3>2 DEF Misnumbered
    <3> QED
      BY <3>1, <3>2
  <2>3. r.current \in Key
    BY <2>1, FragmentShape
  <2>4. Misnumbered \/ ReadingPoint' = ReadingPoint
    BY <1>2, <1>4, <2>1, <2>2 DEF ReadingPoint
  <2>5. send_state' \in {"ready", "single_stream"}
    BY <1>2
  <2>6. ReaderOK'
    BY <1>2, <1>3, <1>4, <1>7, <2>1, <2>2, <2>3, <2>5, KeyShape DEF ReaderOK, SendState
  <2> QED
    BY <1>2, <1>3, <1>5, <2>1, <2>2, <2>4, <2>6, ReaderMoved
<1>8. QED
  BY <1>6, <1>7

\* What is sent before the media leaves the reader where it is.
LEMMA PreambleKeeps ==
    ASSUME StreamInv, SendStartPoint \/ SendCachePolicy
    PROVE  StreamInv'
<1>1. /\ mode = "single_stream" /\ send_state \in {"start_point", "cache_policy"}
      /\ send_state' \in {"cache_policy", "ready"}
      /\ UNCHANGED <<mode, congestion, intent_point, start_point, fragments, first_point,
                     received, repeated, reader, next_point, next_offset, last_sent, announced>>
  BY DEF SendStartPoint, SendCachePolicy, SendPreamble, source_vars, consumer_vars
<1>2. ReaderOK /\ reader \in StreamReader /\ announced = NoMessage /\ subscribed
  BY <1>1 DEF StreamInv, ReaderOK, AnnouncedOK
<1>3. Misnumbered' <=> Misnumbered
  BY <1>1 DEF Misnumbered
<1>4. ReaderOK' /\ AnnouncedOK' /\ ReadingPoint' = ReadingPoint
  BY <1>1, <1>2, <1>3 DEF ReaderOK, AnnouncedOK, ReadingPoint, SendState
<1>5. QED
  BY <1>1, <1>2, <1>4, ReaderMoved

LEMMA SubscribeStreamKeeps ==
    ASSUME StreamInv, NEW i \in Intent, Subscribe(i)
    PROVE  StreamInv'
<1>1. /\ ~subscribed /\ intent_point' = IntentPoint(i) /\ start_point' = ReadPoint(i)
      /\ UNCHANGED <<mode, congestion, fragments, first_point, received, repeated>>
  BY DEF Subscribe, Request, source_vars, consumer_vars
<1>2. /\ IntentPoint(i) \in Nat \X Nat /\ ReadPoint(i) \in Nat \X Nat
      /\ first_point \in Key /\ fragments \subseteq Fragment /\ congestion \in Congestions
  BY IntentShape DEF StreamInv
<1>3. CASE mode # "single_stream"
  <2>1. UNCHANGED <<last_sent, announced, reader, send_state>>
    BY <1>3 DEF Subscribe, publisher_vars
  <2> QED
    BY <1>1, <1>2, <1>3, <2>1 DEF StreamInv
<1>4. CASE mode = "single_stream"
  <2>1. StreamRequest(i)
    BY <1>4 DEF Subscribe, OnUniStreams
  <2>2. /\ reader' = ReaderAt(ReadPoint(i)) /\ next_point' = IntentPoint(i)
        /\ send_state' = (IF IntentPoint(i) = Origin THEN "single_stream" ELSE "start_point")
        /\ UNCHANGED <<next_offset, last_sent, announced>>
    BY <2>1 DEF StreamRequest
  <2>3. /\ next_offset = 0 /\ received = {} /\ last_sent = NoMessage /\ announced = NoMessage
        /\ ~repeated
    BY <1>1, <1>4 DEF StreamInv, StreamReceivedOK
  <2>4. /\ reader' \in StreamReader /\ reader'.current = ReadPoint(i) /\ reader'.offset = 0
        /\ reader'.fragment = NoFragment /\ reader'.length_sent = 0 /\ ~reader'.skipped
    BY <1>2, <2>2 DEF ReaderAt, StreamReader
  <2>5. ReaderOK'
    <3>1. CASE IntentPoint(i) = Origin
      BY <1>2, <2>2, <2>4, <3>1, KeyShape DEF ReaderOK, ReadPoint, SendState
    <3>2. CASE IntentPoint(i) # Origin
      BY <1>1, <1>2, <2>2, <2>4, <3>2 DEF ReaderOK, SendState
    <3> QED
      BY <3>1, <3>2
  <2>6. Misnumbered' \/ ReadPoint(i) = IntentPoint(i)
    BY <1>1, <1>4 DEF Misnumbered, ReadPoint
  <2>7. LabelsOK'
    BY <1>1, <1>2, <2>2, <2>3, <2>4, <2>6 DEF LabelsOK, ReadingPoint
  <2>8. StreamReceivedOK'
    <3>1. received' = {} /\ next_offset' = 0 /\ ~repeated'
      BY <1>1, <2>2, <2>3
    <3>2. \A k : PassedBytes(k)' = Bytes(0, next_offset')
      BY <3>1 DEF PassedBytes, Bytes
    <3> QED
      BY <1>1, <2>2, <2>6, <3>1, <3>2 DEF StreamReceivedOK
  <2>9. AnnouncedOK' /\ subscribed'
    BY <1>1, <1>2, <2>2, <2>3 DEF AnnouncedOK, subscribed
  <2> QED
    BY <1>1, <1>2, <1>4, <2>5, <2>7, <2>8, <2>9 DEF StreamInv
<1>5. QED
  BY <1>3, <1>4

LEMMA StreamInvInitially ==
    ASSUME TransportInit
    PROVE  StreamInv
<1>1. /\ fragments = {} /\ first_point = Origin /\ start_point = Origin /\ intent_point = <<>>
      /\ mode \in Modes /\ congestion \in Congestions /\ received = {} /\ repeated = FALSE
      /\ reader = ReaderAt(Origin) /\ next_point = Origin /\ next_offset = 0
      /\ send_state = "initial" /\ last_sent = NoMessage /\ announced = NoMessage
  BY DEF TransportInit, SourceInit, PublisherInit
<1>2. Origin \in Key /\ Origin \in Nat \X Nat
  BY OriginIsKey DEF Origin
<1>3. /\ reader \in StreamReader /\ reader.current = Origin /\ reader.offset = 0
      /\ reader.fragment = NoFragment /\ reader.length_sent = 0 /\ ~reader.skipped
  BY <1>1, <1>2 DEF ReaderAt, StreamReader
<1>4. ReaderOK
  BY <1>1, <1>2, <1>3, KeyShape DEF ReaderOK, SendState
<1>5. LabelsOK
  BY <1>1, <1>2, <1>3 DEF LabelsOK, ReadingPoint, Origin
<1>6. StreamReceivedOK
  <2>1. \A k : PassedBytes(k) = Bytes(0, next_offset)
    BY <1>1 DEF PassedBytes, Bytes
  <2> QED
    BY <1>1, <2>1 DEF StreamReceivedOK
<1>7. AnnouncedOK /\ ~subscribed
  BY <1>1 DEF AnnouncedOK, subscribed
<1>8. QED
  BY <1>1, <1>2, <1>3, <1>4, <1>5, <1>6, <1>7 DEF StreamInv

\* A step of a warp or rush stream leaves the source alone.
LEMMA UniStepFrame ==
    ASSUME NEW s, UniStreamStep(s)
    PROVE  UNCHANGED <<source_vars, mode, congestion, intent_point, start_point>>
<1>1. ASSUME NEW m, NEW u, Write(s, m, u)
      PROVE  UNCHANGED <<source_vars, mode, congestion, intent_point, start_point>>
  BY <1>1 DEF Write, stream_vars
<1>2. CASE UniStreamIdle(s)
  BY <1>2 DEF UniStreamIdle
<1>3. CASE ReceiveOnUniStream(s)
  BY <1>3 DEF ReceiveOnUniStream, stream_vars
<1>4. CASE SendWarpHeader(s) \/ SendStreamFin(s)
  BY <1>1, <1>4 DEF SendWarpHeader, SendStreamFin
<1>5. CASE \E skip \in BOOLEAN : SendObjectHeader(s, skip)
  BY <1>1, <1>5 DEF SendObjectHeader
<1>6. CASE \E n \in 1..Max({f.data_length : f \in Fragment}) : SendObjectData(s, n)
  BY <1>1, <1>6 DEF SendObjectData
<1>7. QED
  BY <1>2, <1>3, <1>4, <1>5, <1>6 DEF UniStreamStep

LEMMA StreamInvStep ==
    ASSUME StreamInv, UniInv, [TransportNext]_vars,
           "delay" \notin Congestions \/ "single_stream" \notin Modes
    PROVE  StreamInv'
<1>1. fragments \subseteq Fragment /\ first_point \in Key
  BY DEF StreamInv
<1>2. ASSUME WakeStream, WakeUp, UNCHANGED <<received, repeated, first_point>>,
             fragments' \subseteq Fragment
      PROVE  StreamInv'
  BY <1>1, <1>2, StreamStill DEF WakeStream, WakeUp, StreamWakeUp, publisher_vars
<1>3. ASSUME NEW f \in Fragment, Arrive(f) PROVE StreamInv'
  <2>1. /\ WakeStream /\ WakeUp /\ fragments' = fragments \cup {f}
        /\ UNCHANGED <<received, repeated, first_point>>
    BY <1>3 DEF Arrive, AddToCache, consumer_vars
  <2> QED
    BY <1>1, <1>2, <2>1
<1>4. CASE LearnEnd
  BY <1>1, <1>2, <1>4 DEF LearnEnd, LearnEndPoint, consumer_vars
<1>5. ASSUME NEW i \in Intents[mode], Subscribe(i) PROVE StreamInv'
  <2>1. i \in Intent
    BY SourceAssumption DEF StreamInv
  <2> QED
    BY <1>5, <2>1, SubscribeStreamKeeps
<1>6. CASE StreamPublisherNext
  <2>1. ASSUME NEW n \in 0..Max({f.data_length : f \in Fragment}), SendFragment(n) PROVE StreamInv'
    BY <2>1, SendFragmentKeeps
  <2> QED
    BY <1>6, <2>1, PreambleKeeps, SkipObjectKeeps, SendNothingKeeps, ProbeReadyKeeps
       DEF StreamPublisherNext
<1>7. CASE DatagramPublisherNext /\ UNCHANGED <<publisher_vars, uni_vars>>
  <2>1. /\ mode = "datagram" /\ UNCHANGED <<source_vars, publisher_vars>>
        /\ UNCHANGED <<mode, congestion, intent_point, start_point>>
    BY <1>7 DEF DatagramPublisherNext, SendDatagram, DatagramIdle, Sending, stream_vars
  <2> QED
    BY <1>1, <2>1, StreamStill DEF source_vars, publisher_vars
<1>8. ASSUME NEW s \in DOMAIN uni, UniStreamStep(s), UNCHANGED publisher_vars PROVE StreamInv'
  <2>1. OnUniStreams
    BY DEF UniInv, StreamsOK
  <2>2. UNCHANGED <<source_vars, mode, congestion, intent_point, start_point>>
    BY <1>8, UniStepFrame
  <2> QED
    BY <1>1, <1>8, <2>1, <2>2, StreamStill DEF OnUniStreams, source_vars, publisher_vars
<1>9. CASE Purge
  <2>1. PICK S : PurgeToGob(S)
    BY <1>9 DEF Purge
  <2>2. UNCHANGED <<mode, congestion, intent_point, start_point, consumer_vars, publisher_vars>>
    BY <1>9 DEF Purge
  <2> QED
    BY <1>1, <2>1, <2>2, PurgeShape, StreamStill DEF consumer_vars, publisher_vars
<1>10. CASE ControlEnds
  BY <1>1, <1>10, StreamStill DEF ControlEnds, SenderDeletes, PeerDeletes, ControlUnchanged,
     source_vars, stream_vars, consumer_vars, publisher_vars
<1>11. CASE UNCHANGED vars
  BY <1>1, <1>11, StreamStill DEF vars, source_vars, stream_vars, consumer_vars, publisher_vars
<1>12. QED
  BY <1>3, <1>4, <1>5, <1>6, <1>7, <1>8, <1>9, <1>10, <1>11 DEF TransportNext, Progress

----------------------------------------------------------------------------
(* The cache and its purge.                                                *)

\* Two pieces of an object have no byte in common, and neither is empty.
LEMMA PiecesApart ==
    ASSUME NEW f \in Fragment, NEW h \in Fragment, f # h, f.key = h.key
    PROVE  /\ f.data_length > 0 /\ h.data_length > 0
           /\ Bytes(f.offset, f.data_length) \cap Bytes(h.offset, h.data_length) = {}
<1>1. PICK k \in Key : \E p \in Pieces[k] :
        f = [key |-> k, offset |-> p.offset, data_length |-> p.data_length]
  BY DEF Fragment
<1>2. PICK p \in Pieces[k] :
        f = [key |-> k, offset |-> p.offset, data_length |-> p.data_length]
  BY <1>1
<1>3. PICK j \in Key : \E q \in Pieces[j] :
        h = [key |-> j, offset |-> q.offset, data_length |-> q.data_length]
  BY DEF Fragment
<1>4. PICK q \in Pieces[j] :
        h = [key |-> j, offset |-> q.offset, data_length |-> q.data_length]
  BY <1>3
<1>5. /\ j = k /\ p # q /\ f.key = k /\ f.offset = p.offset /\ f.data_length = p.data_length
      /\ h.offset = q.offset /\ h.data_length = q.data_length
  BY <1>2, <1>4
<1>6. \/ p.offset + p.data_length <= q.offset /\ p.data_length > 0
      \/ q.offset + q.data_length <= p.offset /\ q.data_length > 0
  BY <1>5, SourceAssumption
<1>7. /\ p.offset \in Nat /\ p.data_length \in Nat /\ q.offset \in Nat /\ q.data_length \in Nat
      /\ p.offset + p.data_length <= ObjectLength[k] /\ q.offset + q.data_length <= ObjectLength[k]
      /\ (p.data_length = 0 \/ q.data_length = 0) => ObjectLength[k] = 0
  BY <1>5, SourceAssumption
<1>8. ObjectLength[k] \in Nat
  BY LengthShape
<1>9. p.data_length > 0 /\ q.data_length > 0
  BY <1>6, <1>7, <1>8
<1>10. Bytes(p.offset, p.data_length) \cap Bytes(q.offset, q.data_length) = {}
  BY <1>6, <1>7 DEF Bytes
<1>11. QED
  BY <1>5, <1>9, <1>10

LEMMA MaxIsGreatest ==
    ASSUME NEW T, T \subseteq Nat, T # {}, NEW b \in Nat, \A n \in T : n <= b
    PROVE  Max(T) \in T /\ \A n \in T : n <= Max(T)
<1>1. PICK m \in T : \A n \in T : n <= m
  BY GreatestNatural
<1>2. \A n \in T : m >= n
  BY <1>1
<1>3. Max(T) \in T /\ \A n \in T : Max(T) >= n
  BY <1>2 DEF Max
<1>4. QED
  BY <1>3

LEMMA MinIsLeast ==
    ASSUME NEW T, T \subseteq Nat, T # {}
    PROVE  Min(T) \in T /\ \A n \in T : Min(T) <= n
<1>1. PICK m \in T : \A n \in T : m <= n
  BY LeastNatural
<1>2. QED
  BY <1>1 DEF Min

\* The group up to which all is there has begun to arrive, and never falls back.
LEMMA NextGroupEntered ==
    /\ next_group_id > 0 => \E f \in arrived : f.key = <<next_group_id, 0>>
    /\ arrived \subseteq arrived' => next_group_id' \in Nat /\ next_group_id <= next_group_id'
    /\ arrived' = arrived => next_group_id' = next_group_id
<1> DEFINE T(a) == {0} \cup {g \in Group :
                    /\ \A f \in Fragment : f.key[1] < g => f \in a
                    /\ \E f \in a : f.key = <<g, 0>> /\ f.offset = 0}
<1>1. ASSUME NEW a PROVE Max(T(a)) \in T(a) /\ Max(T(a)) \in Nat /\ \A n \in T(a) : n <= Max(T(a))
  <2>1. LastGroup \in Nat /\ T(a) \subseteq Nat /\ T(a) # {} /\ \A n \in T(a) : n <= LastGroup
    BY MediaAssumption DEF Group
  <2> HIDE DEF T
  <2> QED
    BY <2>1, MaxIsGreatest
<1>2. next_group_id = Max(T(arrived)) /\ next_group_id' = Max(T(arrived'))
  BY DEF next_group_id
<1>3. arrived \subseteq arrived' => T(arrived) \subseteq T(arrived')
  OBVIOUS
<1>4. next_group_id > 0 => \E f \in arrived : f.key = <<next_group_id, 0>>
  <2>1. next_group_id \in T(arrived)
    <3> HIDE DEF T
    <3> QED
      BY <1>1, <1>2
  <2> HIDE DEF next_group_id
  <2> QED
    BY <2>1
<1> HIDE DEF T
<1>5. QED
  BY <1>1, <1>2, <1>3, <1>4

LEMMA CacheArrives ==
    ASSUME CacheOK, NEW f \in Fragment, AddToCache(f)
    PROVE  CacheOK'
<1>1. /\ f \notin arrived /\ ~Before(f.key, first_point) /\ fragments' = fragments \cup {f}
      /\ arrived' = arrived \cup {f} /\ first_point' = first_point
  BY DEF AddToCache
<1>2. next_group_id \in Nat /\ next_group_id' \in Nat /\ next_group_id <= next_group_id'
  BY <1>1, NextGroupIdShape, NextGroupEntered
<1>3. ASSUME NEW h \in arrived' \ fragments'
      PROVE  Before(h.key, first_point) /\ h.key[1] < next_group_id'
  <2>1. h \in arrived \ fragments
    BY <1>1
  <2>2. Before(h.key, first_point) /\ h.key[1] < next_group_id /\ h \in Fragment
    BY <2>1 DEF CacheOK
  <2>3. h.key[1] \in Nat
    BY <2>2, FragmentShape, KeyShape
  <2> QED
    BY <1>2, <2>2, <2>3
<1>4. QED
  BY <1>1, <1>3 DEF CacheOK

LEMMA CacheKept ==
    ASSUME CacheOK, UNCHANGED <<fragments, arrived, first_point>>
    PROVE  CacheOK'
  BY NextGroupEntered DEF CacheOK

\* A purge deletes what is in the groups before the next one and before those
\* that are being read.
LEMMA CachePurged ==
    ASSUME CacheOK, NEW S \in SUBSET Nat, PurgeToGob(S)
    PROVE  /\ CacheOK' /\ arrived' = arrived
           /\ \E g \in Nat : /\ fragments' = {f \in fragments : f.key[1] >= g}
                             /\ \A i \in S : g <= i
<1> DEFINE T == {next_group_id} \cup S
           keys == {f.key : f \in fragments'}
<1>1. PICK g : g = Min(T)
  OBVIOUS
<1>2. /\ fragments' = {f \in fragments : f.key[1] >= g} /\ arrived' = arrived
      /\ first_point' = IF fragments' = {} THEN first_point
                        ELSE CHOOSE k \in keys : \A j \in keys : ~Before(j, k)
  BY <1>1 DEF PurgeToGob
<1>3. g \in Nat /\ g <= next_group_id /\ \A i \in S : g <= i
  <2>1. T \subseteq Nat /\ T # {} /\ next_group_id \in T /\ S \subseteq T
    BY NextGroupIdShape
  <2> HIDE DEF T
  <2> QED
    BY <1>1, <2>1, MinIsLeast
<1>4. next_group_id' = next_group_id /\ next_group_id \in Nat
  BY <1>2, NextGroupEntered, NextGroupIdShape
<1>5. /\ fragments \subseteq Fragment /\ first_point \in Key
      /\ \A f \in Fragment : f.key \in Key /\ f.key[1] \in Nat
  BY FragmentShape, KeyShape DEF CacheOK
<1>6. CASE fragments' = {}
  <2>1. fragments = {}
    <3>1. CASE next_group_id = 0
      BY <1>2, <1>3, <1>5, <1>6, <3>1
    <3>2. CASE next_group_id > 0
      <4>1. PICK f \in arrived : f.key = <<next_group_id, 0>>
        BY <3>2, NextGroupEntered
      <4>2. f.key[1] = next_group_id
        BY <4>1
      <4>3. f \in fragments
        BY <1>4, <4>2 DEF CacheOK
      <4> QED
        BY <1>2, <1>3, <1>4, <1>6, <4>2, <4>3
    <3> QED
      BY <1>4, <3>1, <3>2
  <2> QED
    BY <1>2, <1>3, <1>4, <1>6, <2>1 DEF CacheOK
<1>7. CASE fragments' # {}
  <2>1. keys \subseteq Key /\ keys # {}
    BY <1>2, <1>5, <1>7
  <2>2. first_point' = CHOOSE k \in keys : \A j \in keys : ~Before(j, k)
    BY <1>2, <1>7
  <2>3. first_point' \in keys /\ \A j \in keys : ~Before(j, first_point')
    <3> HIDE DEF keys
    <3>1. \E k \in keys : \A j \in keys : ~Before(j, k)
      BY <2>1, FirstKey
    <3> QED
      BY <2>2, <3>1
  <2>4. PICK h \in fragments' : first_point' = h.key
    BY <2>3
  <2>5. h \in fragments /\ h.key[1] >= g /\ ~Before(h.key, first_point)
        /\ h.key \in Key /\ h.key[1] \in Nat
    BY <1>2, <1>5, <2>4 DEF CacheOK
  <2>6. ASSUME NEW f \in arrived \ fragments'
        PROVE  Before(f.key, first_point') /\ f.key[1] < next_group_id
    <3>1. f \in Fragment /\ f.key \in Key /\ f.key[1] \in Nat
      BY <1>5 DEF CacheOK
    <3>2. CASE f \in fragments
      <4>1. f.key[1] < g
        BY <1>2, <1>3, <2>6, <3>1, <3>2
      <4> QED
        BY <1>3, <1>4, <2>4, <2>5, <3>1, <4>1 DEF Before
    <3>3. CASE f \notin fragments
      <4>1. Before(f.key, first_point) /\ f.key[1] < next_group_id
        BY <3>3 DEF CacheOK
      <4>2. f.key \in Nat \X Nat /\ first_point \in Nat \X Nat /\ h.key \in Nat \X Nat
        BY <1>5, <2>5, <3>1, KeyShape
      <4>3. first_point = h.key \/ Before(first_point, h.key)
        BY <2>5, <4>2, BeforeIsTotal
      <4> QED
        BY <2>4, <4>1, <4>2, <4>3, BeforeIsTotal
    <3> QED
      BY <3>2, <3>3
  <2>7. \A f \in fragments' : ~Before(f.key, first_point')
    BY <2>3
  <2> QED
    BY <1>2, <1>3, <1>4, <2>1, <2>3, <2>6, <2>7 DEF CacheOK
<1>8. QED
  BY <1>6, <1>7

----------------------------------------------------------------------------
(* The datagram publisher.                                                 *)

LEMMA FirstListedShape ==
    ASSUME Listed \subseteq Key, Listed # {}
    PROVE  FirstListed \in Listed /\ \A j \in Listed : ~Before(j, FirstListed)
<1>1. \E k \in Listed : IsFirst(k, Listed)
  BY FirstKey DEF IsFirst
<1>2. QED
  BY <1>1 DEF FirstListed, IsFirst

\* A set of keys has a last one.
LEMMA LastKey ==
    ASSUME NEW S, S \subseteq Key, S # {}
    PROVE  \E k \in S : \A j \in S : ~Before(k, j)
<1> DEFINE groups == {k[1] : k \in S}
<1>1. LastGroup \in Nat /\ groups \subseteq Nat /\ groups # {} /\ \A g \in groups : g <= LastGroup
  BY KeyShape, MediaAssumption DEF Group
<1>2. PICK g \in groups : \A h \in groups : h <= g
  <2> HIDE DEF groups
  <2> QED
    BY <1>1, GreatestNatural
<1> DEFINE objs == {k[2] : k \in {j \in S : j[1] = g}}
<1>3. NbObjects[g] \in Nat /\ objs \subseteq Nat /\ objs # {} /\ \A o \in objs : o <= NbObjects[g]
  BY <1>2, KeyShape
<1>4. PICK o \in objs : \A i \in objs : i <= o
  <2> HIDE DEF objs
  <2> QED
    BY <1>3, GreatestNatural
<1>5. PICK k \in S : k[1] = g /\ k[2] = o
  BY <1>4
<1>6. ASSUME NEW j \in S PROVE ~Before(k, j)
  <2>1. j[1] \in groups /\ (j[1] = g => j[2] \in objs)
    OBVIOUS
  <2>2. j[1] \in Nat /\ j[2] \in Nat /\ g \in Nat /\ o \in Nat
    BY <1>1, <1>2, <1>3, <1>4, KeyShape
  <2>3. j[1] <= g /\ (j[1] = g => j[2] <= o)
    BY <1>2, <1>4, <2>1
  <2> QED
    BY <1>5, <2>2, <2>3 DEF Before
<1>7. QED
  BY <1>5, <1>6

\* The objects that are pruned are sent, followed, and before all others; the
\* last one stays.
LEMMA PruneShape ==
    ASSUME NEW o, DOMAIN o \subseteq Key, DOMAIN o # {}
    PROVE  LET p == object_prune(o)
           IN /\ DOMAIN p \subseteq DOMAIN o /\ DOMAIN p # {} /\ \A k \in DOMAIN p : p[k] = o[k]
              /\ \A k \in DOMAIN o \ DOMAIN p :
                   o[k].is_sent /\ FollowedIn(k, o) /\ \A j \in DOMAIN p : Before(k, j)
<1> DEFINE keys == DOMAIN o
           Pruned(k) == \A j \in keys : ~Before(k, j) => o[j].is_sent /\ FollowedIn(j, o)
           kept == {k \in keys : ~Pruned(k)}
<1>1. object_prune(o) = [k \in kept |-> o[k]]
  BY DEF object_prune
<1>2. DOMAIN object_prune(o) = kept /\ \A k \in kept : object_prune(o)[k] = o[k]
  <2> HIDE DEF kept
  <2> QED
    BY <1>1
<1>3. \A k \in keys : k \in Nat \X Nat /\ k[1] \in Nat /\ k[2] \in Nat
  BY KeyShape
<1>4. \A k \in keys : ~Before(k, k)
  BY <1>3 DEF Before
<1>5. kept # {}
  <2>1. PICK k \in keys : \A j \in keys : ~Before(k, j)
    BY LastKey
  <2>2. ~FollowedIn(k, o)
    <3>1. Before(k, NextObject(k)) /\ Before(k, NextGroup(k))
      BY <1>3 DEF Before, NextObject, NextGroup
    <3> QED
      BY <2>1, <3>1 DEF FollowedIn
  <2> QED
    BY <1>4, <2>1, <2>2
<1>6. ASSUME NEW k \in keys \ kept
      PROVE  o[k].is_sent /\ FollowedIn(k, o) /\ \A j \in kept : Before(k, j)
  <2>1. Pruned(k)
    OBVIOUS
  <2>2. o[k].is_sent /\ FollowedIn(k, o)
    BY <1>4, <2>1
  <2>3. ASSUME NEW j \in kept, ~Before(k, j) PROVE FALSE
    <3>1. PICK i \in keys : ~Before(j, i) /\ ~(o[i].is_sent /\ FollowedIn(i, o))
      OBVIOUS
    <3>2. ~Before(k, i)
      BY <1>3, <2>3, <3>1 DEF Before
    <3> QED
      BY <2>1, <3>1, <3>2
  <2> QED
    BY <2>2, <2>3
<1> HIDE DEF kept
<1>7. QED
  BY <1>2, <1>5, <1>6 DEF kept

LEMMA BytesFinite ==
    ASSUME NEW a \in Nat, NEW n \in Nat
    PROVE  IsFiniteSet(Bytes(a, n)) /\ Cardinality(Bytes(a, n)) = n
<1>1. a + n - 1 \in Int
  OBVIOUS
<1>2. /\ IsFiniteSet(a..(a + n - 1))
      /\ Cardinality(a..(a + n - 1)) = IF a > a + n - 1 THEN 0 ELSE (a + n - 1) - a + 1
  BY <1>1, FS_Interval
<1>3. QED
  BY <1>2 DEF Bytes

\* The bytes of an object are counted ...
LEMMA BytesCounted ==
    ASSUME NEW L \in Nat, NEW S \in SUBSET Bytes(0, L)
    PROVE  /\ IsFiniteSet(S) /\ Cardinality(S) \in Nat
           /\ Cardinality(S) >= L => S = Bytes(0, L)
<1>1. IsFiniteSet(Bytes(0, L)) /\ Cardinality(Bytes(0, L)) = L
  BY BytesFinite
<1>2. IsFiniteSet(S) /\ Cardinality(S) <= L /\ (L = Cardinality(S) => Bytes(0, L) = S)
  BY <1>1, FS_Subset
<1>3. QED
  BY <1>2, FS_CardinalityType

\* ... and those of a new fragment added.
LEMMA BytesAdded ==
    ASSUME NEW S, IsFiniteSet(S), NEW a \in Nat, NEW n \in Nat, S \cap Bytes(a, n) = {}
    PROVE  Cardinality(S \cup Bytes(a, n)) = Cardinality(S) + n
<1>1. IsFiniteSet(Bytes(a, n)) /\ Cardinality(Bytes(a, n)) = n
  BY BytesFinite
<1>2. Cardinality(S \cup Bytes(a, n)) = Cardinality(S) + Cardinality(Bytes(a, n)) - Cardinality({})
  BY <1>1, FS_Union
<1>3. Cardinality({}) = 0 /\ Cardinality(S) \in Nat
  BY FS_EmptySet, FS_CardinalityType
<1>4. QED
  BY <1>1, <1>2, <1>3

\* An object stays complete.
LEMMA CompleteGrows ==
    ASSUME NEW x, received' = received \cup {x}, NEW k,
           x.key = k => Bytes(x.offset, x.data_length) \subseteq Bytes(0, ObjectLength[k]),
           Complete(k)
    PROVE  Complete(k)'
<1>1. CASE \E m \in received : m.key = k /\ m.data_length = 0
  BY <1>1 DEF Complete
<1>2. CASE /\ {m \in received : m.key = k} # {}
           /\ PassedBytes(k) = Bytes(0, ObjectLength[k])
  <2>1. {m \in received' : m.key = k} # {}
    BY <1>2
  <2>2. PassedBytes(k)' = Bytes(0, ObjectLength[k])
    <3>1. CASE x.key = k
      <4>1. {m \in received' : m.key = k} = {m \in received : m.key = k} \cup {x}
        BY <3>1
      <4>2. PassedBytes(k)' = PassedBytes(k) \cup Bytes(x.offset, x.data_length)
        BY <4>1 DEF PassedBytes
      <4> QED
        BY <1>2, <3>1, <4>2
    <3>2. CASE x.key # k
      <4>1. {m \in received' : m.key = k} = {m \in received : m.key = k}
        BY <3>2
      <4> QED
        BY <1>2, <4>1 DEF PassedBytes
    <3> QED
      BY <3>1, <3>2
  <2> QED
    BY <2>1, <2>2 DEF Complete, PassedBytes
<1>3. QED
  BY <1>1, <1>2 DEF Complete, PassedBytes

\* The list after an arrival.
LEMMA ListArrives ==
    ASSUME CacheOK, ListOK, NEW f \in Fragment, AddToCache(f), mode = "datagram"
    PROVE  /\ ListOK' /\ \E r \in Nat : /\ DOMAIN in_order' = DOMAIN in_order \cup {r}
                                        /\ \A i \in DOMAIN in_order : i < r
                                        /\ in_order'[r] = f
           /\ \A i \in DOMAIN in_order : in_order'[i] = in_order[i]
<1>1. /\ f \notin arrived /\ fragments' = fragments \cup {f} /\ arrived' = arrived \cup {f}
      /\ in_order' = Linked(in_order, f)
  BY DEF AddToCache
<1> DEFINE T == DOMAIN in_order \cup {0}
<1>2. PICK r : r = Max(T) + 1
  OBVIOUS
<1>3. Cardinality(arrived) \in Nat
  BY FS_CardinalityType DEF ListOK
<1>4. Max(T) \in T /\ \A i \in T : i <= Max(T)
  <2>1. T \subseteq Nat /\ T # {} /\ \A i \in T : i <= Cardinality(arrived)
    BY <1>3 DEF ListOK
  <2> HIDE DEF T
  <2> QED
    BY <1>3, <2>1, MaxIsGreatest
<1>5. /\ r \in Nat /\ r \in 1..(Cardinality(arrived) + 1) /\ \A i \in DOMAIN in_order : i < r
      /\ DOMAIN in_order \subseteq Nat
  BY <1>2, <1>3, <1>4 DEF ListOK
<1>6. in_order' = [i \in DOMAIN in_order \cup {r} |-> IF i \in DOMAIN in_order THEN in_order[i] ELSE f]
  BY <1>1, <1>2 DEF Linked
<1>7. r \notin DOMAIN in_order
  BY <1>5
<1>8. /\ DOMAIN in_order' = DOMAIN in_order \cup {r} /\ in_order'[r] = f
      /\ \A i \in DOMAIN in_order : in_order'[i] = in_order[i]
  BY <1>6, <1>7
<1>9. IsFiniteSet(arrived') /\ Cardinality(arrived') = Cardinality(arrived) + 1
  BY <1>1, FS_AddElement DEF ListOK
<1>10. Range(in_order') = fragments'
  BY <1>1, <1>8 DEF ListOK, Range
<1>11. f \notin Range(in_order)
  BY <1>1 DEF ListOK, CacheOK
<1>12. \A i, j \in DOMAIN in_order' : in_order'[i] = in_order'[j] => i = j
  BY <1>8, <1>11 DEF ListOK, Range
<1>13. DOMAIN in_order' \subseteq 1..Cardinality(arrived')
  BY <1>3, <1>5, <1>8, <1>9 DEF ListOK
<1>14. QED
  BY <1>5, <1>8, <1>9, <1>10, <1>12, <1>13 DEF ListOK

\* A step in datagram mode that sends nothing.
LEMMA NothingSent ==
    ASSUME DatagramInv, mode = "datagram", CacheOK', ListOK', CurrentOK', UnsentOK',
           UNCHANGED <<mode, received, repeated, objects, began_at>>,
           Listed # {} => \A f \in arrived' \ fragments' :
               f \in arrived \ fragments \/ Before(f.key, FirstListed)
    PROVE  DatagramInv'
<1>1. Listed' = Listed /\ FirstListed' = FirstListed
  BY DEF Listed, FirstListed
<1>2. \A k : (Complete(k)' <=> Complete(k)) /\ PassedBytes(k)' = PassedBytes(k)
  BY DEF Complete, PassedBytes
<1>3. ObjectsOK'
  BY <1>1, <1>2 DEF DatagramInv, ObjectsOK
<1>4. DatagramReceivedOK'
  BY <1>1 DEF DatagramInv, DatagramReceivedOK
<1>5. PurgeSparesDatagrams'
  <2>1. ASSUME NEW f \in arrived' \ fragments', Listed # {}, ~Before(f.key, began_at)
        PROVE  Complete(f.key)
    <3>1. CASE f \in arrived \ fragments
      BY <2>1, <3>1 DEF DatagramInv, PurgeSparesDatagrams
    <3>2. CASE Before(f.key, FirstListed)
      <4>1. f.key \in Key
        BY <2>1, FragmentShape DEF CacheOK
      <4> QED
        BY <2>1, <3>2, <4>1 DEF DatagramInv, ObjectsOK
    <3> QED
      BY <2>1, <3>1, <3>2
  <2> QED
    BY <1>1, <1>2, <2>1 DEF PurgeSparesDatagrams
<1>6. QED
  BY <1>3, <1>4, <1>5 DEF DatagramInv

LEMMA ArriveDatagram ==
    ASSUME DatagramInv, mode = "datagram", NEW f \in Fragment, AddToCache(f),
           UNCHANGED <<mode, received, repeated, objects, began_at, dangling,
                       current_fragment, is_current_fragment_sent, length_sent>>
    PROVE  DatagramInv'
<1>1. CacheOK /\ ListOK /\ CurrentOK /\ UnsentOK
  BY DEF DatagramInv
<1>2. CacheOK'
  BY <1>1, CacheArrives
<1>3. PICK r \in Nat : /\ DOMAIN in_order' = DOMAIN in_order \cup {r} /\ in_order'[r] = f
                       /\ \A i \in DOMAIN in_order : i < r /\ in_order'[i] = in_order[i]
  BY <1>1, ListArrives
<1>4. ListOK'
  BY <1>1, ListArrives
<1>5. fragments' = fragments \cup {f} /\ arrived' = arrived \cup {f} /\ f \notin arrived
  BY DEF AddToCache
<1>6. Listed' = Listed /\ FirstListed' = FirstListed
  BY DEF Listed, FirstListed
<1>7. CurrentOK'
  BY <1>1, <1>5, <1>6 DEF CurrentOK, ToSend, Dropped
<1>8. \A h : Untouched(h)' <=> Untouched(h)
  BY <1>6 DEF Untouched, Dropped
<1>9. UnsentOK'
  <2>1. ASSUME ~dangling, NEW i \in DOMAIN in_order', NEW j \in DOMAIN in_order',
               j < i, in_order'[j] = current_fragment
        PROVE  Untouched(in_order'[i])
    <3>1. CASE i = r
      BY <1>1, <1>3, <1>5, <3>1 DEF UnsentOK
    <3>2. CASE i # r
      <4>1. i \in DOMAIN in_order /\ i < r /\ i \in Nat
        BY <1>1, <1>3, <3>2 DEF ListOK
      <4>2. j \in DOMAIN in_order
        BY <1>3, <2>1, <4>1
      <4> QED
        BY <1>1, <1>3, <2>1, <4>1, <4>2 DEF UnsentOK
    <3> QED
      BY <3>1, <3>2
  <2> QED
    BY <1>1, <1>5, <1>8, <2>1 DEF UnsentOK
<1>10. arrived' \ fragments' \subseteq arrived \ fragments
  BY <1>5
<1>11. QED
  BY <1>2, <1>4, <1>7, <1>9, <1>10, NothingSent

LEMMA PurgeDatagram ==
    ASSUME DatagramInv, Purge
    PROVE  DatagramInv'
<1> DEFINE S == IF Listed = {} THEN {} ELSE {FirstListed[1]}
<1>1. /\ PurgeToGob(S)
      /\ UNCHANGED <<mode, received, repeated, objects, began_at,
                     current_fragment, is_current_fragment_sent, length_sent>>
  BY DEF Purge, consumer_vars, datagram_vars
<1>2. CacheOK
  BY DEF DatagramInv
<1>3. S \in SUBSET Nat
  <2>1. Listed \subseteq Key
    BY DEF DatagramInv, ObjectsOK
  <2> QED
    BY <2>1, FirstListedShape, KeyShape
<1>4. CacheOK' /\ arrived' = arrived
  BY <1>1, <1>2, <1>3, CachePurged
<1>5. PICK g \in Nat : /\ fragments' = {f \in fragments : f.key[1] >= g}
                       /\ \A i \in S : g <= i
  BY <1>1, <1>2, <1>3, CachePurged
<1>6. Listed' = Listed /\ FirstListed' = FirstListed
  BY <1>1 DEF Listed, FirstListed
<1>7. CASE mode # "datagram"
  BY <1>1, <1>4, <1>6, <1>7 DEF DatagramInv
<1>8. CASE mode = "datagram"
  <2>1. ListOK /\ CurrentOK /\ UnsentOK
    BY <1>8 DEF DatagramInv
  <2>2. dangling' = (dangling \/ (current_fragment # NoFragment /\ current_fragment \notin fragments'))
    BY <1>8 DEF Purge
  <2>3. /\ DOMAIN in_order' = {i \in DOMAIN in_order : in_order[i] \in fragments'}
        /\ \A i \in DOMAIN in_order' : in_order'[i] = in_order[i]
    BY <1>1 DEF PurgeToGob, Restrict
  <2>4. ListOK'
    <3>1. Range(in_order') = fragments'
      BY <1>5, <2>1, <2>3 DEF ListOK, Range
    <3> QED
      BY <1>4, <2>1, <2>3, <3>1 DEF ListOK
  <2>5. CurrentOK'
    BY <1>1, <1>6, <2>1, <2>2 DEF CurrentOK, ToSend, Dropped
  <2>6. \A h : Untouched(h)' <=> Untouched(h)
    BY <1>1, <1>6 DEF Untouched, Dropped
  <2>7. UnsentOK'
    BY <1>1, <1>4, <2>1, <2>2, <2>3, <2>6 DEF UnsentOK
  <2>8. ASSUME Listed # {}, NEW f \in arrived' \ fragments'
        PROVE  f \in arrived \ fragments \/ Before(f.key, FirstListed)
    <3>1. CASE f \in fragments
      <4>1. f.key[1] \in Nat /\ FirstListed[1] \in Nat
        <5>1. f \in Fragment
          BY <1>2, <3>1 DEF CacheOK
        <5>2. f.key[1] \in Nat
          BY <5>1, FragmentShape, KeyShape
        <5>3. FirstListed[1] \in Nat
          BY <1>3, <2>8
        <5> QED
          BY <5>2, <5>3
      <4>2. f.key[1] < g /\ g <= FirstListed[1]
        BY <1>5, <2>8, <3>1, <4>1
      <4> QED
        BY <4>1, <4>2 DEF Before
    <3> QED
      BY <1>4, <2>8, <3>1
  <2> QED
    BY <1>1, <1>4, <1>8, <2>4, <2>5, <2>7, <2>8, NothingSent
<1>9. QED
  BY <1>7, <1>8

\* The fragment that is next, and what is known of those after it.
LEMMA CheckShape ==
    ASSUME DatagramInv, mode = "datagram", ~dangling, NEW next, next = check_fragment
    PROVE  /\ next.fragment \in fragments \cup {NoFragment} /\ next.length_sent \in Nat
           /\ next.fragment = NoFragment => ~next.sent /\ next.length_sent = 0 /\ Listed = {}
           /\ next.fragment # NoFragment =>
                /\ next.sent => Listed # {}
                /\ ~next.sent => ToSend(next.fragment, next.length_sent)
           /\ \A i, j \in DOMAIN in_order :
                j < i /\ in_order[j] = next.fragment => Untouched(in_order[i])
<1> DEFINE At(f, sent, length) == [fragment |-> f, sent |-> sent, length_sent |-> length]
           ahead == IF current_fragment = NoFragment THEN Ahead
                    ELSE {i \in Ahead : ~PassedOver(in_order[i])}
<1>1. /\ ListOK /\ CurrentOK /\ UnsentOK /\ ObjectsOK /\ Range(in_order) = fragments
      /\ DOMAIN in_order \subseteq Nat /\ Cardinality(arrived) \in Nat
      /\ \A i \in DOMAIN in_order : i <= Cardinality(arrived)
  BY FS_CardinalityType DEF DatagramInv, ListOK
<1>2. current_fragment \in fragments \cup {NoFragment} /\ length_sent \in Nat
  BY <1>1 DEF CurrentOK
<1>3. \A i \in DOMAIN in_order : in_order[i] \in fragments
  BY <1>1 DEF Range
<1>4. NoFragment \notin fragments
  BY NoFragmentShape DEF DatagramInv, CacheOK
<1>5. \A i, j \in DOMAIN in_order :
        j < i /\ in_order[j] = current_fragment => Untouched(in_order[i])
  BY <1>1 DEF UnsentOK
<1>6. next = IF current_fragment # NoFragment /\ ~is_current_fragment_sent
             THEN At(current_fragment, FALSE, length_sent)
             ELSE IF ahead # {} THEN At(in_order[Min(ahead)], FALSE, 0)
             ELSE IF Ahead # {} THEN At(in_order[Max(DOMAIN in_order)], TRUE, 0)
             ELSE At(current_fragment, is_current_fragment_sent, length_sent)
  BY DEF check_fragment
<1>7. ahead \subseteq Ahead /\ Ahead \subseteq DOMAIN in_order
  BY DEF Ahead
<1>8. CASE current_fragment # NoFragment /\ ~is_current_fragment_sent
  <2>1. next = At(current_fragment, FALSE, length_sent)
    BY <1>6, <1>8
  <2>2. next.fragment = current_fragment /\ next.sent = FALSE /\ next.length_sent = length_sent
    BY <2>1
  <2> QED
    BY <1>1, <1>2, <1>5, <1>8, <2>2 DEF CurrentOK
<1>9. CASE ~(current_fragment # NoFragment /\ ~is_current_fragment_sent) /\ ahead # {}
  <2>1. PICK k : k = Min(ahead)
    OBVIOUS
  <2>2. k \in ahead
    <3>1. ahead \subseteq Nat
      BY <1>1, <1>7
    <3> HIDE DEF ahead
    <3> QED
      BY <1>9, <2>1, <3>1, MinIsLeast
  <2>3. next = At(in_order[k], FALSE, 0)
    BY <1>6, <1>9, <2>1
  <2>4. next.fragment = in_order[k] /\ next.sent = FALSE /\ next.length_sent = 0
    BY <2>3
  <2>5. k \in DOMAIN in_order /\ k \in Nat /\ in_order[k] \in fragments
    BY <1>1, <1>3, <1>7, <2>2
  <2>6. CASE current_fragment = NoFragment
    <3>1. Listed = {} /\ received = {}
      BY <1>1, <2>6 DEF CurrentOK, ObjectsOK
    <3>2. ToSend(in_order[k], 0) /\ \A h : Untouched(h)
      BY <3>1 DEF ToSend, Untouched, Dropped
    <3> QED
      BY <1>4, <2>4, <2>5, <3>2
  <2>7. CASE current_fragment # NoFragment
    <3>1. ~PassedOver(in_order[k]) /\ k \in Ahead
      BY <2>2, <2>7
    <3>2. PICK j \in DOMAIN in_order : j < k /\ in_order[j] = current_fragment
      BY <2>7, <3>1 DEF Ahead
    <3>3. Untouched(in_order[k])
      BY <1>5, <2>5, <3>2
    <3>4. ~Dropped(in_order[k].key)
      BY <3>1 DEF PassedOver, Dropped
    <3>5. in_order[k].key \notin Listed => Listed = {} \/ ~Before(in_order[k].key, FirstListed)
      BY <3>1 DEF PassedOver
    <3>6. /\ in_order[k].offset \in Nat /\ in_order[k].data_length \in Nat
          /\ \A m \in received : m.data_length \in Nat
      BY <2>5, FragmentShape DEF DatagramInv, CacheOK, DatagramReceivedOK, MessageType
    <3>7. in_order[k].offset + 0 = in_order[k].offset /\ in_order[k].data_length - 0 = in_order[k].data_length
      BY <3>6
    <3>8. ToSend(in_order[k], 0)
      BY <3>3, <3>4, <3>5, <3>6, <3>7 DEF ToSend, Untouched
    <3>9. ASSUME NEW i \in DOMAIN in_order, NEW l \in DOMAIN in_order, l < i, in_order[l] = in_order[k]
          PROVE  Untouched(in_order[i])
      <4>1. l = k
        BY <1>1, <2>5, <3>9 DEF ListOK
      <4>2. j < i
        BY <1>1, <2>5, <3>2, <3>9, <4>1
      <4> QED
        BY <1>5, <3>2, <4>2
    <3> QED
      BY <1>4, <2>4, <2>5, <3>8, <3>9
  <2> QED
    BY <2>6, <2>7
<1>10. CASE /\ ~(current_fragment # NoFragment /\ ~is_current_fragment_sent) /\ ahead = {}
            /\ Ahead # {}
  <2>1. PICK k : k = Max(DOMAIN in_order)
    OBVIOUS
  <2>2. k \in DOMAIN in_order /\ \A i \in DOMAIN in_order : i <= k
    BY <1>1, <1>7, <1>10, <2>1, MaxIsGreatest
  <2>3. next = At(in_order[k], TRUE, 0)
    BY <1>6, <1>10, <2>1
  <2>4. next.fragment = in_order[k] /\ next.sent = TRUE /\ next.length_sent = 0
    BY <2>3
  <2>5. current_fragment # NoFragment
    BY <1>10
  <2>6. Listed # {}
    BY <1>1, <1>10, <2>5 DEF CurrentOK
  <2>7. ASSUME NEW i \in DOMAIN in_order, NEW j \in DOMAIN in_order, j < i, in_order[j] = in_order[k]
        PROVE  FALSE
    <3>1. j = k
      BY <1>1, <2>2, <2>7 DEF ListOK
    <3> QED
      BY <1>1, <2>2, <2>7, <3>1
  <2> QED
    BY <1>3, <1>4, <2>2, <2>4, <2>6, <2>7
<1>11. CASE /\ ~(current_fragment # NoFragment /\ ~is_current_fragment_sent) /\ ahead = {}
            /\ Ahead = {}
  <2>1. next = At(current_fragment, is_current_fragment_sent, length_sent)
    BY <1>6, <1>11
  <2>2. /\ next.fragment = current_fragment /\ next.sent = is_current_fragment_sent
        /\ next.length_sent = length_sent
    BY <2>1
  <2> QED
    BY <1>1, <1>2, <1>5, <1>11, <2>2 DEF CurrentOK
<1>12. QED
  BY <1>8, <1>9, <1>10, <1>11

LEMMA DatagramIdleKeeps ==
    ASSUME DatagramInv, NEW no_room, DatagramIdle(no_room)
    PROVE  DatagramInv'
<1>1. PICK next : next = check_fragment
  OBVIOUS
<1>2. /\ mode = "datagram" /\ ~dangling
      /\ current_fragment' = next.fragment /\ is_current_fragment_sent' = next.sent
      /\ length_sent' = next.length_sent
      /\ UNCHANGED <<fragments, in_order, arrived, first_point, received, repeated, objects,
                     began_at, mode, dangling>>
  BY <1>1 DEF DatagramIdle, Sending, source_vars, consumer_vars
<1>3. CacheOK' /\ ListOK'
  <2>1. CacheOK /\ ListOK
    BY <1>2 DEF DatagramInv
  <2> QED
    BY <1>2, <2>1, CacheKept DEF ListOK
<1>4. Listed' = Listed /\ FirstListed' = FirstListed
  BY <1>2 DEF Listed, FirstListed
<1>5. \A f, n : (Untouched(f)' <=> Untouched(f)) /\ (ToSend(f, n)' <=> ToSend(f, n))
  BY <1>2, <1>4 DEF Untouched, ToSend, Dropped
<1>6. /\ next.fragment \in fragments \cup {NoFragment} /\ next.length_sent \in Nat
      /\ next.fragment = NoFragment => ~next.sent /\ next.length_sent = 0 /\ Listed = {}
      /\ next.fragment # NoFragment =>
           /\ next.sent => Listed # {}
           /\ ~next.sent => ToSend(next.fragment, next.length_sent)
      /\ \A i, j \in DOMAIN in_order :
           j < i /\ in_order[j] = next.fragment => Untouched(in_order[i])
  BY <1>1, <1>2, CheckShape
<1>7. CurrentOK'
  <2>1. fragments \subseteq Fragment
    BY DEF DatagramInv, CacheOK
  <2>2. ToSend(current_fragment, length_sent)' <=> ToSend(next.fragment, next.length_sent)
    BY <1>2, <1>4 DEF ToSend, Dropped
  <2> QED
    BY <1>2, <1>4, <1>6, <2>1, <2>2 DEF CurrentOK
<1>8. UnsentOK'
  <2>1. \A f \in Fragment \ arrived : Untouched(f)
    BY <1>2 DEF DatagramInv, UnsentOK
  <2> QED
    BY <1>2, <1>5, <1>6, <2>1 DEF UnsentOK
<1>9. QED
  BY <1>2, <1>3, <1>7, <1>8, NothingSent

\* The list of objects after n bytes of f were sent, or its object was dropped:
\* o is the list before it is pruned.
UpdatedList(o, f, drop, n) ==
    /\ DOMAIN o = Listed \cup {f.key} /\ \A j \in Listed \ {f.key} : o[j] = objects[j]
    /\ o[f.key] \in ObjectState
    /\ o[f.key].bytes_sent = (IF f.key \in Listed THEN objects[f.key].bytes_sent ELSE 0) + n
    /\ o[f.key].is_dropped = drop
    /\ o[f.key].is_sent <=> ~drop /\ o[f.key].bytes_sent >= ObjectLength[f.key]
    /\ o[f.key].nb_objects_previous_group \in {0, NbPrevious(f.key)}
    /\ Listed' \subseteq DOMAIN o /\ Listed' # {} /\ \A k \in Listed' : objects'[k] = o[k]
    /\ \A k \in DOMAIN o \ Listed' :
         o[k].is_sent /\ FollowedIn(k, o) /\ \A j \in Listed' : Before(k, j)

LEMMA UpdateShape ==
    ASSUME ObjectsOK, NEW f \in Fragment, NEW drop \in BOOLEAN, NEW n \in Nat,
           objects' = object_update(f, drop, n)
    PROVE  \E o : UpdatedList(o, f, drop, n)
<1>1. PICK old : old = IF f.key \in Listed THEN objects[f.key] ELSE NewObjectState
  OBVIOUS
<1>2. PICK nb : nb = CarriedPrevious(f.key, f.offset)
  OBVIOUS
<1>3. f.key \in Key /\ ObjectLength[f.key] \in Nat /\ NbPrevious(f.key) \in Nat
  BY FragmentShape, LengthShape
<1>4. old \in ObjectState /\ old.nb_objects_previous_group \in {0, NbPrevious(f.key)}
  <2>1. NewObjectState \in ObjectState /\ NewObjectState.nb_objects_previous_group = 0
    BY DEF NewObjectState, ObjectState
  <2> QED
    BY <1>1, <2>1 DEF ObjectsOK
<1>5. old.bytes_sent \in Nat /\ old.bytes_sent = IF f.key \in Listed THEN objects[f.key].bytes_sent ELSE 0
  BY <1>1, <1>4 DEF ObjectState, NewObjectState
<1>6. nb \in {0, NbPrevious(f.key)}
  BY <1>2 DEF CarriedPrevious
<1>7. PICK is_sent \in BOOLEAN : is_sent <=> ~drop /\ old.bytes_sent + n >= ObjectLength[f.key]
  OBVIOUS
<1>8. PICK new : new = [bytes_sent |-> old.bytes_sent + n, is_dropped |-> drop, is_sent |-> is_sent,
                        nb_objects_previous_group |->
                            IF nb > 0 THEN nb ELSE old.nb_objects_previous_group]
  OBVIOUS
<1>9. /\ new \in ObjectState /\ new.bytes_sent = old.bytes_sent + n
      /\ new.is_dropped = drop /\ new.is_sent = is_sent
      /\ new.nb_objects_previous_group \in {0, NbPrevious(f.key)}
  <2>1. (IF nb > 0 THEN nb ELSE old.nb_objects_previous_group) \in Nat
    BY <1>3, <1>4, <1>6
  <2>2. old.bytes_sent + n \in Nat
    BY <1>5
  <2> QED
    BY <1>4, <1>6, <1>8, <2>1, <2>2 DEF ObjectState
<1>10. PICK o : o = [j \in Listed \cup {f.key} |-> IF j = f.key THEN new ELSE objects[j]]
  OBVIOUS
<1>11. DOMAIN o = Listed \cup {f.key} /\ o[f.key] = new /\ \A j \in Listed \ {f.key} : o[j] = objects[j]
  BY <1>10
<1>12. objects' = IF is_sent THEN object_prune(o) ELSE o
  <2>1. is_sent = (~drop /\ old.bytes_sent + n >= ObjectLength[f.key])
    BY <1>7
  <2> QED
    BY <1>1, <1>2, <1>8, <1>10, <2>1 DEF object_update
<1>13. DOMAIN o \subseteq Key /\ DOMAIN o # {}
  BY <1>3, <1>11 DEF ObjectsOK
<1>14. /\ Listed' \subseteq DOMAIN o /\ Listed' # {} /\ \A k \in Listed' : objects'[k] = o[k]
       /\ \A k \in DOMAIN o \ Listed' :
            o[k].is_sent /\ FollowedIn(k, o) /\ \A j \in Listed' : Before(k, j)
  <2>1. CASE is_sent
    BY <1>12, <1>13, <2>1, PruneShape DEF Listed
  <2>2. CASE ~is_sent
    BY <1>12, <1>13, <2>2 DEF Listed
  <2> QED
    BY <2>1, <2>2
<1>15. QED
  BY <1>5, <1>7, <1>9, <1>11, <1>14 DEF UpdatedList

\* When all that is in the list up to k is followed, k is in the list.
LEMMA NothingLeftBehind ==
    ASSUME NEW o, DOMAIN o \subseteq Key, NEW k \in Key,
           \A j \in DOMAIN o : o[j].nb_objects_previous_group \in {0, NbPrevious(j)},
           \E j \in DOMAIN o : ~Before(k, j),
           \A j \in DOMAIN o : ~Before(k, j) => FollowedIn(j, o)
    PROVE  k \in DOMAIN o
<1> DEFINE S == {j \in DOMAIN o : ~Before(k, j)}
<1>1. S \subseteq Key /\ S # {}
  OBVIOUS
<1>2. PICK j \in S : \A i \in S : ~Before(j, i)
  <2> HIDE DEF S
  <2> QED
    BY <1>1, LastKey
<1>3. /\ j \in Key /\ j = <<j[1], j[2]>> /\ j[1] \in Nat /\ j[2] \in Nat
      /\ k = <<k[1], k[2]>> /\ k[1] \in Nat /\ k[2] \in Nat /\ k[2] < NbObjects[k[1]]
      /\ j \in Nat \X Nat /\ k \in Nat \X Nat
  BY <1>1, KeyShape
<1>4. SUFFICES ASSUME Before(j, k) PROVE FALSE
  BY <1>2, <1>3, BeforeIsTotal
<1>5. FollowedIn(j, o)
  BY <1>2
<1>6. CASE NextObject(j) \in DOMAIN o
  <2>1. Before(j, NextObject(j)) /\ ~Before(k, NextObject(j))
    BY <1>3, <1>4 DEF Before, NextObject
  <2> QED
    BY <1>2, <1>6, <2>1
<1>7. CASE NextGroup(j) \in DOMAIN o /\ o[NextGroup(j)].nb_objects_previous_group = j[2] + 1
  <2>1. Before(j, NextGroup(j))
    BY <1>3 DEF Before, NextGroup
  <2>2. NbPrevious(NextGroup(j)) = NbObjects[j[1]]
    BY <1>3 DEF NbPrevious, NextGroup
  <2>3. NbObjects[j[1]] = j[2] + 1
    BY <1>3, <1>7, <2>2
  <2>4. k[1] # j[1]
    BY <1>3, <1>4, <2>3 DEF Before
  <2>5. ~Before(k, NextGroup(j))
    BY <1>3, <1>4, <2>4 DEF Before, NextGroup
  <2> QED
    BY <1>2, <1>7, <2>1, <2>5
<1>8. QED
  BY <1>5, <1>6, <1>7 DEF FollowedIn

\* What a step of the datagram publisher sends: x says the truth of n bytes of
\* fragment f, or that its object is dropped.
LEMMA DatagramShape ==
    ASSUME DatagramInv, NEW n \in Nat, NEW drop \in BOOLEAN, SendDatagram(n, drop)
    PROVE  \E f \in fragments, len \in Nat, x \in MessageType :
        /\ ToSend(f, len) /\ f \in Fragment
        /\ \A i, j \in DOMAIN in_order : j < i /\ in_order[j] = f => Untouched(in_order[i])
        /\ x \in MessageType /\ x.key = f.key /\ x.source = f.key /\ x.source_offset = x.offset
        /\ x.data_length = n
        /\ x.object_length = IF n = 0 THEN 0 ELSE ObjectLength[f.key]
        /\ f.key[2] = 0 /\ x.offset = 0 => x.nb_previous = NbPrevious(f.key)
        /\ drop => n = 0 /\ x.offset = 0 /\ f.key \notin Listed /\ f.data_length > 0
        /\ ~drop => /\ x.offset = f.offset + len /\ len + n <= f.data_length
                    /\ n = 0 => f.data_length = 0
        /\ Consume(x)
        /\ current_fragment' = f /\ length_sent' = len + n
        /\ is_current_fragment_sent' <=> drop \/ len + n >= f.data_length
        /\ objects' = object_update(f, drop, n)
        /\ began_at' = IF Listed = {} THEN f.key ELSE began_at
<1>1. PICK next : next = check_fragment
  OBVIOUS
<1>2. PICK f, len : f = next.fragment /\ len = next.length_sent
  OBVIOUS
<1>3. PICK x : x = IF drop THEN PlaceHolder(f.key, CarriedPrevious(f.key, f.offset), f.key)
                   ELSE Passed(f.key, f.offset + len, CarriedPrevious(f.key, f.offset + len), f.key,
                               f.offset + len, ObjectLength[f.key], n)
  OBVIOUS
<1>4. /\ Sending /\ f # NoFragment /\ ~next.sent
      /\ \/ drop /\ n = 0 /\ MayDrop(f)
         \/ ~drop /\ n \in (IF f.data_length = 0 THEN {0} ELSE 1..(f.data_length - len))
      /\ Consume(x)
      /\ current_fragment' = f /\ length_sent' = len + n
      /\ is_current_fragment_sent' = (drop \/ len + n >= f.data_length)
      /\ objects' = object_update(f, drop, n)
      /\ began_at' = IF Listed = {} THEN f.key ELSE began_at
  BY <1>1, <1>2, <1>3 DEF SendDatagram
<1>5. /\ f \in fragments \cup {NoFragment} /\ len \in Nat /\ ToSend(f, len)
      /\ \A i, j \in DOMAIN in_order : j < i /\ in_order[j] = f => Untouched(in_order[i])
  <2>1. mode = "datagram" /\ ~dangling
    BY <1>4 DEF Sending
  <2> QED
    BY <1>1, <1>2, <1>4, <2>1, CheckShape
<1>6. f \in fragments /\ f \in Fragment
  BY <1>4, <1>5 DEF DatagramInv, CacheOK
<1>7. /\ f.key \in Key /\ f.key \in Nat \X Nat /\ f.offset \in Nat /\ f.data_length \in Nat
      /\ ObjectLength[f.key] \in Nat /\ NbPrevious(f.key) \in Nat
      /\ f.data_length = 0 => ObjectLength[f.key] = 0
  BY <1>6, FragmentShape, LengthShape, KeyShape
<1>8. len = 0 \/ len < f.data_length
  BY <1>5 DEF ToSend
<1>9. CASE drop
  <2>1. n = 0 /\ MayDrop(f) /\ x = PlaceHolder(f.key, CarriedPrevious(f.key, f.offset), f.key)
    BY <1>3, <1>4, <1>9
  <2>2. /\ x \in MessageType /\ x.key = f.key /\ x.source = f.key /\ x.source_offset = 0
        /\ x.offset = 0 /\ x.data_length = 0 /\ x.object_length = 0
    <3>1. CarriedPrevious(f.key, f.offset) \in Nat
      BY <1>7 DEF CarriedPrevious
    <3> QED
      BY <1>7, <2>1, <3>1 DEF PlaceHolder, Passed, MessageType
  <2>3. f.key \notin Listed /\ f.key[2] # 0 /\ f.data_length > 0
    BY <2>1 DEF MayDrop
  <2> QED
    BY <1>4, <1>5, <1>6, <1>9, <2>1, <2>2, <2>3
<1>10. CASE ~drop
  <2>1. /\ n \in (IF f.data_length = 0 THEN {0} ELSE 1..(f.data_length - len))
        /\ x = Passed(f.key, f.offset + len, CarriedPrevious(f.key, f.offset + len), f.key,
                      f.offset + len, ObjectLength[f.key], n)
    BY <1>3, <1>4, <1>10
  <2>2. len + n <= f.data_length /\ (n = 0 => f.data_length = 0)
    BY <1>5, <1>7, <1>8, <2>1
  <2>3. CarriedPrevious(f.key, f.offset + len) \in Nat
    BY <1>7 DEF CarriedPrevious
  <2>4. /\ x \in MessageType /\ x.key = f.key /\ x.source = f.key /\ x.source_offset = f.offset + len
        /\ x.offset = f.offset + len /\ x.data_length = n /\ x.object_length = ObjectLength[f.key]
        /\ x.nb_previous = CarriedPrevious(f.key, f.offset + len)
    <3>1. f.offset + len \in Nat
      BY <1>5, <1>7
    <3> QED
      BY <1>7, <2>1, <2>3, <3>1 DEF Passed, MessageType
  <2>5. x.offset = 0 => x.nb_previous = NbPrevious(f.key)
    BY <2>4 DEF CarriedPrevious
  <2> QED
    BY <1>4, <1>5, <1>6, <1>7, <1>10, <2>2, <2>4, <2>5
<1>11. QED
  BY <1>9, <1>10

LEMMA SendDatagramKeeps ==
    ASSUME DatagramInv, NEW n \in Nat, NEW drop \in BOOLEAN, SendDatagram(n, drop)
    PROVE  DatagramInv'
<1>1. /\ mode = "datagram" /\ ~dangling
      /\ UNCHANGED <<fragments, in_order, arrived, first_point, mode, dangling>>
  BY DEF SendDatagram, Sending, source_vars, stream_vars
<1>2. CacheOK /\ ListOK /\ CurrentOK /\ UnsentOK /\ ObjectsOK /\ DatagramReceivedOK /\ PurgeSparesDatagrams
  BY <1>1 DEF DatagramInv
<1>3. PICK f \in fragments, len \in Nat, x \in MessageType :
        /\ ToSend(f, len) /\ f \in Fragment
        /\ \A i, j \in DOMAIN in_order : j < i /\ in_order[j] = f => Untouched(in_order[i])
        /\ x \in MessageType /\ x.key = f.key /\ x.source = f.key /\ x.source_offset = x.offset
        /\ x.data_length = n
        /\ x.object_length = IF n = 0 THEN 0 ELSE ObjectLength[f.key]
        /\ f.key[2] = 0 /\ x.offset = 0 => x.nb_previous = NbPrevious(f.key)
        /\ drop => n = 0 /\ x.offset = 0 /\ f.key \notin Listed /\ f.data_length > 0
        /\ ~drop => /\ x.offset = f.offset + len /\ len + n <= f.data_length
                    /\ n = 0 => f.data_length = 0
        /\ Consume(x)
        /\ current_fragment' = f /\ length_sent' = len + n
        /\ is_current_fragment_sent' <=> drop \/ len + n >= f.data_length
        /\ objects' = object_update(f, drop, n)
        /\ began_at' = IF Listed = {} THEN f.key ELSE began_at
  BY DatagramShape
<1>4. /\ f.key \in Key /\ f.offset \in Nat /\ f.data_length \in Nat
      /\ f.offset + f.data_length <= ObjectLength[f.key]
      /\ f.data_length = 0 => ObjectLength[f.key] = 0
      /\ ObjectLength[f.key] \in Nat /\ f.key \in Nat \X Nat
  BY <1>3, FragmentShape, LengthShape, KeyShape
<1>o. PICK o : UpdatedList(o, f, drop, n)
  <2>1. ObjectsOK /\ f \in Fragment /\ objects' = object_update(f, drop, n)
    BY <1>2, <1>3
  <2> QED
    BY <2>1, UpdateShape
<1>5. /\ DOMAIN o = Listed \cup {f.key} /\ \A j \in Listed \ {f.key} : o[j] = objects[j]
      /\ o[f.key] \in ObjectState
      /\ o[f.key].bytes_sent = (IF f.key \in Listed THEN objects[f.key].bytes_sent ELSE 0) + n
      /\ o[f.key].is_dropped = drop
      /\ o[f.key].is_sent <=> ~drop /\ o[f.key].bytes_sent >= ObjectLength[f.key]
      /\ o[f.key].nb_objects_previous_group \in {0, NbPrevious(f.key)}
      /\ Listed' \subseteq DOMAIN o /\ Listed' # {} /\ \A k \in Listed' : objects'[k] = o[k]
      /\ \A k \in DOMAIN o \ Listed' :
           o[k].is_sent /\ FollowedIn(k, o) /\ \A j \in Listed' : Before(k, j)
  BY <1>o DEF UpdatedList
<1>6. received' = received \cup {x} /\ repeated' = (repeated \/ \E m \in received : Overlaps(x, m))
  BY <1>3 DEF Consume
<1>7. \A m \in received : /\ m.key \in Key /\ m.offset \in Nat /\ m.data_length \in Nat
                          /\ m.offset + m.data_length <= ObjectLength[m.key]
                          /\ m.key \in Listed \/ Before(m.key, FirstListed)
  BY <1>2 DEF DatagramReceivedOK, MessageType
<1>8. /\ x.offset \in Nat /\ x.offset + n <= ObjectLength[f.key]
      /\ n > 0 => Bytes(x.offset, n) \subseteq Bytes(f.offset + len, f.data_length - len)
      /\ Bytes(x.offset, n) \subseteq Bytes(f.offset, f.data_length)
      /\ n = 0 => Bytes(x.offset, n) = {}
      /\ Bytes(x.offset, n) \subseteq Bytes(0, ObjectLength[f.key])
  <2>1. x.offset \in Nat
    BY <1>3 DEF MessageType
  <2>2. n = 0 => Bytes(x.offset, n) = {}
    BY <2>1 DEF Bytes
  <2>3. CASE n = 0
    BY <1>3, <1>4, <2>1, <2>2, <2>3
  <2>4. CASE n > 0
    <3>1. x.offset = f.offset + len /\ len + n <= f.data_length
      BY <1>3, <2>4
    <3> QED
      BY <1>4, <2>1, <2>4, <3>1 DEF Bytes
  <2> QED
    BY <2>1, <2>2, <2>3, <2>4
\* Nothing of an object that is not in the list was sent.
<1>9. f.key \notin Listed => \A m \in received : m.key # f.key
  BY <1>2, <1>3, <1>7 DEF ToSend, ObjectsOK
<1>10. n = 0 => \A m \in received : m.key # f.key
  <2>1. CASE n = 0 /\ ~drop
    <3>1. ObjectLength[f.key] = 0
      BY <1>3, <1>4, <2>1
    <3>2. \A m \in received : m.key = f.key => m.data_length > 0
      BY <1>3 DEF ToSend
    <3> QED
      BY <1>7, <2>1, <3>1, <3>2
  <2> QED
    BY <1>3, <1>9, <2>1
<1>11. \A m \in received : m.key = f.key =>
         m.data_length > 0 /\ Bytes(m.offset, m.data_length) \cap Bytes(x.offset, n) = {}
  <2>1. ASSUME NEW m \in received, m.key = f.key
        PROVE  m.data_length > 0 /\ Bytes(m.offset, m.data_length)
                                      \cap Bytes(f.offset + len, f.data_length - len) = {}
    BY <1>3, <2>1 DEF ToSend
  <2> QED
    BY <1>8, <1>10, <2>1
<1>12. \A m \in received : ~Overlaps(x, m)
  BY <1>3, <1>10, <1>11 DEF Overlaps
<1>13. /\ PassedBytes(f.key)' = PassedBytes(f.key) \cup Bytes(x.offset, n)
       /\ \A k : k # f.key => PassedBytes(k)' = PassedBytes(k)
       /\ PassedBytes(f.key) \in SUBSET Bytes(0, ObjectLength[f.key])
       /\ PassedBytes(f.key) \cap Bytes(x.offset, n) = {}
  <2>1. {m \in received' : m.key = f.key} = {m \in received : m.key = f.key} \cup {x}
    BY <1>3, <1>6
  <2>2. PassedBytes(f.key)' = PassedBytes(f.key) \cup Bytes(x.offset, n)
    BY <1>3, <2>1 DEF PassedBytes
  <2>3. ASSUME NEW k, k # f.key PROVE PassedBytes(k)' = PassedBytes(k)
    <3>1. {m \in received' : m.key = k} = {m \in received : m.key = k}
      BY <1>3, <1>6, <2>3
    <3> QED
      BY <3>1 DEF PassedBytes
  <2>4. ASSUME NEW m \in received, m.key = f.key
        PROVE  Bytes(m.offset, m.data_length) \subseteq Bytes(0, ObjectLength[f.key])
    BY <1>4, <1>7, <2>4 DEF Bytes
  <2>5. PassedBytes(f.key) \in SUBSET Bytes(0, ObjectLength[f.key])
    BY <2>4 DEF PassedBytes
  <2>6. PassedBytes(f.key) \cap Bytes(x.offset, n) = {}
    BY <1>11 DEF PassedBytes
  <2> QED
    BY <2>2, <2>3, <2>5, <2>6
<1>14. \A k \in Key : Complete(k) => Complete(k)'
  BY <1>3, <1>6, <1>8, CompleteGrows
<1>15. ~drop => o[f.key].bytes_sent = Cardinality(PassedBytes(f.key)')
  <2>1. SUFFICES ASSUME ~drop PROVE o[f.key].bytes_sent = Cardinality(PassedBytes(f.key)')
    OBVIOUS
  <2>2. /\ Cardinality(PassedBytes(f.key)) \in Nat
        /\ Cardinality(PassedBytes(f.key)') = Cardinality(PassedBytes(f.key)) + n
    <3>1. PICK S : S = PassedBytes(f.key)
      OBVIOUS
    <3>2. /\ S \in SUBSET Bytes(0, ObjectLength[f.key]) /\ S \cap Bytes(x.offset, n) = {}
          /\ PassedBytes(f.key)' = S \cup Bytes(x.offset, n)
      BY <1>13, <3>1
    <3>3. PICK L, a : L = ObjectLength[f.key] /\ a = x.offset
      OBVIOUS
    <3>4. L \in Nat /\ S \in SUBSET Bytes(0, L) /\ a \in Nat /\ a + n <= L /\ S \cap Bytes(a, n) = {}
      BY <1>4, <1>8, <3>2, <3>3
    <3>5. IsFiniteSet(S) /\ Cardinality(S) \in Nat
      BY <3>4, BytesCounted
    <3>6. Cardinality(S \cup Bytes(a, n)) = Cardinality(S) + n
      BY <3>4, <3>5, BytesAdded
    <3> QED
      BY <3>1, <3>2, <3>3, <3>5, <3>6
  <2>3. CASE f.key \in Listed
    <3>1. ~objects[f.key].is_dropped
      BY <1>3, <2>3 DEF ToSend, Dropped
    <3> QED
      BY <1>2, <1>5, <2>2, <2>3, <3>1 DEF ObjectsOK
  <2>4. CASE f.key \notin Listed
    <3>1. {m \in received : m.key = f.key} = {}
      BY <1>9, <2>4
    <3>2. PassedBytes(f.key) = {}
      BY <3>1 DEF PassedBytes
    <3>3. Cardinality(PassedBytes(f.key)) = 0
      BY <3>2, FS_EmptySet
    <3> QED
      BY <1>5, <2>2, <2>4, <3>3
  <2> QED
    BY <2>3, <2>4
<1>16. o[f.key].is_sent => PassedBytes(f.key)' = Bytes(0, ObjectLength[f.key]) /\ Complete(f.key)'
  <2>1. SUFFICES ASSUME o[f.key].is_sent
                 PROVE  PassedBytes(f.key)' = Bytes(0, ObjectLength[f.key]) /\ Complete(f.key)'
    OBVIOUS
  <2>2. Cardinality(PassedBytes(f.key)') >= ObjectLength[f.key]
    BY <1>5, <1>15, <2>1
  <2>3. PICK S : S = PassedBytes(f.key)'
    OBVIOUS
  <2>4. S \in SUBSET Bytes(0, ObjectLength[f.key])
    BY <1>8, <1>13, <2>3
  <2>6. S = Bytes(0, ObjectLength[f.key])
    BY <1>4, <2>2, <2>3, <2>4, BytesCounted
  <2>7. x \in {m \in received' : m.key = f.key}
    BY <1>3, <1>6
  <2>8. Complete(f.key)'
    BY <2>3, <2>6, <2>7 DEF Complete, PassedBytes
  <2> QED
    BY <2>3, <2>6, <2>8
\* The list goes on from where it was.
<1>17. /\ DOMAIN o \subseteq Key /\ Listed' \subseteq Key
       /\ \A k \in DOMAIN o : o[k].nb_objects_previous_group \in {0, NbPrevious(k)}
       /\ \A k \in DOMAIN o : o[k].is_sent => Complete(k)'
       /\ \A k \in DOMAIN o : o[k].is_dropped => ~o[k].is_sent
  <2>1. DOMAIN o \subseteq Key /\ Listed' \subseteq Key
    BY <1>2, <1>4, <1>5 DEF ObjectsOK
  <2>2. ASSUME NEW k \in Listed \ {f.key}
        PROVE  /\ o[k].nb_objects_previous_group \in {0, NbPrevious(k)}
               /\ o[k].is_sent => Complete(k)'
               /\ o[k].is_dropped => ~o[k].is_sent
    <3>1. o[k] = objects[k] /\ k \in Key
      BY <1>5, <2>1, <2>2
    <3> QED
      BY <1>2, <1>14, <2>2, <3>1 DEF ObjectsOK
  <2> QED
    BY <1>5, <1>16, <2>1, <2>2
<1>18. FirstListed' \in Listed' /\ \A j \in Listed' : ~Before(j, FirstListed')
  <2>1. PICK T : T = objects'
    OBVIOUS
  <2>2. \E k \in Listed' : \A j \in Listed' : ~Before(j, k)
    BY <1>5, <1>17, FirstKey
  <2> QED
    BY <2>2 DEF FirstListed, IsFirst
<1>19. \A j \in DOMAIN o : j \in Listed' \/ Before(j, FirstListed')
  BY <1>5, <1>18
<1>20. Listed # {} => /\ FirstListed \in DOMAIN o /\ FirstListed \in Nat \X Nat
                      /\ \A j \in DOMAIN o : ~Before(j, FirstListed)
                      /\ FirstListed' = FirstListed \/ Before(FirstListed, FirstListed')
  <2>1. SUFFICES ASSUME Listed # {}
                 PROVE  /\ FirstListed \in DOMAIN o /\ FirstListed \in Nat \X Nat
                        /\ \A j \in DOMAIN o : ~Before(j, FirstListed)
                        /\ FirstListed' = FirstListed \/ Before(FirstListed, FirstListed')
    OBVIOUS
  <2>2. FirstListed \in Listed /\ \A j \in Listed : ~Before(j, FirstListed)
    BY <1>2, <2>1, FirstListedShape DEF ObjectsOK
  <2>3. \A j \in DOMAIN o : ~Before(j, FirstListed)
    BY <1>3, <1>5, <2>1, <2>2 DEF ToSend
  <2>4. FirstListed \in Nat \X Nat /\ FirstListed' \in Nat \X Nat /\ FirstListed' \in DOMAIN o
    BY <1>5, <1>17, <1>18, <2>2, KeyShape
  <2> QED
    BY <1>5, <2>2, <2>3, <2>4, BeforeIsTotal
<1>21. \A k \in Key : Before(k, FirstListed') => Before(k, began_at') \/ Complete(k)'
  <2>1. CASE Listed = {}
    <3>1. Listed' = {f.key}
      BY <1>5, <2>1
    <3> QED
      BY <1>3, <1>18, <2>1, <3>1
  <2>2. CASE Listed # {}
    <3>1. SUFFICES ASSUME NEW k \in Key, Before(k, FirstListed'), ~Before(k, FirstListed)
                   PROVE  Complete(k)'
      BY <1>2, <1>3, <1>14, <2>2 DEF ObjectsOK
    <3>2. \A j \in DOMAIN o : ~Before(k, j) => j \notin Listed'
      <4>1. SUFFICES ASSUME NEW j \in Listed', ~Before(k, j) PROVE FALSE
        OBVIOUS
      <4>2. k \in Nat \X Nat /\ j \in Nat \X Nat /\ FirstListed' \in Nat \X Nat
        BY <1>17, <1>18, KeyShape
      <4>3. ~Before(j, FirstListed')
        BY <1>18
      <4> QED
        BY <3>1, <4>1, <4>2, <4>3, BeforeIsTotal
    <3>3. k \in DOMAIN o
      BY <1>5, <1>17, <1>20, <2>2, <3>1, <3>2, NothingLeftBehind
    <3>4. ~Before(k, k)
      BY KeyShape, BeforeIsTotal
    <3> QED
      BY <1>5, <1>17, <3>2, <3>3, <3>4
  <2> QED
    BY <2>1, <2>2
<1>22. ObjectsOK'
  <2>1. ASSUME NEW k \in Listed'
        PROVE  /\ objects'[k] \in ObjectState
               /\ objects'[k].nb_objects_previous_group \in {0, NbPrevious(k)}
               /\ objects'[k].is_dropped => ~objects'[k].is_sent
               /\ ~objects'[k].is_dropped => objects'[k].bytes_sent = Cardinality(PassedBytes(k)')
               /\ objects'[k].is_sent => Complete(k)'
    <3>1. objects'[k] = o[k] /\ k \in DOMAIN o
      BY <1>5
    <3>2. CASE k = f.key
      BY <1>5, <1>15, <1>17, <3>1, <3>2
    <3>3. CASE k # f.key
      <4>1. k \in Listed /\ o[k] = objects[k] /\ PassedBytes(k)' = PassedBytes(k)
        BY <1>5, <1>13, <3>1, <3>3
      <4>2. /\ objects[k] \in ObjectState
            /\ ~objects[k].is_dropped => objects[k].bytes_sent = Cardinality(PassedBytes(k))
        BY <1>2, <4>1 DEF ObjectsOK
      <4> QED
        BY <1>17, <3>1, <4>1, <4>2
    <3> QED
      BY <3>2, <3>3
  <2>2. began_at' \in Nat \X Nat
    BY <1>2, <1>3, <1>4 DEF ObjectsOK
  <2> QED
    BY <1>5, <1>17, <1>21, <2>1, <2>2 DEF ObjectsOK
<1>23. DatagramReceivedOK'
  <2>1. ~repeated'
    BY <1>2, <1>6, <1>12 DEF DatagramReceivedOK
  <2>2. ASSUME NEW m \in received' PROVE m.key \in Listed' \/ Before(m.key, FirstListed')
    <3>1. CASE m = x
      BY <1>3, <1>5, <1>19, <3>1
    <3>2. CASE m \in received /\ m.key \in Listed
      BY <1>5, <1>19, <3>2
    <3>3. CASE m \in received /\ m.key \notin Listed
      <4>1. Listed # {} /\ Before(m.key, FirstListed)
        BY <1>2, <1>7, <3>3 DEF ObjectsOK
      <4>2. m.key \in Nat \X Nat /\ FirstListed' \in Nat \X Nat
        BY <1>7, <1>17, <1>18, <3>3, KeyShape
      <4> QED
        BY <1>20, <4>1, <4>2, BeforeIsTotal
    <3> QED
      BY <1>6, <3>1, <3>2, <3>3
  <2>3. ASSUME NEW m \in received'
        PROVE  /\ m \in MessageType /\ m.key \in Key
               /\ m.source = m.key /\ m.source_offset = m.offset
               /\ m.object_length = IF m.data_length = 0 THEN 0 ELSE ObjectLength[m.key]
               /\ m.key[2] = 0 /\ m.offset = 0 => m.nb_previous = NbPrevious(m.key)
               /\ m.offset + m.data_length <= ObjectLength[m.key]
    <3>1. CASE m = x
      BY <1>3, <1>4, <1>8, <3>1
    <3>2. CASE m \in received
      BY <1>2, <3>2 DEF DatagramReceivedOK
    <3> QED
      BY <1>6, <3>1, <3>2
  <2> QED
    BY <2>1, <2>2, <2>3 DEF DatagramReceivedOK
\* What was dropped stays in the list.
<1>24. \A k : Dropped(k) \/ (drop /\ k = f.key) => Dropped(k)'
  <2>1. SUFFICES ASSUME NEW k, Dropped(k) \/ (drop /\ k = f.key) PROVE Dropped(k)'
    OBVIOUS
  <2>2. k \in DOMAIN o /\ o[k].is_dropped
    <3>1. CASE drop /\ k = f.key
      BY <1>5, <3>1
    <3>2. CASE Dropped(k)
      <4>1. k # f.key /\ k \in Listed /\ objects[k].is_dropped
        BY <1>3, <3>2 DEF ToSend, Dropped
      <4> QED
        BY <1>5, <4>1
    <3> QED
      BY <2>1, <3>1, <3>2
  <2>3. k \in Listed'
    BY <1>5, <1>17, <2>2
  <2> QED
    BY <1>5, <2>2, <2>3 DEF Dropped
<1>25. \A h \in Fragment : h # f /\ Untouched(h) => Untouched(h)'
  <2>1. SUFFICES ASSUME NEW h \in Fragment, h # f, Untouched(h), NEW m \in received', m.key = h.key
                 PROVE  /\ m.data_length = 0 => Dropped(h.key)'
                        /\ Bytes(m.offset, m.data_length) \cap Bytes(h.offset, h.data_length) = {}
    BY DEF Untouched
  <2>2. CASE m \in received
    <3>1. /\ m.data_length = 0 => Dropped(h.key)
          /\ Bytes(m.offset, m.data_length) \cap Bytes(h.offset, h.data_length) = {}
      BY <2>1, <2>2 DEF Untouched
    <3> QED
      BY <1>24, <3>1
  <2>3. CASE m = x
    <3>1. /\ f.data_length > 0 /\ h.data_length > 0
          /\ Bytes(f.offset, f.data_length) \cap Bytes(h.offset, h.data_length) = {}
      BY <1>3, <2>1, <2>3, PiecesApart
    <3>2. n = 0 => Dropped(h.key)'
      BY <1>3, <1>24, <2>1, <2>3, <3>1
    <3> QED
      BY <1>3, <1>8, <2>3, <3>1, <3>2
  <2> QED
    BY <1>6, <2>1, <2>2, <2>3
<1>26. UnsentOK'
  <2>1. ASSUME NEW h \in Fragment \ arrived PROVE Untouched(h)'
    <3>1. h # f
      BY <1>2 DEF CacheOK
    <3> QED
      BY <1>2, <1>25, <2>1, <3>1 DEF UnsentOK
  <2>2. ASSUME NEW i \in DOMAIN in_order, NEW j \in DOMAIN in_order, j < i, in_order[j] = f
        PROVE  Untouched(in_order[i])'
    <3>1. Untouched(in_order[i])
      BY <1>3, <2>2
    <3>2. PICK h : h = in_order[i]
      OBVIOUS
    <3>3. i \in Nat /\ j \in Nat
      BY <1>2, FS_CardinalityType DEF ListOK
    <3>4. h # f
      BY <1>2, <2>2, <3>2, <3>3 DEF ListOK
    <3>5. h \in Fragment
      BY <1>2, <3>2 DEF ListOK, CacheOK, Range
    <3>6. Untouched(h)'
      BY <1>25, <3>1, <3>2, <3>4, <3>5
    <3>7. h = in_order'[i]
      BY <1>1, <3>2
    <3> QED
      BY <3>6, <3>7
  <2> QED
    BY <1>1, <1>3, <2>1, <2>2 DEF UnsentOK
<1>27. CurrentOK'
  <2>1. ASSUME ~is_current_fragment_sent' PROVE ToSend(f, len + n)'
    <3>1. ~drop /\ len + n < f.data_length /\ n > 0 /\ x.offset = f.offset + len
      BY <1>3, <1>4, <2>1
    <3>2. ~Dropped(f.key)'
      BY <1>5, <3>1 DEF Dropped
    <3>3. ASSUME NEW m \in received', m.key = f.key
          PROVE  /\ m.data_length > 0
                 /\ Bytes(m.offset, m.data_length)
                      \cap Bytes(f.offset + (len + n), f.data_length - (len + n)) = {}
      <4>1. CASE m = x
        BY <1>3, <1>4, <3>1, <4>1 DEF Bytes
      <4>2. CASE m \in received
        <5>1. m.data_length > 0
              /\ Bytes(m.offset, m.data_length) \cap Bytes(f.offset + len, f.data_length - len) = {}
          BY <1>3, <3>3, <4>2 DEF ToSend
        <5>2. Bytes(f.offset + (len + n), f.data_length - (len + n))
                \subseteq Bytes(f.offset + len, f.data_length - len)
          BY <1>3, <1>4, <3>1 DEF Bytes
        <5> QED
          BY <5>1, <5>2
      <4> QED
        BY <1>6, <4>1, <4>2
    <3>4. f.key \in Listed'
      <4>1. SUFFICES ASSUME f.key \notin Listed' PROVE FALSE
        OBVIOUS
      <4>2. PassedBytes(f.key)' = Bytes(0, ObjectLength[f.key])
        BY <1>5, <1>16, <4>1
      <4>3. PICK b : b = f.offset + (len + n)
        OBVIOUS
      <4>4. /\ b \in Bytes(0, ObjectLength[f.key])
            /\ b \in Bytes(f.offset + (len + n), f.data_length - (len + n))
        BY <1>3, <1>4, <3>1, <4>3 DEF Bytes
      <4>5. PICK m \in received' : m.key = f.key /\ b \in Bytes(m.offset, m.data_length)
        BY <4>2, <4>4 DEF PassedBytes
      <4> QED
        BY <3>3, <4>4, <4>5
    <3> QED
      BY <3>1, <3>2, <3>3, <3>4 DEF ToSend
  <2>2. ~is_current_fragment_sent' => ToSend(current_fragment, length_sent)'
    BY <1>3, <2>1 DEF ToSend, Dropped
  <2>3. f # NoFragment
    BY <1>3, NoFragmentShape
  <2> QED
    BY <1>1, <1>3, <1>5, <2>2, <2>3 DEF CurrentOK
<1>28. PurgeSparesDatagrams'
  <2>1. SUFFICES ASSUME NEW h \in arrived \ fragments, ~Before(h.key, began_at')
                 PROVE  Complete(h.key)'
    BY <1>1 DEF PurgeSparesDatagrams
  <2>2. h.key \in Key /\ Before(h.key, first_point) /\ first_point \in Key
    BY <1>2, <2>1, FragmentShape DEF CacheOK
  <2>3. CASE Listed = {}
    <3>1. ~Before(f.key, first_point) /\ ~Before(h.key, f.key)
      BY <1>2, <1>3, <2>1, <2>3 DEF CacheOK
    <3>2. h.key \in Nat \X Nat /\ first_point \in Nat \X Nat
      BY <2>2, KeyShape
    <3> QED
      BY <1>4, <2>2, <3>1, <3>2, BeforeIsTotal
  <2>4. CASE Listed # {}
    BY <1>1, <1>2, <1>3, <1>14, <2>1, <2>2, <2>4 DEF PurgeSparesDatagrams
  <2> QED
    BY <2>3, <2>4
<1>29. CacheOK' /\ ListOK'
  BY <1>1, <1>2, CacheKept DEF ListOK
<1>30. QED
  BY <1>1, <1>22, <1>23, <1>26, <1>27, <1>28, <1>29 DEF DatagramInv

LEMMA DatagramStill ==
    ASSUME DatagramInv,
           UNCHANGED <<fragments, in_order, arrived, first_point, mode, dangling, received, repeated,
                       current_fragment, is_current_fragment_sent, length_sent, objects, began_at>>
    PROVE  DatagramInv'
<1>1. CacheOK'
  BY CacheKept DEF DatagramInv
<1>2. Listed' = Listed /\ FirstListed' = FirstListed
  BY DEF Listed, FirstListed
<1>3. CASE mode # "datagram"
  BY <1>1, <1>2, <1>3 DEF DatagramInv
<1>4. CASE mode = "datagram"
  <2>1. ListOK /\ CurrentOK /\ UnsentOK
    BY <1>4 DEF DatagramInv
  <2>2. ListOK'
    BY <2>1 DEF ListOK
  <2>3. CurrentOK'
    BY <1>2, <2>1 DEF CurrentOK, ToSend, Dropped
  <2>4. \A h : Untouched(h)' <=> Untouched(h)
    BY <1>2 DEF Untouched, Dropped
  <2>5. UnsentOK'
    BY <2>1, <2>4 DEF UnsentOK
  <2> QED
    BY <1>1, <1>4, <2>2, <2>3, <2>5, NothingSent
<1>5. QED
  BY <1>3, <1>4

LEMMA DatagramInvInitially ==
    ASSUME TransportInit
    PROVE  DatagramInv
<1>1. /\ fragments = {} /\ in_order = <<>> /\ arrived = {} /\ first_point = Origin
      /\ received = {} /\ repeated = FALSE /\ dangling = FALSE
      /\ current_fragment = NoFragment /\ is_current_fragment_sent = FALSE /\ length_sent = 0
      /\ objects = <<>> /\ began_at = Origin
  BY DEF TransportInit, SourceInit, DatagramInit
<1>2. Origin \in Key /\ Origin \in Nat \X Nat
  BY OriginIsKey DEF Origin
<1>3. DOMAIN in_order = {} /\ Listed = {}
  BY <1>1 DEF Listed
<1>4. CacheOK
  BY <1>1, <1>2 DEF CacheOK
<1>5. ListOK
  BY <1>1, <1>3, FS_EmptySet DEF ListOK, Range
<1>6. CurrentOK
  BY <1>1, <1>3 DEF CurrentOK
<1>7. UnsentOK
  BY <1>1, <1>3 DEF UnsentOK, Untouched
<1>8. ObjectsOK
  BY <1>1, <1>2, <1>3 DEF ObjectsOK
<1>9. DatagramReceivedOK /\ PurgeSparesDatagrams
  BY <1>1 DEF DatagramReceivedOK, PurgeSparesDatagrams
<1>10. QED
  BY <1>1, <1>3, <1>4, <1>5, <1>6, <1>7, <1>8, <1>9 DEF DatagramInv

LEMMA DatagramInvStep ==
    ASSUME DatagramInv, UniInv, [TransportNext]_vars
    PROVE  DatagramInv'
<1> DEFINE sent_vars == <<current_fragment, is_current_fragment_sent, length_sent, objects, began_at>>
<1>1. ASSUME WakeStream, WakeUp PROVE UNCHANGED <<mode, dangling, sent_vars>>
  <2>1. UNCHANGED <<mode, dangling>>
    BY <1>1 DEF WakeStream
  <2>2. UNCHANGED datagram_vars \/ DatagramWakeUp
    BY <1>1 DEF WakeUp
  <2> QED
    BY <2>1, <2>2 DEF datagram_vars, DatagramWakeUp
\* In the other modes only the cache matters.
<1>2. ASSUME mode # "datagram", CacheOK', UNCHANGED <<mode, current_fragment, objects>>
      PROVE  DatagramInv'
  <2>1. Listed' = Listed
    BY <1>2 DEF Listed
  <2> QED
    BY <1>2, <2>1 DEF DatagramInv
<1>3. CacheOK
  BY DEF DatagramInv
<1>4. ASSUME NEW f \in Fragment, Arrive(f) PROVE DatagramInv'
  <2>1. /\ AddToCache(f) /\ UNCHANGED <<received, repeated, mode, dangling, sent_vars>>
    BY <1>1, <1>4 DEF Arrive, consumer_vars
  <2>2. CASE mode = "datagram"
    BY <2>1, <2>2, ArriveDatagram
  <2>3. CASE mode # "datagram"
    BY <1>2, <1>3, <2>1, <2>3, CacheArrives
  <2> QED
    BY <2>2, <2>3
<1>5. CASE LearnEnd
  <2>1. UNCHANGED <<fragments, in_order, arrived, first_point, received, repeated, mode, dangling, sent_vars>>
    BY <1>1, <1>5 DEF LearnEnd, LearnEndPoint, consumer_vars
  <2> QED
    BY <2>1, DatagramStill
<1>6. ASSUME NEW i, Subscribe(i) PROVE DatagramInv'
  <2>1. UNCHANGED <<fragments, in_order, arrived, first_point, received, repeated, mode, dangling>>
    BY <1>6 DEF Subscribe, Request, source_vars, consumer_vars
  <2>2. UNCHANGED sent_vars
    BY <1>6 DEF Subscribe, DatagramWakeUp, datagram_vars
  <2> QED
    BY <2>1, <2>2, DatagramStill
<1>7. CASE StreamPublisherNext /\ UNCHANGED <<datagram_vars, uni_vars>>
  <2>1. mode = "single_stream" /\ UNCHANGED <<source_vars, mode>>
    BY <1>7, StreamStepFrame
  <2> QED
    BY <1>2, <1>3, <1>7, <2>1, CacheKept DEF source_vars, datagram_vars
<1>8. CASE DatagramPublisherNext
  <2>1. ASSUME NEW n \in 0..Max({f.data_length : f \in Fragment}), NEW drop \in BOOLEAN,
               SendDatagram(n, drop)
        PROVE  DatagramInv'
    <3>1. n \in Nat
      BY <2>1
    <3> QED
      BY <2>1, <3>1, SendDatagramKeeps
  <2> QED
    BY <1>8, <2>1, DatagramIdleKeeps DEF DatagramPublisherNext
<1>9. ASSUME NEW s \in DOMAIN uni, UniStreamStep(s), UNCHANGED datagram_vars PROVE DatagramInv'
  <2>1. mode # "datagram"
    BY DEF UniInv, StreamsOK, OnUniStreams
  <2>2. UNCHANGED <<source_vars, mode>>
    BY <1>9, UniStepFrame
  <2> QED
    BY <1>2, <1>3, <1>9, <2>1, <2>2, CacheKept DEF source_vars, datagram_vars
<1>10. CASE Purge
  BY <1>10, PurgeDatagram
<1>11. CASE ControlEnds
  BY <1>11, DatagramStill DEF ControlEnds, SenderDeletes, PeerDeletes, ControlUnchanged,
     source_vars, stream_vars, consumer_vars, datagram_vars
<1>12. CASE UNCHANGED vars
  BY <1>12, DatagramStill DEF vars, source_vars, stream_vars, consumer_vars, datagram_vars
<1>13. QED
  BY <1>4, <1>5, <1>6, <1>7, <1>8, <1>9, <1>10, <1>11, <1>12 DEF TransportNext, Progress

\* The next message of the single stream comes after the last one.
LEMMA NextComesAfter ==
    ASSUME StreamInv, mode = "single_stream", last_sent # NoMessage, NEW x,
           \/ x.key = next_point /\ x.offset = next_offset
           \/ x.key = NextGroup(next_point) /\ x.offset = 0 /\ next_offset = 0
    PROVE  ComesAfter(x, last_sent)
<1>1. last_sent \in MessageType /\ FollowsMessage(last_sent)
  BY DEF StreamInv, LabelsOK
<1>2. NextGroup(NextObject(last_sent.key)) = NextGroup(last_sent.key)
  BY DEF NextGroup, NextObject
<1>3. QED
  BY <1>1, <1>2 DEF FollowsMessage, ComesAfter

LEMMA MessagesComeInOrder ==
    ASSUME StreamInv, [TransportNext]_vars,
           "delay" \notin Congestions \/ "single_stream" \notin Modes
    PROVE  last_sent = NoMessage \/ last_sent' = last_sent \/ ComesAfter(last_sent', last_sent)
<1>1. CASE UNCHANGED last_sent
  BY <1>1
<1>2. CASE SkipObject
  <2>1. PICK got : got = GetData(reader)
    OBVIOUS
  <2> DEFINE label == Label(got)
  <2>2. /\ mode = "single_stream" /\ ~got.finished /\ got.reader.fragment # NoFragment
        /\ ShouldSkip(got.reader)
        /\ last_sent' = PlaceHolder(label.key, label.nb_previous, got.reader.current)
    BY <1>2, <2>1 DEF SkipObject, Prepares, SendMessage
  <2>3. /\ got.reader.fragment.key = got.reader.current
        /\ label.offset = got.reader.offset + got.reader.length_sent
        /\ \/ label.key = next_point /\ label.offset = next_offset
           \/ got.reader.current[2] = 0
    BY <1>2, <2>1, <2>2, GetDataShape DEF SkipObject, Prepares
  <2>4. /\ got.reader.offset = 0 /\ got.reader.length_sent = 0 /\ got.reader.fragment.key[2] # 0
    BY <2>2 DEF ShouldSkip, StreamInv
  <2> HIDE DEF label
  <2>5. last_sent'.key = label.key /\ last_sent'.offset = 0
    BY <2>2 DEF PlaceHolder, Passed
  <2> QED
    BY <2>2, <2>3, <2>4, <2>5, NextComesAfter
<1>3. ASSUME NEW n, SendFragment(n)
      PROVE  last_sent = NoMessage \/ ComesAfter(last_sent', last_sent)
  <2>1. PICK got : got = GetData(reader)
    OBVIOUS
  <2> DEFINE label == Label(got)
             r == got.reader
  <2>2. /\ mode = "single_stream" /\ ~got.finished /\ got.reader.fragment # NoFragment
        /\ last_sent' = Passed(label.key, label.offset, label.nb_previous, r.fragment.key,
                               r.fragment.offset + r.length_sent, ObjectLength[r.fragment.key], n)
    BY <1>3, <2>1 DEF SendFragment, Prepares, SendMessage
  <2>3. \/ label.key = next_point /\ label.offset = next_offset
        \/ label.key = NextGroup(next_point) /\ label.offset = 0 /\ next_offset = 0
    BY <1>3, <2>1, <2>2, GetDataShape DEF SendFragment, Prepares
  <2> HIDE DEF label
  <2>4. last_sent'.key = label.key /\ last_sent'.offset = label.offset
    BY <2>2 DEF Passed
  <2> QED
    BY <2>2, <2>3, <2>4, NextComesAfter
<1>4. CASE SendStartPoint \/ SendCachePolicy \/ SendNothing \/ ProbeReady
  BY <1>1, <1>4 DEF SendStartPoint, SendCachePolicy, SendPreamble, SendNothing, ProbeReady
<1>5. CASE StreamPublisherNext
  BY <1>2, <1>3, <1>4, <1>5 DEF StreamPublisherNext
<1>6. ASSUME WakeUp PROVE UNCHANGED last_sent
  BY <1>6 DEF WakeUp, StreamWakeUp, publisher_vars
<1>7. CASE (\E f \in Fragment : Arrive(f)) \/ LearnEnd
  BY <1>1, <1>6, <1>7 DEF Arrive, LearnEnd
<1>8. CASE \E i \in Intents[mode] : Subscribe(i)
  BY <1>1, <1>8 DEF Subscribe, StreamRequest, publisher_vars
<1>9. CASE Purge \/ ControlEnds
  BY <1>1, <1>9 DEF Purge, ControlEnds, publisher_vars
<1>10. CASE UNCHANGED publisher_vars \/ UNCHANGED vars
  BY <1>1, <1>10 DEF vars, publisher_vars
<1>11. QED
  BY <1>5, <1>7, <1>8, <1>9, <1>10 DEF TransportNext, Progress

----------------------------------------------------------------------------
(* Theorems about all modes.                                               *)

LEMMA TypesFollow ==
    ASSUME UniInv, StreamInv, DatagramInv
    PROVE  TransportTypeOK
<1>1. mode \in {"single_stream", "datagram", "warp", "rush"}
  BY DEF UniInv, TransportMode
<1>2. received \subseteq MessageType
  <2>1. CASE mode = "single_stream"
    BY <2>1 DEF StreamInv, StreamReceivedOK
  <2>2. CASE mode = "datagram"
    BY <2>2 DEF DatagramInv, DatagramReceivedOK
  <2>3. CASE OnUniStreams
    BY <2>3 DEF UniInv, UniReceivedOK
  <2> QED
    BY <1>1, <2>1, <2>2, <2>3 DEF OnUniStreams
<1>3. /\ reader.fragment \in Fragment \cup {NoFragment}
      /\ send_state \in SendState
  <2>1. CASE mode = "single_stream"
    BY <2>1 DEF StreamInv, ReaderOK, StreamReader
  <2>2. CASE mode # "single_stream"
    BY <2>2 DEF StreamInv, SendState
  <2> QED
    BY <2>1, <2>2
<1>4. /\ current_fragment \in Fragment \cup {NoFragment} /\ Listed \subseteq Key
      /\ \A k \in Listed : objects[k] \in ObjectState
  <2>1. CASE mode = "datagram"
    BY <2>1 DEF DatagramInv, CurrentOK, ObjectsOK
  <2>2. CASE mode # "datagram"
    BY <2>2 DEF DatagramInv
  <2> QED
    BY <2>1, <2>2
<1>5. /\ fragments \subseteq arrived /\ arrived \subseteq Fragment /\ first_point \in Key
      /\ mode = "datagram" => Range(in_order) = fragments
  BY DEF DatagramInv, CacheOK, ListOK
<1>6. start_point \in Nat \X Nat
  BY DEF StreamInv
<1>7. DOMAIN uni \subseteq Key /\ DOMAIN wire = DOMAIN uni /\ DOMAIN peer_uni = DOMAIN uni
  BY DEF UniInv, StreamsOK
<1>8. QED
  BY <1>2, <1>3, <1>4, <1>5, <1>6, <1>7 DEF TransportTypeOK

LEMMA TruthFollows ==
    ASSUME UniInv, StreamInv, DatagramInv, Numbered
    PROVE  TrueFragments
<1>1. mode \in {"single_stream", "datagram", "warp", "rush"}
  BY DEF UniInv, TransportMode
<1>2. CASE mode = "single_stream"
  BY <1>2 DEF StreamInv, StreamReceivedOK, TrueMessage, TrueFragments, Numbered
<1>3. CASE mode = "datagram"
  BY <1>3 DEF DatagramInv, DatagramReceivedOK, TrueFragments
<1>4. CASE OnUniStreams
  BY <1>4 DEF UniInv, UniReceivedOK, TrueFragments
<1>5. QED
  BY <1>1, <1>2, <1>3, <1>4 DEF OnUniStreams

LEMMA OnceFollows ==
    ASSUME UniInv, StreamInv, DatagramInv, OpenedInv
    PROVE  SentOnce
<1>1. mode \in {"single_stream", "datagram", "warp", "rush"}
  BY DEF UniInv, TransportMode
<1>2. CASE mode = "single_stream"
  BY <1>2 DEF StreamInv, StreamReceivedOK, OpenedInv, SentOnce
<1>3. CASE mode = "datagram"
  BY <1>3 DEF DatagramInv, DatagramReceivedOK, OpenedInv, SentOnce
<1>4. CASE OnUniStreams
  BY <1>4 DEF UniInv, UniReceivedOK, OpenedInv, SentOnce
<1>5. QED
  BY <1>1, <1>2, <1>3, <1>4 DEF OnUniStreams

LEMMA EndFollows ==
    ASSUME UniInv, StreamInv, Numbered
    PROVE  ClosedMeansSent
<1>1. ASSUME announced # NoMessage
      PROVE  announced = FinalPoint /\ \A k \in Key : Before(k, start_point) \/ Complete(k)
  <2>1. AnnouncedOK /\ StreamReceivedOK /\ ~Misnumbered
    BY <1>1 DEF StreamInv, Numbered
  <2>2. announced = FinalPoint /\ next_point = FinalPoint
    BY <1>1, <2>1 DEF AnnouncedOK
  <2> QED
    BY <2>1, <2>2, KeyBeforeFinal DEF StreamReceivedOK
<1>2. ASSUME NEW s \in DOMAIN peer_uni, NEW k \in Key,
             peer_uni[s].receive_state = "closed", Carries(s, k)
      PROVE  Complete(k)
  <2>1. s \in DOMAIN uni /\ OnUniStreams
    BY <1>2 DEF UniInv, StreamsOK
  <2>2. PeerPlace(s).phase = "closed"
    BY <1>2 DEF PeerPlace, AtEnd, Place
  <2>3. Filled(PeerPlace(s), k)
    BY <1>2, <2>1 DEF UniInv, UniReceivedOK
  <2> QED
    BY <2>2, <2>3 DEF Filled
<1>3. QED
  BY <1>1, <1>2 DEF ClosedMeansSent

\* The cache of a single stream starts at 0/0 as long as it is not purged, and
\* with it the numbers of the stream.
LEMMA NumberedSubscribe ==
    ASSUME Numbered, mode = "single_stream", mode \in Modes, NumberingKept,
           NEW i \in Intents[mode], Subscribe(i)
    PROVE  Numbered'
<1>1. /\ intent_point' = IntentPoint(i) /\ start_point' = ReadPoint(i)
      /\ UNCHANGED <<mode, first_point>> /\ first_point = Origin
  BY DEF Subscribe, Request, source_vars, Numbered
<1>2. i \in Intent
  BY SourceAssumption
<1>3. start_point' = IntentPoint(i)
  BY <1>1 DEF ReadPoint
<1>4. /\ IntentPoint(i) \in Nat \X Nat
      /\ IntentPoint(i)[2] = 0 \/ (i.intent = "start_point" /\ IntentPoint(i) = i.point)
  BY <1>2, IntentShape
<1>5. ASSUME start_point'[1] \in Group \ {LastGroup}
      PROVE  ~(start_point'[2] >= NbObjects[start_point'[1]])
  <2>1. NbObjects[start_point'[1]] \in Nat \ {0}
    BY <1>5, MediaAssumption
  <2>2. CASE IntentPoint(i)[2] = 0
    BY <1>3, <2>1, <2>2
  <2>3. CASE i.intent = "start_point" /\ IntentPoint(i) = i.point
    <3>1. i.point[2] < NbObjects[i.point[1]]
      BY <1>3, <1>5, <2>3 DEF NumberingKept
    <3> QED
      BY <1>3, <1>4, <2>1, <2>3, <3>1
  <2> QED
    BY <1>4, <2>2, <2>3
<1>6. ~(intent_point' = Origin /\ start_point' # Origin)
  BY <1>1, <1>3
<1>7. QED
  BY <1>1, <1>5, <1>6 DEF Numbered, Misnumbered

LEMMA NumberedStep ==
    ASSUME Numbered, StreamInv, UniInv, NumberingKept, [TransportNext]_vars
    PROVE  Numbered'
<1>1. ASSUME UNCHANGED <<mode, first_point, start_point, intent_point>> PROVE Numbered'
  BY <1>1 DEF Numbered, Misnumbered
<1>2. CASE (\E f \in Fragment : Arrive(f)) \/ LearnEnd
  BY <1>1, <1>2 DEF Arrive, AddToCache, LearnEnd, LearnEndPoint, WakeStream
<1>3. ASSUME NEW i \in Intents[mode], Subscribe(i) PROVE Numbered'
  <2>1. CASE mode = "single_stream"
    BY <1>3, <2>1, NumberedSubscribe DEF StreamInv
  <2>2. CASE mode # "single_stream"
    BY <1>3, <2>2 DEF Subscribe, Request, Numbered
  <2> QED
    BY <2>1, <2>2
<1>4. CASE StreamPublisherNext
  BY <1>1, <1>4, StreamStepFrame DEF source_vars
<1>5. CASE DatagramPublisherNext
  BY <1>1, <1>5 DEF DatagramPublisherNext, SendDatagram, DatagramIdle, source_vars, stream_vars
<1>6. CASE \E s \in DOMAIN uni : UniStreamStep(s)
  BY <1>1, <1>6, UniStepFrame DEF source_vars
<1>7. CASE Purge
  <2>1. mode # "single_stream"
    BY <1>7 DEF Purge, NumberingKept, StreamInv
  <2> QED
    BY <1>7, <2>1 DEF Purge, Numbered
<1>8. CASE ControlEnds
  BY <1>1, <1>8 DEF ControlEnds, SenderDeletes, PeerDeletes, ControlUnchanged, source_vars, stream_vars
<1>9. CASE UNCHANGED vars
  BY <1>1, <1>9 DEF vars, source_vars, stream_vars
<1>10. QED
  BY <1>2, <1>3, <1>4, <1>5, <1>6, <1>7, <1>8, <1>9 DEF TransportNext, Progress

\* What the single stream carries, for every REQUEST and every purge, unless
\* its congestion mode is delay, in which an object may be given up in the
\* middle: nothing is sent twice, each message follows the last one, and the
\* group and object numbers that quicrq_prepare_to_send_media_to_stream counts
\* are those of the object that quicrq_fragment_publisher_fn is reading, with
\* all that lies before them sent, but in the two cases of Misnumbered.
THEOREM StreamInvariantHolds ==
    ASSUME "delay" \notin Congestions \/ "single_stream" \notin Modes
    PROVE  TransportSpec => []StreamInv
<1>1. TransportInit => StreamInv
  BY StreamInvInitially
<1>2. StreamInv /\ UniInv /\ [TransportNext]_vars => StreamInv'
  BY StreamInvStep
<1>3. QED
  BY <1>1, <1>2, UniInvariantHolds, PTL DEF TransportSpec

\* What the datagram publisher of lib/fragment.c keeps, whatever the order of
\* arrival, the congestion and the purges of the cache: the fragments linked
\* after the current one, and those to come, were not sent, what is left of
\* the current one was not either, the bytes counted for an object in the
\* list are the bytes that were sent, and what comes before the list, from
\* the first object sent on, was sent in full.
THEOREM DatagramInvariantHolds == TransportSpec => []DatagramInv
<1>1. TransportInit => DatagramInv
  BY DatagramInvInitially
<1>2. DatagramInv /\ UniInv /\ [TransportNext]_vars => DatagramInv'
  BY DatagramInvStep
<1>3. QED
  BY <1>1, <1>2, UniInvariantHolds, PTL DEF TransportSpec

\* A purge of the cache (quicrq_fragment_cache_media_purge_to_gob) deletes no
\* fragment that a datagram reader has still to send, for any media and any
\* number of purges.
THEOREM DatagramsSpared == TransportSpec => []PurgeSparesDatagrams
<1>1. DatagramInv => PurgeSparesDatagrams
  BY DEF DatagramInv, PurgeSparesDatagrams
<1>2. QED
  BY <1>1, DatagramInvariantHolds, PTL

\* The contexts of lib/quicrq_internal.h and lib/quicrq_fragment.h hold values
\* of their types, in all four modes.
THEOREM TransportTypesHold ==
    ASSUME "delay" \notin Congestions \/ "single_stream" \notin Modes
    PROVE  TransportSpec => []TransportTypeOK
<1>1. UniInv /\ StreamInv /\ DatagramInv => TransportTypeOK
  BY TypesFollow
<1>2. QED
  BY <1>1, UniInvariantHolds, StreamInvariantHolds, DatagramInvariantHolds, PTL

\* The numbers of the single stream are those of the media when the cache of
\* quicrq_fragment_publisher_subscribe is not purged and no REQUEST starts past
\* the end of a group.
THEOREM NumbersHold ==
    ASSUME "delay" \notin Congestions \/ "single_stream" \notin Modes, NumberingKept
    PROVE  TransportSpec => []Numbered
<1>1. TransportInit => Numbered
  <2>1. ASSUME TransportInit
        PROVE  first_point = Origin /\ start_point = Origin /\ intent_point = <<>>
    BY <2>1 DEF TransportInit, SourceInit
  <2>2. NbObjects[0] \in Nat \ {0} /\ 0 \in Group
    BY MediaAssumption DEF Group
  <2> QED
    BY <2>1, <2>2 DEF Numbered, Misnumbered, Origin
<1>2. Numbered /\ StreamInv /\ UniInv /\ [TransportNext]_vars => Numbered'
  BY NumberedStep
<1>3. QED
  BY <1>1, <1>2, UniInvariantHolds, StreamInvariantHolds, PTL DEF TransportSpec

\* In each mode, what is passed to the consumer is what its label says, for
\* any cut of the objects into fragments and any order of their arrival.  A
\* single stream counts its labels by itself: for it the cache must not be
\* purged and the REQUEST must not start past the end of a group
\* (NumberingKept); without that the labels of lib/quicrq.c are wrong.
THEOREM FragmentsAreTrue ==
    ASSUME "delay" \notin Congestions \/ "single_stream" \notin Modes, NumberingKept
    PROVE  TransportSpec => []TrueFragments
<1>1. UniInv /\ StreamInv /\ DatagramInv /\ Numbered => TrueFragments
  BY TruthFollows
<1>2. QED
  BY <1>1, UniInvariantHolds, StreamInvariantHolds, DatagramInvariantHolds, NumbersHold, PTL

\* In each mode, no byte is sent twice, no object is both dropped and sent,
\* and none gets a second stream, whatever the REQUEST starts at.
THEOREM EverythingSentOnce ==
    ASSUME "delay" \notin Congestions \/ "single_stream" \notin Modes
    PROVE  TransportSpec => []SentOnce
<1>1. UniInv /\ StreamInv /\ DatagramInv /\ OpenedInv => SentOnce
  BY OnceFollows
<1>2. QED
  BY <1>1, UniInvariantHolds, StreamInvariantHolds, DatagramInvariantHolds, StreamsOpenedOnce, PTL

\* The end of a stream is announced when everything on it was sent: the final
\* point of a single stream whose numbers are kept, the FIN of a warp or rush
\* stream.
THEOREM EndsAreTrue ==
    ASSUME "delay" \notin Congestions \/ "single_stream" \notin Modes, NumberingKept
    PROVE  TransportSpec => []ClosedMeansSent
<1>1. UniInv /\ StreamInv /\ Numbered => ClosedMeansSent
  BY EndFollows
<1>2. QED
  BY <1>1, UniInvariantHolds, StreamInvariantHolds, NumbersHold, PTL

\* The messages of a single stream come in the order of doc/protocol.md, each
\* after the one before it.
THEOREM StreamsInOrder ==
    ASSUME "delay" \notin Congestions \/ "single_stream" \notin Modes
    PROVE  TransportSpec => StreamInOrder
<1>1. StreamInv /\ [TransportNext]_vars =>
        [\/ last_sent = NoMessage
         \/ last_sent' = last_sent
         \/ ComesAfter(last_sent', last_sent)]_vars
  BY MessagesComeInOrder
<1>2. QED
  BY <1>1, StreamInvariantHolds, PTL DEF TransportSpec, StreamInOrder
=============================================================================
