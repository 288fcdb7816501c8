------------------------- MODULE PacketList_proofs -------------------------
(***************************************************************************)
(* Proofs about the list of packets of an object under reassembly: it      *)
(* holds the bytes that came, each once, and makes up the object.          *)
(***************************************************************************)
EXTENDS PacketList, FiniteSetTheorems, TLAPS

APacket == [offset : Nat, data_length : Nat, data : Nat]

----------------------------------------------------------------------------
(* Lemmas about lists and bytes.                                           *)

\* List t is list s with e before its i-th element.
Inserted(t, s, i, e) ==
    /\ Len(t) = Len(s) + 1
    /\ \A j \in 1..(Len(s) + 1) :
         t[j] = IF j < i THEN s[j] ELSE IF j = i THEN e ELSE s[j - 1]

\* What InsertAt returns.
LEMMA InsertShape ==
    ASSUME NEW S, NEW s \in Seq(S), NEW i \in 1..(Len(s) + 1), NEW e \in S
    PROVE  InsertAt(s, i, e) \in Seq(S) /\ Inserted(InsertAt(s, i, e), s, i, e)
<1> DEFINE a == SubSeq(s, 1, i - 1)
           c == SubSeq(s, i, Len(s))
           l == a \o <<e>>
<1>1. a \in Seq(S) /\ Len(a) = i - 1 /\ \A j \in 1..(i - 1) : a[j] = s[j]
  OBVIOUS
<1>2. /\ c \in Seq(S) /\ Len(c) = Len(s) - i + 1
      /\ \A j \in 1..(Len(s) - i + 1) : c[j] = s[i + j - 1]
  OBVIOUS
<1> HIDE DEF a, c
<1>3. /\ l \in Seq(S) /\ Len(l) = i /\ l[i] = e
      /\ \A j \in 1..(i - 1) : l[j] = s[j]
  BY <1>1
<1> HIDE DEF l
<1>4. /\ l \o c \in Seq(S) /\ Len(l \o c) = Len(s) + 1
      /\ \A j \in 1..(Len(s) + 1) : (l \o c)[j] = IF j <= i THEN l[j] ELSE c[j - i]
  BY <1>2, <1>3
<1>5. \A j \in 1..(Len(s) + 1) : j > i => c[j - i] = s[j - 1]
  BY <1>2
<1>6. InsertAt(s, i, e) = l \o c
  BY DEF InsertAt, l, a, c
<1>7. QED
  BY <1>3, <1>4, <1>5, <1>6 DEF Inserted

\* The bytes of a stretch of data, and their number.
LEMMA StretchCounted ==
    ASSUME NEW o \in Nat, NEW n \in Nat
    PROVE  IsFiniteSet(o..(o + n - 1)) /\ Cardinality(o..(o + n - 1)) = n
<1>1. o \in Int /\ o + n - 1 \in Int
  OBVIOUS
<1>2. IsFiniteSet(o..(o + n - 1))
      /\ Cardinality(o..(o + n - 1)) = IF o > o + n - 1 THEN 0 ELSE (o + n - 1) - o + 1
  BY <1>1, FS_Interval
<1>3. QED
  BY <1>2

\* A stretch that is cut in two.
LEMMA StretchCut ==
    ASSUME NEW a \in Int, NEW b \in Int, NEW c \in Int, a <= b, b <= c
    PROVE  a..(c - 1) = (a..(b - 1)) \cup (b..(c - 1))
  OBVIOUS

\* A set of bytes of the object is counted, and has as many as the object
\* only when it is the whole object.
LEMMA BytesCounted ==
    ASSUME NEW L \in Nat, NEW B \in SUBSET (0..(L - 1))
    PROVE  /\ IsFiniteSet(B) /\ Cardinality(B) \in Nat /\ Cardinality(B) <= L
           /\ Cardinality(B) = L <=> B = 0..(L - 1)
<1>1. IsFiniteSet(0..(0 + L - 1)) /\ Cardinality(0..(0 + L - 1)) = L
  BY StretchCounted
<1>2. 0 + L - 1 = L - 1
  OBVIOUS
<1>3. IsFiniteSet(0..(L - 1)) /\ Cardinality(0..(L - 1)) = L
  BY <1>1, <1>2
<1>4. IsFiniteSet(B) /\ Cardinality(B) <= L
      /\ (Cardinality(B) = Cardinality(0..(L - 1)) => B = 0..(L - 1))
  BY <1>3, FS_Subset
<1>5. Cardinality(B) \in Nat
  BY <1>4, FS_CardinalityType
<1>6. QED
  BY <1>3, <1>4, <1>5

\* Membership in the bytes of the list.
LEMMA HeldMember ==
    ASSUME NEW b
    PROVE  b \in Held <=> \E i \in DOMAIN packets : b \in BytesOf(packets[i])
  BY DEF Held

\* The list holds bytes of the object only.
LEMMA HeldBounded ==
    ASSUME PacketTypeOK, ListOK
    PROVE  Held \in SUBSET ObjectBytes
<1>1. packets \in Seq(APacket) /\ object_length \in Nat
  BY DEF PacketTypeOK, APacket
<1>2. ASSUME NEW i \in DOMAIN packets
      PROVE  BytesOf(packets[i]) \subseteq ObjectBytes
  <2>1. packets[i] \in APacket
    BY <1>1
  <2>2. packets[i].offset \in Nat /\ End(packets[i]) \in Nat
    BY <2>1 DEF APacket, End
  <2>3. End(packets[i]) <= object_length
    BY DEF ListOK
  <2>4. QED
    BY <1>1, <2>2, <2>3 DEF BytesOf, ObjectBytes
<1>3. QED
  BY <1>2 DEF Held

----------------------------------------------------------------------------
(* quicrq_reassembly_object_create_packet.                                 *)

\* A packet that fits between those passed and those to come keeps the list
\* in order, and adds its bytes to the list and to the count.
LEMMA CreateStep ==
    ASSUME PacketTypeOK, ListOK, CountOK, NEW n \in Nat, CreatePacket(n),
           object_length' = object_length,
           at <= Len(packets) + 1,
           incoming.data = incoming.offset, incoming.offset + n <= object_length,
           \A i \in DOMAIN packets : i < at => End(packets[i]) <= incoming.offset,
           \A i \in DOMAIN packets : i >= at => incoming.offset + n <= packets[i].offset
    PROVE  /\ packets' \in Seq(APacket) /\ Len(packets') = Len(packets) + 1
           /\ \A j \in 1..(Len(packets) + 1) :
                packets'[j] = IF j < at THEN packets[j]
                              ELSE IF j = at THEN Packet(incoming.offset, n, incoming.data)
                              ELSE packets[j - 1]
           /\ data_received' \in Nat
           /\ ListOK' /\ CountOK'
           /\ Held' = Held \cup (incoming.offset..(incoming.offset + n - 1))
<1> DEFINE new == Packet(incoming.offset, n, incoming.data)
           bytes == incoming.offset..(incoming.offset + n - 1)
<1>1. /\ packets \in Seq(APacket) /\ at \in 1..(Len(packets) + 1)
      /\ incoming \in APacket /\ data_received \in Nat /\ object_length \in Nat
  BY DEF PacketTypeOK, APacket
<1>2. new \in APacket /\ new.offset = incoming.offset /\ new.data_length = n
      /\ new.data = incoming.data
  BY <1>1 DEF Packet, APacket
<1>3. packets' = InsertAt(packets, at, new)
  BY DEF CreatePacket
<1> HIDE DEF new
<1>4. /\ packets' \in Seq(APacket) /\ Len(packets') = Len(packets) + 1
      /\ \A j \in 1..(Len(packets) + 1) :
           packets'[j] = IF j < at THEN packets[j]
                         ELSE IF j = at THEN new ELSE packets[j - 1]
  <2> DEFINE list == InsertAt(packets, at, new)
  <2>1. list \in Seq(APacket) /\ Inserted(list, packets, at, new)
    BY <1>1, <1>2, InsertShape
  <2>2. packets' = list
    BY <1>3
  <2>3. QED
    BY <2>1, <2>2 DEF Inserted
<1>5. DOMAIN packets = 1..Len(packets) /\ DOMAIN packets' = 1..(Len(packets) + 1)
      /\ Len(packets) \in Nat
  BY <1>1, <1>4
<1>6. /\ \A i \in DOMAIN packets : packets[i] \in APacket
      /\ \A i \in DOMAIN packets' :
           i # at => \E j \in DOMAIN packets : packets'[i] = packets[j]
  <2>1. \A i \in DOMAIN packets : packets[i] \in APacket
    BY <1>1
  <2>2. ASSUME NEW i \in DOMAIN packets', i # at
        PROVE  \E j \in DOMAIN packets : packets'[i] = packets[j]
    <3>1. CASE i < at
      BY <3>1, <1>1, <1>4, <1>5
    <3>2. CASE i > at
      <4>1. i - 1 \in DOMAIN packets /\ packets'[i] = packets[i - 1]
        BY <3>2, <1>1, <1>4, <1>5
      <4>2. QED
        BY <4>1
    <3>3. QED
      BY <2>2, <3>1, <3>2, <1>1, <1>5
  <2>3. QED
    BY <2>1, <2>2
<1>7. ListOK'
  <2>1. ASSUME NEW i \in DOMAIN packets'
        PROVE  packets'[i].data = packets'[i].offset /\ End(packets'[i]) <= object_length
    <3>1. CASE i = at
      BY <3>1, <1>1, <1>2, <1>4, <1>5 DEF End
    <3>2. CASE i # at
      <4>1. PICK j \in DOMAIN packets : packets'[i] = packets[j]
        BY <3>2, <1>6
      <4>2. QED
        BY <4>1 DEF ListOK
    <3>3. QED
      BY <3>1, <3>2
  <2>2. ASSUME NEW i \in DOMAIN packets', NEW j \in DOMAIN packets', i < j
        PROVE  End(packets'[i]) <= packets'[j].offset
    <3>1. i \in Nat /\ j \in Nat /\ at \in Nat /\ incoming.offset \in Nat
      BY <1>1, <1>5 DEF APacket
    <3>2. i < at => i \in DOMAIN packets /\ packets'[i] = packets[i]
      BY <1>1, <1>4, <1>5
    <3>3. i > at => i - 1 \in DOMAIN packets /\ packets'[i] = packets[i - 1]
      BY <1>1, <1>4, <1>5
    <3>4. j < at => j \in DOMAIN packets /\ packets'[j] = packets[j]
      BY <1>1, <1>4, <1>5
    <3>5. j > at => j - 1 \in DOMAIN packets /\ packets'[j] = packets[j - 1]
      BY <1>1, <1>4, <1>5
    <3>6. packets'[at] = new
      BY <1>1, <1>4, <1>5
    <3>7. CASE i < at /\ j < at
      BY <2>2, <3>2, <3>4, <3>7 DEF ListOK
    <3>8. CASE i < at /\ j = at
      BY <1>2, <3>2, <3>6, <3>8
    <3>9. CASE i < at /\ j > at
      <4>1. i < j - 1
        BY <3>1, <3>9
      <4>2. QED
        BY <3>2, <3>5, <3>9, <4>1 DEF ListOK
    <3>10. CASE i = at
      <4>1. End(packets'[i]) = incoming.offset + n
        BY <1>2, <3>6, <3>10 DEF End
      <4>2. j > at /\ j - 1 >= at
        BY <2>2, <3>1, <3>10
      <4>3. QED
        BY <3>5, <4>1, <4>2
    <3>11. CASE i > at
      <4>1. j > at /\ i - 1 < j - 1
        BY <2>2, <3>1, <3>11
      <4>2. QED
        BY <3>3, <3>5, <3>11, <4>1 DEF ListOK
    <3>12. QED
      BY <2>2, <3>1, <3>7, <3>8, <3>9, <3>10, <3>11
  <2>3. QED
    BY <2>1, <2>2 DEF ListOK, End
<1>8. BytesOf(new) = bytes
  <2>1. incoming.offset \in Nat
    BY <1>1 DEF APacket
  <2>2. new.offset + new.data_length - 1 = incoming.offset + n - 1
    BY <1>2
  <2>3. QED
    BY <2>1, <2>2, <1>2, SMT DEF BytesOf, End
<1>9. Held' = Held \cup bytes
  <2>1. ASSUME NEW b \in Held' PROVE b \in Held \cup bytes
    <3>1. PICK i \in DOMAIN packets' : b \in BytesOf(packets'[i])
      BY <2>1 DEF Held, BytesOf, End
    <3>2. CASE i = at
      <4>1. packets'[i] = new
        BY <3>2, <1>1, <1>4, <1>5
      <4>2. QED
        BY <3>1, <4>1, <1>8
    <3>3. CASE i # at
      <4>1. PICK j \in DOMAIN packets : packets'[i] = packets[j]
        BY <3>3, <1>6
      <4>2. QED
        BY <3>1, <4>1, HeldMember
    <3>4. QED
      BY <3>2, <3>3
  <2>2. ASSUME NEW b \in Held PROVE b \in Held'
    <3>1. PICK j \in DOMAIN packets : b \in BytesOf(packets[j])
      BY <2>2, HeldMember
    <3>2. PICK i \in DOMAIN packets' : packets'[i] = packets[j]
      <4>1. CASE j < at
        BY <4>1, <1>1, <1>4, <1>5
      <4>2. CASE j >= at
        <5>1. j + 1 \in DOMAIN packets' /\ packets'[j + 1] = packets[j]
          BY <4>2, <1>1, <1>4, <1>5
        <5>2. QED
          BY <5>1
      <4>3. QED
        BY <4>1, <4>2, <1>1, <1>5
    <3>3. QED
      BY <3>1, <3>2 DEF Held, BytesOf, End
  <2>3. ASSUME NEW b \in bytes PROVE b \in Held'
    <3>1. at \in DOMAIN packets' /\ packets'[at] = new
      BY <1>1, <1>4, <1>5
    <3>2. QED
      BY <2>3, <3>1, <1>8 DEF Held, BytesOf, End
  <2>4. QED
    BY <2>1, <2>2, <2>3
<1>10. Held \cap bytes = {}
  <2>1. SUFFICES ASSUME NEW b \in bytes, b \in Held PROVE FALSE
    OBVIOUS
  <2>2. PICK i \in DOMAIN packets : b \in BytesOf(packets[i])
    BY <2>1, HeldMember
  <2>3. b >= packets[i].offset /\ b < End(packets[i]) /\ b \in Int
    BY <2>2, <1>6 DEF BytesOf, End, APacket
  <2>4. End(packets[i]) \in Nat /\ packets[i].offset \in Nat
    BY <1>6 DEF End, APacket
  <2>5. incoming.offset \in Nat
    BY <1>1 DEF APacket
  <2>6. CASE i < at
    BY <2>1, <2>3, <2>4, <2>5, <2>6
  <2>7. CASE i >= at
    BY <2>1, <2>3, <2>4, <2>5, <2>7
  <2>8. QED
    BY <2>6, <2>7, <1>1, <1>5
<1>11. CountOK' /\ data_received' \in Nat
  <2>1. IsFiniteSet(Held) /\ Cardinality(Held) \in Nat
    BY HeldBounded, BytesCounted, <1>1 DEF ObjectBytes
  <2>2. IsFiniteSet(bytes) /\ Cardinality(bytes) = n
    BY StretchCounted, <1>1 DEF APacket
  <2> HIDE DEF bytes
  <2>3. Cardinality(Held \cup bytes) = Cardinality(Held) + Cardinality(bytes)
                                        - Cardinality(Held \cap bytes)
    BY <2>1, <2>2, FS_Union
  <2>4. Cardinality(Held \cup bytes) = Cardinality(Held) + n
    BY <2>1, <2>2, <2>3, <1>10, FS_EmptySet
  <2>5. data_received' = data_received + n
    BY DEF CreatePacket
  <2>6. data_received' = Cardinality(Held') /\ data_received' \in Nat
    BY <2>1, <2>4, <2>5, <1>1, <1>9 DEF CountOK
  <2>7. QED
    BY <2>6 DEF CountOK, Held, BytesOf, End
<1>12. QED
  BY <1>4, <1>7, <1>9, <1>11 DEF new

----------------------------------------------------------------------------
(* A list that holds the whole object.                                     *)

\* Packets are packets, and the two ends of each are numbers.
LEMMA PacketShape ==
    ASSUME PacketTypeOK
    PROVE  /\ packets \in Seq(APacket) /\ Len(packets) \in Nat
           /\ DOMAIN packets = 1..Len(packets)
           /\ \A i \in DOMAIN packets :
                packets[i] \in APacket /\ packets[i].offset \in Nat
                /\ packets[i].data_length \in Nat /\ packets[i].data \in Nat
                /\ End(packets[i]) \in Nat /\ packets[i].offset <= End(packets[i])
           /\ incoming \in APacket /\ incoming.offset \in Nat
           /\ incoming.data_length \in Nat /\ incoming.data \in Nat
           /\ End(incoming) \in Nat
<1>1. packets \in Seq(APacket) /\ incoming \in APacket
  BY DEF PacketTypeOK, APacket
<1>2. /\ Len(packets) \in Nat /\ DOMAIN packets = 1..Len(packets)
      /\ \A i \in DOMAIN packets : packets[i] \in APacket
  BY <1>1
<1>3. \A p \in APacket : p.offset \in Nat /\ p.data_length \in Nat /\ p.data \in Nat
                         /\ End(p) \in Nat /\ p.offset <= End(p)
  BY DEF APacket, End
<1>4. QED
  BY <1>1, <1>2, <1>3

\* A byte of the list lies in one of its packets.
LEMMA HeldPlace ==
    ASSUME PacketTypeOK, NEW b \in Held
    PROVE  \E i \in DOMAIN packets :
             b \in Int /\ packets[i].offset <= b /\ b < End(packets[i])
<1>1. PICK i \in DOMAIN packets : b \in BytesOf(packets[i])
  BY HeldMember
<1>2. b \in Int /\ packets[i].offset <= b /\ b < End(packets[i])
  BY <1>1, PacketShape DEF BytesOf
<1>3. QED
  BY <1>2

\* There is no hole in the list: it begins with the object, each packet
\* begins where the one before it ends, and the last ends with the object.
LEMMA WholeList ==
    ASSUME PacketTypeOK, ListOK, Held = ObjectBytes, object_length > 0
    PROVE  /\ Len(packets) \in Nat \ {0}
           /\ packets[1].offset = 0
           /\ End(packets[Len(packets)]) = object_length
           /\ \A i \in DOMAIN packets :
                i > 1 => packets[i].offset = End(packets[i - 1])
<1>1. object_length \in Nat
  BY DEF PacketTypeOK
<1>2. Len(packets) \in Nat \ {0} /\ packets[1].offset = 0
  <2>1. 0 \in Held
    BY <1>1 DEF ObjectBytes
  <2>2. PICK i \in DOMAIN packets : packets[i].offset <= 0 /\ 0 < End(packets[i])
    BY <2>1, HeldPlace
  <2>3. 1 \in DOMAIN packets
    BY PacketShape
  <2>4. CASE i = 1
    BY <2>2, <2>4, PacketShape
  <2>5. CASE i > 1
    <3>1. End(packets[1]) <= packets[i].offset
      BY <2>3, <2>5 DEF ListOK
    <3>2. QED
      BY <2>2, <2>3, <3>1, PacketShape
  <2>6. QED
    BY <2>4, <2>5, PacketShape
<1>3. End(packets[Len(packets)]) = object_length
  <2>1. object_length - 1 \in Held
    BY <1>1 DEF ObjectBytes
  <2>2. PICK i \in DOMAIN packets : object_length - 1 < End(packets[i])
    BY <2>1, HeldPlace
  <2>3. Len(packets) \in DOMAIN packets
    BY <1>2, PacketShape
  <2>4. End(packets[i]) = object_length
    BY <1>1, <2>2, PacketShape DEF ListOK
  <2>5. CASE i < Len(packets)
    <3>1. End(packets[i]) <= packets[Len(packets)].offset
          /\ End(packets[Len(packets)]) <= object_length
      BY <2>3, <2>5 DEF ListOK
    <3>2. QED
      BY <1>1, <2>3, <2>4, <3>1, PacketShape
  <2>6. QED
    BY <2>4, <2>5, PacketShape
<1>4. ASSUME NEW i \in DOMAIN packets, i > 1
      PROVE  packets[i].offset = End(packets[i - 1])
  <2>1. i - 1 \in DOMAIN packets /\ i \in Nat
    BY <1>4, PacketShape
  <2> DEFINE b == End(packets[i - 1])
  <2>2. b <= packets[i].offset /\ b \in Nat /\ packets[i].offset \in Nat
    BY <2>1, PacketShape DEF ListOK
  <2>3. SUFFICES ASSUME b < packets[i].offset PROVE FALSE
    BY <2>2
  <2>4. packets[i].offset <= object_length
    BY <1>1, PacketShape DEF ListOK
  <2>5. b \in Held
    BY <1>1, <2>2, <2>3, <2>4 DEF ObjectBytes
  <2> HIDE DEF b
  <2>6. PICK j \in DOMAIN packets : packets[j].offset <= b /\ b < End(packets[j])
    BY <2>5, HeldPlace
  <2>7. j \in Nat /\ packets[j].offset \in Nat /\ End(packets[j]) \in Nat
    BY PacketShape
  <2>8. CASE j > i
    <3>1. End(packets[i]) <= packets[j].offset /\ packets[i].offset <= End(packets[i])
          /\ End(packets[i]) \in Nat
      BY <2>8, PacketShape DEF ListOK
    <3>2. QED
      BY <2>2, <2>3, <2>6, <2>7, <3>1
  <2>9. CASE j = i
    BY <2>2, <2>3, <2>6, <2>9
  <2>10. CASE j = i - 1
    BY <2>2, <2>6, <2>10 DEF b
  <2>11. CASE j < i - 1
    <3>1. End(packets[j]) <= packets[i - 1].offset
          /\ packets[i - 1].offset <= b /\ packets[i - 1].offset \in Nat
      BY <2>1, <2>11, PacketShape DEF ListOK, b
    <3>2. QED
      BY <2>2, <2>6, <2>7, <3>1
  <2>12. QED
    BY <2>1, <2>7, <2>8, <2>9, <2>10, <2>11
<1>5. QED
  BY <1>2, <1>3, <1>4

----------------------------------------------------------------------------
(* Every step preserves the invariant.                                     *)

\* A step that leaves the list alone leaves what it says alone.
LEMMA ListFrame ==
    ASSUME PacketInv, UNCHANGED <<list_vars, object_length>>
    PROVE  /\ Held' = Held /\ ObjectBytes' = ObjectBytes
           /\ ListOK' /\ CountOK'
           /\ packets' = packets /\ data_received' = data_received
  BY DEF PacketInv, list_vars, Held, BytesOf, End, ObjectBytes, ListOK, CountOK

\* The initial state.
LEMMA InitOK == Init => PacketInv
<1> SUFFICES ASSUME Init PROVE PacketInv
  OBVIOUS
<1>1. packets = <<>> /\ DOMAIN packets = {} /\ Len(packets) = 0
  BY DEF Init
<1>2. Held = {}
  BY <1>1 DEF Held
<1>3. object_length \in Nat
  BY ObjectAssumption DEF Init
<1>4. PacketTypeOK
  <2>1. packets \in Seq([offset : Nat, data_length : Nat, data : Nat])
    BY <1>1
  <2>2. buffer \in [ObjectBytes -> Int]
    BY DEF Init
  <2>3. incoming \in [offset : Nat, data_length : Nat, data : Nat]
    BY DEF Init, Packet
  <2>4. /\ is_last_received \in BOOLEAN /\ reassembled \in BOOLEAN
        /\ given \subseteq ObjectBytes
    BY Zenon DEF Init
  <2>5. data_received \in Nat /\ pc = "idle" /\ at \in Nat \ {0} /\ running_offset \in Nat
    BY DEF Init
  <2>6. QED
    BY <1>3, <2>1, <2>2, <2>3, <2>4, <2>5 DEF PacketTypeOK
<1>5. CountOK
  BY <1>2, FS_EmptySet DEF CountOK, Init
<1>6. QED
  BY <1>1, <1>2, <1>4, <1>5
  DEF Init, PacketInv, ListOK, ScanOK, LastOK, CopyOK, ReassembledOK, Complete

\* quicrq_reassembly_input: a fragment comes in.
LEMMA InputStep ==
    ASSUME PacketInv, NEW f \in Piece, Input(f)
    PROVE  PacketInv'
<1>1. PacketTypeOK /\ ListOK /\ CountOK /\ ScanOK /\ LastOK /\ CopyOK /\ ReassembledOK
  BY DEF PacketInv
<1>2. /\ f.offset \in Nat /\ f.data_length \in Nat /\ End(f) <= object_length
      /\ object_length \in Nat
  BY <1>1 DEF Piece, End, PacketTypeOK
<1>3. UNCHANGED <<list_vars, object_length, reassembled, buffer, running_offset, ret>>
      /\ pc = "idle" /\ pc' = "scan" /\ at' = 1
  BY DEF Input, buffer_vars
<1>4. /\ Held' = Held /\ ObjectBytes' = ObjectBytes /\ ListOK' /\ CountOK'
      /\ packets' = packets /\ data_received' = data_received
  BY <1>3, ListFrame
<1>5. /\ incoming' = Packet(f.offset, f.data_length, f.offset)
      /\ given' = given \cup BytesOf(f)
      /\ is_last_received' = (is_last_received \/ End(f) >= object_length)
  BY DEF Input
<1>6. incoming' \in APacket /\ incoming'.offset = f.offset
      /\ incoming'.data_length = f.data_length /\ incoming'.data = f.offset
  BY <1>2, <1>5 DEF Packet, APacket
<1>7. BytesOf(f) \subseteq ObjectBytes /\ End(incoming') = End(f)
      /\ BytesOf(incoming') = BytesOf(f)
  BY <1>2, <1>6 DEF BytesOf, End, ObjectBytes
<1>8. PacketTypeOK'
  <2>1. is_last_received' \in BOOLEAN
    BY <1>5
  <2>2. given' \subseteq ObjectBytes'
    BY <1>1, <1>4, <1>5, <1>7 DEF PacketTypeOK
  <2>3. QED
    BY <1>1, <1>3, <1>4, <1>6, <2>1, <2>2 DEF PacketTypeOK, APacket
<1>9. ScanOK'
  <2>1. given' = Held' \cup BytesOf(incoming')
    BY <1>1, <1>3, <1>4, <1>5, <1>7 DEF ScanOK
  <2>2. 1 <= Len(packets') + 1 /\ \A i \in DOMAIN packets' : ~(i < 1)
    BY <1>1, <1>4, PacketShape
  <2>3. incoming'.data = incoming'.offset /\ End(incoming') <= object_length'
    BY <1>2, <1>3, <1>6, <1>7
  <2>4. BytesOf(incoming)' = BytesOf(incoming') /\ End(incoming)' = End(incoming')
    BY DEF BytesOf, End
  <2>5. QED
    BY <1>3, <2>1, <2>2, <2>3, <2>4 DEF ScanOK
<1>10. LastOK'
  <2>1. object_length - 1 \in BytesOf(f) => End(f) >= object_length
    BY <1>2 DEF BytesOf, End
  <2>2. QED
    BY <1>1, <1>3, <1>5, <2>1 DEF LastOK
<1>11. CopyOK'
  BY <1>3 DEF CopyOK
<1>12. ReassembledOK'
  <2>1. reassembled' => given' = ObjectBytes'
    BY <1>1, <1>3, <1>4, <1>5, <1>7 DEF ReassembledOK
  <2>2. QED
    BY <1>1, <1>3, <1>4, <2>1 DEF ReassembledOK
<1>13. QED
  BY <1>4, <1>8, <1>9, <1>10, <1>11, <1>12 DEF PacketInv

\* What a turn of the scan leaves alone.
LEMMA ScanFrame ==
    ASSUME PacketInv, pc = "scan", pc' \in {"scan", "added"},
           UNCHANGED <<is_last_received, buffer_vars, given>>
    PROVE  /\ LastOK' /\ CopyOK' /\ ReassembledOK'
           /\ object_length' = object_length /\ ObjectBytes' = ObjectBytes
           /\ packets' \in Seq(APacket) /\ data_received' \in Nat
              /\ at' \in Nat \ {0} /\ incoming' \in APacket => PacketTypeOK'
<1>1. PacketTypeOK /\ LastOK /\ ReassembledOK
  BY DEF PacketInv
<1>2. UNCHANGED <<object_length, reassembled, buffer, running_offset, ret>>
      /\ ObjectBytes' = ObjectBytes /\ UNCHANGED <<is_last_received, given>>
  BY DEF buffer_vars, ObjectBytes
<1>3. LastOK' /\ CopyOK' /\ ReassembledOK'
  BY <1>1, <1>2 DEF LastOK, CopyOK, ReassembledOK
<1>4. ASSUME packets' \in Seq(APacket), data_received' \in Nat,
             at' \in Nat \ {0}, incoming' \in APacket
      PROVE  PacketTypeOK'
  BY <1>1, <1>2, <1>4 DEF PacketTypeOK, APacket
<1>5. QED
  BY <1>2, <1>3, <1>4

\* What is known in the scan.
LEMMA ScanKnown ==
    ASSUME PacketInv, pc = "scan"
    PROVE  /\ PacketTypeOK /\ ListOK /\ CountOK
           /\ at \in Nat \ {0} /\ at <= Len(packets) + 1
           /\ object_length \in Nat /\ data_received \in Nat
           /\ incoming.data = incoming.offset /\ End(incoming) <= object_length
           /\ \A i \in DOMAIN packets : i < at => End(packets[i]) <= incoming.offset
           /\ given = Held \cup BytesOf(incoming)
  BY DEF PacketInv, ScanOK, PacketTypeOK

\* Packets from the one that the loop looks at lie behind it.
LEMMA LaterPackets ==
    ASSUME PacketTypeOK, ListOK, at \in DOMAIN packets,
           NEW i \in DOMAIN packets, i >= at
    PROVE  packets[at].offset <= packets[i].offset
<1>1. CASE i = at
  BY <1>1, PacketShape
<1>2. CASE i > at
  <2>1. End(packets[at]) <= packets[i].offset
    BY <1>2 DEF ListOK
  <2>2. QED
    BY <2>1, PacketShape
<1>3. QED
  BY <1>1, <1>2, PacketShape

\* The loop is left when the list holds all that came.
LEMMA ScanLeft ==
    ASSUME PacketInv, pc = "scan", pc' = "added",
           UNCHANGED <<is_last_received, buffer_vars, at, given>>,
           incoming' = [incoming EXCEPT !.data_length = 0],
           packets' \in Seq(APacket), data_received' \in Nat, ListOK', CountOK',
           given = Held'
    PROVE  PacketInv'
<1>1. incoming' \in APacket
  BY PacketShape DEF PacketInv, APacket
<1>2. PacketTypeOK' /\ LastOK' /\ CopyOK' /\ ReassembledOK'
  BY <1>1, ScanFrame, ScanKnown
<1>3. ScanOK'
  BY DEF ScanOK
<1>4. QED
  BY <1>2, <1>3 DEF PacketInv

LEMMA InsertBeforeStep ==
    ASSUME PacketInv, NEW p, InsertBefore(p)
    PROVE  PacketInv'
<1>1. /\ pc = "scan" /\ pc' = "added" /\ at \in DOMAIN packets /\ p = packets[at]
      /\ End(incoming) <= p.offset
      /\ CreatePacket(incoming.data_length)
      /\ incoming' = [incoming EXCEPT !.data_length = 0]
      /\ UNCHANGED <<is_last_received, buffer_vars, at, given>>
  BY DEF InsertBefore, LooksAt
<1>2. object_length' = object_length
  BY <1>1 DEF buffer_vars
<1>3. PICK n \in Nat : n = incoming.data_length
  BY <1>1, ScanKnown, PacketShape
<1>4. End(incoming) = incoming.offset + n
  BY <1>3 DEF End
<1>5. \A i \in DOMAIN packets : i >= at => incoming.offset + n <= packets[i].offset
  BY <1>1, <1>4, ScanKnown, LaterPackets, PacketShape
<1>6. /\ packets' \in Seq(APacket) /\ data_received' \in Nat /\ ListOK' /\ CountOK'
      /\ Held' = Held \cup (incoming.offset..(incoming.offset + n - 1))
  BY <1>1, <1>2, <1>3, <1>4, <1>5, ScanKnown, CreateStep
<1>7. given = Held'
  <2>1. BytesOf(incoming) = incoming.offset..(incoming.offset + n - 1)
    BY <1>1, <1>4, ScanKnown, PacketShape DEF BytesOf
  <2>2. QED
    BY <1>1, <1>6, <2>1, ScanKnown
<1>8. QED
  BY <1>1, <1>6, <1>7, ScanLeft

LEMMA AppendRestStep ==
    ASSUME PacketInv, AppendRest
    PROVE  PacketInv'
<1>1. /\ pc = "scan" /\ pc' = "added" /\ at = Len(packets) + 1
      /\ incoming' = [incoming EXCEPT !.data_length = 0]
      /\ UNCHANGED <<is_last_received, buffer_vars, at, given>>
  BY DEF AppendRest
<1>2. object_length' = object_length
  BY <1>1 DEF buffer_vars
<1>3. PICK n \in Nat : n = incoming.data_length
  BY <1>1, ScanKnown, PacketShape
<1>4. End(incoming) = incoming.offset + n
  BY <1>3 DEF End
<1>5. CASE n > 0
  <2>1. CreatePacket(n)
    BY <1>3, <1>5 DEF AppendRest
  <2>2. \A i \in DOMAIN packets : ~(i >= at)
    BY <1>1, ScanKnown, PacketShape
  <2>3. /\ packets' \in Seq(APacket) /\ data_received' \in Nat /\ ListOK' /\ CountOK'
        /\ Held' = Held \cup (incoming.offset..(incoming.offset + n - 1))
    BY <1>1, <1>2, <1>4, <2>1, <2>2, ScanKnown, CreateStep
  <2>4. given = Held'
    <3>1. BytesOf(incoming) = incoming.offset..(incoming.offset + n - 1)
      BY <1>1, <1>4, ScanKnown, PacketShape DEF BytesOf
    <3>2. QED
      BY <1>1, <2>3, <3>1, ScanKnown
  <2>5. QED
    BY <1>1, <2>3, <2>4, ScanLeft
<1>6. CASE n = 0
  <2>1. UNCHANGED list_vars
    BY <1>3, <1>6 DEF AppendRest
  <2>2. /\ Held' = Held /\ ListOK' /\ CountOK'
        /\ packets' = packets /\ data_received' = data_received
    BY <1>2, <2>1, ListFrame
  <2>3. BytesOf(incoming) = {}
    BY <1>1, <1>4, <1>6, ScanKnown, PacketShape DEF BytesOf
  <2>4. given = Held' /\ packets' \in Seq(APacket) /\ data_received' \in Nat
    BY <1>1, <2>2, <2>3, ScanKnown, PacketShape
  <2>5. QED
    BY <1>1, <2>2, <2>4, ScanLeft
<1>7. QED
  BY <1>5, <1>6

LEMMA RedundantStep ==
    ASSUME PacketInv, NEW p, Redundant(p)
    PROVE  PacketInv'
<1>1. /\ pc = "scan" /\ pc' = "added" /\ at \in DOMAIN packets /\ p = packets[at]
      /\ p.offset <= incoming.offset /\ End(p) >= End(incoming)
      /\ incoming' = [incoming EXCEPT !.data_length = 0]
      /\ UNCHANGED <<list_vars, is_last_received, buffer_vars, at, given>>
  BY DEF Redundant, AtOrAfter, LooksAt
<1>2. object_length' = object_length
  BY <1>1 DEF buffer_vars
<1>3. /\ Held' = Held /\ ListOK' /\ CountOK'
      /\ packets' = packets /\ data_received' = data_received
  BY <1>1, <1>2, ListFrame
<1>4. BytesOf(incoming) \subseteq BytesOf(packets[at])
  BY <1>1, ScanKnown, PacketShape DEF BytesOf
<1>5. BytesOf(incoming) \subseteq Held
  BY <1>1, <1>4 DEF Held
<1>6. given = Held' /\ packets' \in Seq(APacket) /\ data_received' \in Nat
  BY <1>1, <1>3, <1>5, ScanKnown, PacketShape
<1>7. QED
  BY <1>1, <1>3, <1>6, ScanLeft

LEMMA FillHoleStep ==
    ASSUME PacketInv, NEW p, FillHole(p)
    PROVE  PacketInv'
<1>1. /\ pc = "scan" /\ pc' = pc /\ at \in DOMAIN packets /\ p = packets[at]
      /\ incoming.offset < p.offset /\ p.offset < End(incoming)
      /\ CreatePacket(p.offset - incoming.offset)
      /\ incoming' = Consume(p.offset - incoming.offset)
      /\ at' = at + 1
      /\ UNCHANGED <<is_last_received, buffer_vars, given>>
  BY DEF FillHole, LooksAt
<1>2. object_length' = object_length
  BY <1>1 DEF buffer_vars
<1>3. /\ p.offset \in Nat /\ incoming.offset \in Nat /\ incoming.data_length \in Nat
      /\ at \in Nat \ {0} /\ at <= Len(packets) + 1 /\ End(p) <= object_length
      /\ object_length \in Nat /\ incoming.data = incoming.offset
      /\ End(incoming) <= object_length /\ p.offset <= End(p) /\ End(p) \in Nat
  BY <1>1, ScanKnown, PacketShape DEF ListOK
<1>4. PICK n \in Nat : n = p.offset - incoming.offset
  BY <1>1, <1>3
<1>5. incoming.offset + n = p.offset
  BY <1>3, <1>4
<1>6. \A i \in DOMAIN packets : i >= at => incoming.offset + n <= packets[i].offset
  BY <1>1, <1>5, ScanKnown, LaterPackets
<1>7. /\ packets' \in Seq(APacket) /\ Len(packets') = Len(packets) + 1
      /\ \A j \in 1..(Len(packets) + 1) :
           packets'[j] = IF j < at THEN packets[j]
                         ELSE IF j = at THEN Packet(incoming.offset, n, incoming.data)
                         ELSE packets[j - 1]
      /\ data_received' \in Nat /\ ListOK' /\ CountOK'
      /\ Held' = Held \cup (incoming.offset..(incoming.offset + n - 1))
  <2>1. CreatePacket(n) /\ incoming.offset + n <= object_length
    BY <1>1, <1>3, <1>4, <1>5
  <2>2. QED
    BY <1>1, <1>2, <1>6, <2>1, ScanKnown, CreateStep
<1>8. /\ incoming' \in APacket /\ incoming'.offset = p.offset
      /\ incoming'.data = p.offset /\ End(incoming') = End(incoming)
  <2>1. incoming' = Packet(p.offset, incoming.data_length - n, p.offset)
    BY <1>1, <1>3, <1>4, <1>5 DEF Consume
  <2>2. incoming.data_length - n \in Nat
        /\ p.offset + (incoming.data_length - n) = incoming.offset + incoming.data_length
    BY <1>1, <1>3, <1>4, <1>5 DEF End
  <2>3. QED
    BY <1>3, <2>1, <2>2 DEF Packet, APacket, End
<1>9. PacketTypeOK' /\ LastOK' /\ CopyOK' /\ ReassembledOK'
  <2>1. at' \in Nat \ {0}
    BY <1>1, <1>3
  <2>2. QED
    BY <1>1, <1>7, <1>8, <2>1, ScanFrame
<1>10. ScanOK'
  <2>1. at' <= Len(packets') + 1
    BY <1>1, <1>3, <1>7, PacketShape, ScanKnown
  <2>2. incoming'.data = incoming'.offset /\ End(incoming') <= object_length'
    BY <1>2, <1>3, <1>8
  <2>3. ASSUME NEW i \in DOMAIN packets', i < at'
        PROVE  End(packets'[i]) <= incoming'.offset
    <3>1. i \in 1..(Len(packets) + 1) /\ Len(packets) \in Nat
      BY <1>1, <1>7, PacketShape, ScanKnown
    <3>2. CASE i < at
      <4>1. i \in DOMAIN packets /\ packets'[i] = packets[i]
        BY <1>3, <1>7, <3>1, <3>2, PacketShape, ScanKnown, <1>1
      <4>2. End(packets[i]) <= incoming.offset /\ End(packets[i]) \in Nat
        BY <1>1, <3>2, <4>1, ScanKnown, PacketShape
      <4>3. QED
        BY <1>1, <1>3, <1>8, <4>1, <4>2
    <3>3. CASE i = at
      <4>1. packets'[i] = Packet(incoming.offset, n, incoming.data)
        BY <1>3, <1>7, <3>1, <3>3
      <4>2. QED
        BY <1>3, <1>5, <1>8, <4>1 DEF Packet, End
    <3>4. QED
      BY <1>1, <1>3, <2>3, <3>1, <3>2, <3>3
  <2>4. given' = Held' \cup BytesOf(incoming')
    <3>1. BytesOf(incoming) = (incoming.offset..(incoming.offset + n - 1))
                              \cup BytesOf(incoming')
      <4>1. End(incoming) \in Int /\ incoming.offset \in Int /\ incoming.offset + n \in Int
            /\ incoming.offset <= incoming.offset + n /\ incoming.offset + n <= End(incoming)
        BY <1>1, <1>3, <1>5, ScanKnown, PacketShape
      <4>2. incoming.offset..(End(incoming) - 1)
              = (incoming.offset..(incoming.offset + n - 1))
                \cup ((incoming.offset + n)..(End(incoming) - 1))
        BY <4>1, StretchCut
      <4>3. BytesOf(incoming) = incoming.offset..(End(incoming) - 1)
            /\ BytesOf(incoming') = (incoming.offset + n)..(End(incoming) - 1)
        BY <1>5, <1>8 DEF BytesOf
      <4>4. QED
        BY <4>2, <4>3
    <3>2. QED
      BY <1>1, <1>7, <3>1, ScanKnown
  <2>5. BytesOf(incoming)' = BytesOf(incoming') /\ End(incoming)' = End(incoming')
    BY DEF BytesOf, End
  <2>6. \A i \in DOMAIN packets' : i < at' => End(packets[i])' <= incoming'.offset
    BY <2>3 DEF End
  <2>7. QED
    BY <1>1, <2>1, <2>2, <2>4, <2>5, <2>6 DEF ScanOK
<1>11. QED
  BY <1>7, <1>9, <1>10 DEF PacketInv

LEMMA SkipPacketStep ==
    ASSUME PacketInv, NEW p, SkipPacket(p)
    PROVE  PacketInv'
<1>1. /\ pc = "scan" /\ pc' = pc /\ at \in DOMAIN packets /\ p = packets[at]
      /\ p.offset <= incoming.offset
      /\ End(p) <= incoming.offset \/ End(p) < End(incoming)
      /\ incoming' = IF End(p) <= incoming.offset THEN incoming
                     ELSE Consume(End(p) - incoming.offset)
      /\ at' = at + 1
      /\ UNCHANGED <<list_vars, is_last_received, buffer_vars, given>>
  BY DEF SkipPacket, AtOrAfter, LooksAt
<1>2. object_length' = object_length
  BY <1>1 DEF buffer_vars
<1>3. /\ p.offset \in Nat /\ incoming.offset \in Nat /\ incoming.data_length \in Nat
      /\ at \in Nat \ {0} /\ at \in 1..Len(packets) /\ Len(packets) \in Nat
      /\ object_length \in Nat /\ incoming.data = incoming.offset
      /\ End(incoming) <= object_length /\ End(p) \in Nat /\ End(incoming) \in Nat
      /\ incoming \in APacket
  BY <1>1, ScanKnown, PacketShape
<1>4. /\ Held' = Held /\ ListOK' /\ CountOK'
      /\ packets' = packets /\ data_received' = data_received
  BY <1>1, <1>2, ListFrame
<1>5. /\ incoming' \in APacket /\ incoming'.data = incoming'.offset
      /\ incoming'.offset \in Nat /\ End(incoming') = End(incoming)
      /\ incoming'.offset >= incoming.offset /\ incoming'.offset >= End(p)
      /\ incoming'.offset > incoming.offset => incoming'.offset = End(p)
  <2>1. CASE End(p) <= incoming.offset
    BY <1>1, <1>3, <2>1
  <2>2. CASE ~(End(p) <= incoming.offset)
    BY <1>1, <1>3, <2>2 DEF Consume, Packet, APacket, End
  <2>3. QED
    BY <2>1, <2>2
<1>6. PacketTypeOK' /\ LastOK' /\ CopyOK' /\ ReassembledOK'
  <2>1. at' \in Nat \ {0} /\ packets' \in Seq(APacket) /\ data_received' \in Nat
    BY <1>1, <1>3, <1>4, ScanKnown, PacketShape
  <2>2. QED
    BY <1>1, <1>5, <2>1, ScanFrame
<1>7. ScanOK'
  <2>1. at' <= Len(packets') + 1 /\ End(incoming') <= object_length'
    BY <1>1, <1>2, <1>3, <1>4, <1>5
  <2>2. ASSUME NEW i \in DOMAIN packets, i < at + 1
        PROVE  End(packets[i]) <= incoming'.offset
    <3>1. i \in Nat /\ End(packets[i]) \in Nat
      BY <1>1, ScanKnown, PacketShape
    <3>2. CASE i < at
      <4>1. End(packets[i]) <= incoming.offset
        BY <1>1, <3>2, ScanKnown
      <4>2. QED
        BY <1>3, <1>5, <3>1, <4>1
    <3>3. CASE i = at
      BY <1>1, <1>5, <3>3
    <3>4. QED
      BY <1>3, <2>2, <3>1, <3>2, <3>3
  <2>3. given' = Held' \cup BytesOf(incoming')
    <3>1. BytesOf(incoming) = incoming.offset..(End(incoming) - 1)
          /\ BytesOf(incoming') = incoming'.offset..(End(incoming) - 1)
          /\ BytesOf(p) = p.offset..(End(p) - 1)
      BY <1>5 DEF BytesOf
    <3>2. BytesOf(p) \subseteq Held
      BY <1>1 DEF Held
    <3>3. BytesOf(incoming') \subseteq BytesOf(incoming)
      BY <1>3, <1>5, <3>1
    <3>4. BytesOf(incoming) \subseteq BytesOf(p) \cup BytesOf(incoming')
      <4>1. SUFFICES ASSUME NEW b \in BytesOf(incoming), b \notin BytesOf(incoming')
                     PROVE  b \in BytesOf(p)
        OBVIOUS
      <4>2. b \in Int /\ incoming.offset <= b /\ b <= End(incoming) - 1
        BY <1>3, <3>1, <4>1
      <4>3. b < incoming'.offset
        BY <1>3, <1>5, <3>1, <4>1, <4>2
      <4>4. incoming'.offset = End(p)
        BY <1>3, <1>5, <4>2, <4>3
      <4>5. QED
        BY <1>1, <1>3, <3>1, <4>2, <4>3, <4>4
    <3>5. QED
      BY <1>1, <1>4, <3>2, <3>3, <3>4, ScanKnown
  <2>4. BytesOf(incoming)' = BytesOf(incoming') /\ End(incoming)' = End(incoming')
    BY DEF BytesOf, End
  <2>5. \A i \in DOMAIN packets' : i < at' => End(packets[i])' <= incoming'.offset
    BY <1>1, <1>4, <2>2 DEF End
  <2>6. QED
    BY <1>1, <1>5, <2>1, <2>3, <2>4, <2>5 DEF ScanOK
<1>8. QED
  BY <1>4, <1>6, <1>7 DEF PacketInv

\* Out of the scan the list holds all that came; by the count, the object is
\* complete exactly if that is all of its bytes.
LEMMA AddedKnown ==
    ASSUME PacketInv, pc # "scan"
    PROVE  /\ PacketTypeOK /\ ListOK /\ CountOK /\ LastOK /\ ReassembledOK
           /\ object_length \in Nat /\ data_received \in Nat
           /\ given = Held /\ Held \in SUBSET ObjectBytes
           /\ data_received <= object_length
           /\ data_received = object_length <=> Held = ObjectBytes
<1>1. PacketTypeOK /\ ListOK /\ CountOK /\ LastOK /\ ReassembledOK /\ given = Held
  BY DEF PacketInv, ScanOK
<1>2. object_length \in Nat /\ data_received \in Nat
  BY <1>1 DEF PacketTypeOK
<1>3. Held \in SUBSET (0..(object_length - 1))
  BY <1>1, HeldBounded DEF ObjectBytes
<1>4. Cardinality(Held) <= object_length
      /\ (Cardinality(Held) = object_length <=> Held = 0..(object_length - 1))
  BY <1>2, <1>3, BytesCounted
<1>5. QED
  BY <1>1, <1>2, <1>3, <1>4 DEF CountOK, ObjectBytes

\* A step out of the scan that leaves the list alone.
LEMMA AddedFrame ==
    ASSUME PacketInv, pc # "scan", pc' \in {"idle", "added", "copy"},
           UNCHANGED <<list_vars, object_length, is_last_received, incoming, given>>
    PROVE  /\ ListOK' /\ CountOK' /\ ScanOK' /\ LastOK'
           /\ Held' = Held /\ ObjectBytes' = ObjectBytes /\ packets' = packets
           /\ Complete' <=> Complete
           /\ (/\ reassembled' \in BOOLEAN /\ buffer' \in [ObjectBytes -> Int]
               /\ at' \in Nat \ {0} /\ running_offset' \in Nat) => PacketTypeOK'
<1>1. /\ Held' = Held /\ ObjectBytes' = ObjectBytes /\ ListOK' /\ CountOK'
      /\ packets' = packets /\ data_received' = data_received
  BY ListFrame
<1>2. ScanOK'
  BY <1>1, AddedKnown DEF ScanOK
<1>3. LastOK' /\ (Complete' <=> Complete)
  BY <1>1, AddedKnown DEF LastOK, Complete
<1>4. ASSUME reassembled' \in BOOLEAN, buffer' \in [ObjectBytes -> Int],
             at' \in Nat \ {0}, running_offset' \in Nat
      PROVE  PacketTypeOK'
  BY <1>1, <1>4, AddedKnown DEF PacketTypeOK
<1>5. QED
  BY <1>1, <1>2, <1>3, <1>4

LEMMA ReturnStep ==
    ASSUME PacketInv, Return
    PROVE  PacketInv'
<1>1. /\ pc = "added" /\ pc' = "idle" /\ (Complete => reassembled)
      /\ UNCHANGED <<list_vars, object_length, is_last_received, reassembled, buffer,
                     running_offset, ret, at, incoming, given>>
  BY DEF Return, buffer_vars
<1>2. PacketTypeOK /\ ReassembledOK
  BY <1>1, AddedKnown
<1>3. /\ ListOK' /\ CountOK' /\ ScanOK' /\ LastOK' /\ PacketTypeOK'
      /\ ObjectBytes' = ObjectBytes /\ (Complete' <=> Complete)
  BY <1>1, <1>2, AddedFrame DEF PacketTypeOK
<1>4. CopyOK'
  BY <1>1 DEF CopyOK
<1>5. ReassembledOK'
  BY <1>1, <1>2, <1>3 DEF ReassembledOK
<1>6. QED
  BY <1>3, <1>4, <1>5 DEF PacketInv

LEMMA ReassembleEmptyStep ==
    ASSUME PacketInv, ReassembleEmpty
    PROVE  PacketInv'
<1>1. /\ pc = "added" /\ pc' = "idle" /\ object_length = 0 /\ reassembled' = TRUE
      /\ UNCHANGED <<list_vars, object_length, is_last_received, buffer,
                     running_offset, ret, at, incoming, given>>
  BY DEF ReassembleEmpty
<1>2. PacketTypeOK /\ ReassembledOK /\ given = Held /\ Held \in SUBSET ObjectBytes
  BY <1>1, AddedKnown
<1>3. /\ ListOK' /\ CountOK' /\ ScanOK' /\ LastOK' /\ PacketTypeOK'
      /\ ObjectBytes' = ObjectBytes
  BY <1>1, <1>2, AddedFrame DEF PacketTypeOK
<1>4. CopyOK'
  BY <1>1 DEF CopyOK
<1>5. ObjectBytes = {}
  BY <1>1 DEF ObjectBytes
<1>6. ReassembledOK'
  BY <1>1, <1>2, <1>3, <1>5 DEF ReassembledOK
<1>7. QED
  BY <1>3, <1>4, <1>6 DEF PacketInv

LEMMA ReassembleStep ==
    ASSUME PacketInv, Reassemble
    PROVE  PacketInv'
<1>1. /\ pc = "added" /\ Complete /\ ~reassembled
      /\ ~(object_length = 0 /\ data_received = 0) /\ running_offset' = 0
      /\ UNCHANGED <<list_vars, object_length, is_last_received, buffer, incoming, given>>
  BY DEF Reassemble
<1>2. /\ PacketTypeOK /\ ListOK /\ ReassembledOK /\ given = Held
      /\ object_length \in Nat /\ data_received \in Nat
      /\ data_received <= object_length
      /\ data_received = object_length <=> Held = ObjectBytes
  BY <1>1, AddedKnown
<1>3. data_received = object_length /\ object_length > 0 /\ Held = ObjectBytes
  BY <1>1, <1>2 DEF Complete
<1>4. ListIsWhole
  <2>1. /\ Len(packets) \in Nat \ {0} /\ packets[1].offset = 0
        /\ End(packets[Len(packets)]) = object_length
    BY <1>2, <1>3, WholeList
  <2>2. packets # <<>>
    BY <1>2, <2>1, PacketShape
  <2>3. QED
    BY <1>3, <2>1, <2>2 DEF ListIsWhole
<1>5. reassembled' = TRUE /\ pc' = "copy" /\ at' = 1 /\ ret' = ret
  BY <1>2, <1>3, <1>4 DEF Reassemble
<1>6. /\ ListOK' /\ CountOK' /\ ScanOK' /\ LastOK' /\ PacketTypeOK'
      /\ ObjectBytes' = ObjectBytes /\ packets' = packets
  <2>1. at' \in Nat \ {0} /\ running_offset' \in Nat
    BY <1>1, <1>5
  <2>2. reassembled' \in BOOLEAN /\ buffer' \in [ObjectBytes -> Int]
    BY <1>1, <1>2, <1>5 DEF PacketTypeOK
  <2>3. QED
    BY <1>1, <1>5, <2>1, <2>2, AddedFrame
<1>7. CopyOK'
  <2>1. \A b \in ObjectBytes : ~(b < 0)
    BY <1>2 DEF ObjectBytes
  <2>2. 1 <= Len(packets) + 1
    BY <1>2, PacketShape
  <2>3. QED
    BY <1>1, <1>2, <1>3, <1>5, <1>6, <2>1, <2>2 DEF CopyOK
<1>8. ReassembledOK'
  BY <1>1, <1>2, <1>3, <1>5, <1>6 DEF ReassembledOK
<1>9. QED
  BY <1>6, <1>7, <1>8 DEF PacketInv

\* The packet that the copy looks at begins at the running offset.
LEMMA CopyKnown ==
    ASSUME PacketInv, pc = "copy"
    PROVE  /\ PacketTypeOK /\ ListOK /\ ReassembledOK /\ reassembled
           /\ given = ObjectBytes /\ object_length \in Nat /\ object_length > 0
           /\ at \in Nat \ {0} /\ at <= Len(packets) + 1 /\ running_offset \in Nat
           /\ \A b \in ObjectBytes : b < running_offset => buffer[b] = b
           /\ at \in DOMAIN packets => packets[at].offset = running_offset
           /\ at = Len(packets) + 1 => running_offset = object_length
<1>1. /\ PacketTypeOK /\ ListOK /\ ReassembledOK /\ reassembled
      /\ given = ObjectBytes /\ Held = ObjectBytes
      /\ object_length \in Nat /\ object_length > 0
      /\ at \in Nat \ {0} /\ at <= Len(packets) + 1 /\ running_offset \in Nat
      /\ running_offset = IF at = 1 THEN 0 ELSE End(packets[at - 1])
      /\ \A b \in ObjectBytes : b < running_offset => buffer[b] = b
  BY AddedKnown DEF PacketInv, CopyOK, PacketTypeOK
<1>2. /\ Len(packets) \in Nat \ {0} /\ packets[1].offset = 0
      /\ End(packets[Len(packets)]) = object_length
      /\ \A i \in DOMAIN packets : i > 1 => packets[i].offset = End(packets[i - 1])
  BY <1>1, WholeList
<1>3. at \in DOMAIN packets => packets[at].offset = running_offset
  BY <1>1, <1>2
<1>4. at = Len(packets) + 1 => running_offset = object_length
  BY <1>1, <1>2
<1>5. QED
  BY <1>1, <1>3, <1>4

LEMMA CopyPacketStep ==
    ASSUME PacketInv, NEW p, CopyPacket(p)
    PROVE  PacketInv'
<1>1. /\ pc = "copy" /\ at \in DOMAIN packets /\ p = packets[at]
      /\ UNCHANGED <<list_vars, object_length, is_last_received, reassembled, incoming,
                     given>>
  BY DEF CopyPacket
<1>2. /\ PacketTypeOK /\ ListOK /\ ReassembledOK /\ reassembled
      /\ given = ObjectBytes /\ object_length \in Nat /\ object_length > 0
      /\ at \in Nat \ {0} /\ running_offset \in Nat /\ p.offset = running_offset
      /\ \A b \in ObjectBytes : b < running_offset => buffer[b] = b
  BY <1>1, CopyKnown
<1>3. /\ p.offset \in Nat /\ p.data_length \in Nat /\ p.data = p.offset
      /\ End(p) \in Nat /\ End(p) <= object_length
      /\ at \in 1..Len(packets) /\ Len(packets) \in Nat
  BY <1>1, <1>2, PacketShape DEF ListOK
<1>4. /\ buffer' = [b \in ObjectBytes |->
                      IF b \in BytesOf(p) THEN p.data + (b - running_offset)
                      ELSE buffer[b]]
      /\ running_offset' = running_offset + p.data_length
      /\ at' = at + 1 /\ pc' = pc /\ ret' = ret
  BY <1>2, <1>3 DEF CopyPacket
<1>5. running_offset' = End(p)
  BY <1>2, <1>4 DEF End
<1>6. \A b \in ObjectBytes : buffer'[b] \in Int
                             /\ (b < running_offset' => buffer'[b] = b)
  <2>1. SUFFICES ASSUME NEW b \in ObjectBytes
                 PROVE  buffer'[b] \in Int /\ (b < running_offset' => buffer'[b] = b)
    OBVIOUS
  <2>2. b \in Nat /\ buffer[b] \in Int
    BY <1>2 DEF ObjectBytes, PacketTypeOK
  <2>3. CASE b \in BytesOf(p)
    <3>1. buffer'[b] = p.data + (b - running_offset)
      BY <1>4, <2>3
    <3>2. QED
      BY <1>2, <1>3, <2>2, <3>1
  <2>4. CASE b \notin BytesOf(p)
    <3>1. buffer'[b] = buffer[b]
      BY <1>4, <2>4
    <3>2. b < End(p) => b < running_offset
      BY <1>2, <1>3, <2>2, <2>4 DEF BytesOf
    <3>3. QED
      BY <1>2, <1>5, <2>2, <3>1, <3>2
  <2>5. QED
    BY <2>3, <2>4
<1>7. /\ ListOK' /\ CountOK' /\ ScanOK' /\ LastOK' /\ PacketTypeOK'
      /\ ObjectBytes' = ObjectBytes /\ packets' = packets
  <2>1. at' \in Nat \ {0} /\ running_offset' \in Nat
    BY <1>2, <1>3, <1>4
  <2>2. reassembled' \in BOOLEAN
    BY <1>1, <1>2 DEF PacketTypeOK
  <2>3. buffer' \in [ObjectBytes -> Int]
    BY <1>4, <1>6
  <2>4. QED
    BY <1>1, <1>4, <2>1, <2>2, <2>3, AddedFrame
<1>8. CopyOK'
  <2>1. at' <= Len(packets') + 1 /\ at' # 1 /\ at' - 1 = at
    BY <1>2, <1>3, <1>4, <1>7
  <2>2. running_offset' = End(packets'[at' - 1])
    BY <1>1, <1>5, <1>7, <2>1
  <2>3. End(packets[at - 1])' = End(packets'[at' - 1])
    BY DEF End
  <2>4. QED
    BY <1>1, <1>2, <1>6, <1>7, <2>1, <2>2, <2>3 DEF CopyOK
<1>9. ReassembledOK'
  BY <1>1, <1>2, <1>4, <1>7 DEF ReassembledOK
<1>10. QED
  BY <1>7, <1>8, <1>9 DEF PacketInv

LEMMA EndCopyStep ==
    ASSUME PacketInv, EndCopy
    PROVE  PacketInv'
<1>1. /\ pc = "copy" /\ pc' = "idle" /\ at = Len(packets) + 1
      /\ ret' = IF running_offset = object_length THEN ret ELSE -1
      /\ UNCHANGED <<list_vars, object_length, is_last_received, reassembled, buffer,
                     running_offset, at, incoming, given>>
  BY DEF EndCopy
<1>2. /\ PacketTypeOK /\ ReassembledOK /\ reassembled
      /\ given = ObjectBytes /\ object_length \in Nat /\ running_offset = object_length
      /\ \A b \in ObjectBytes : b < running_offset => buffer[b] = b
  BY <1>1, CopyKnown
<1>3. /\ ListOK' /\ CountOK' /\ ScanOK' /\ LastOK' /\ PacketTypeOK'
      /\ ObjectBytes' = ObjectBytes
  BY <1>1, <1>2, AddedFrame DEF PacketTypeOK
<1>4. CopyOK'
  BY <1>1 DEF CopyOK
<1>5. \A b \in ObjectBytes : buffer[b] = b
  BY <1>2 DEF ObjectBytes
<1>6. ReassembledOK'
  BY <1>1, <1>2, <1>3, <1>5 DEF ReassembledOK
<1>7. QED
  BY <1>3, <1>4, <1>6 DEF PacketInv

----------------------------------------------------------------------------
(* The theorems.                                                           *)

\* The list is in order and without overlap, holds the data of its place and
\* lacks of what came only what the scan still has to add; the copy has no
\* hole to meet.
THEOREM PacketInvariantHolds == Spec => []PacketInv
<1>1. PacketInv /\ [Next]_packet_vars => PacketInv'
  <2> SUFFICES ASSUME PacketInv, [Next]_packet_vars PROVE PacketInv'
    OBVIOUS
  <2>1. ASSUME NEW f \in Piece, Input(f) PROVE PacketInv'
    BY <2>1, InputStep
  <2>2. ASSUME NEW i \in DOMAIN packets, ScanTurn(packets[i]) PROVE PacketInv'
    BY <2>2, InsertBeforeStep, FillHoleStep, RedundantStep, SkipPacketStep DEF ScanTurn
  <2>3. ASSUME NEW i \in DOMAIN packets, CopyPacket(packets[i]) PROVE PacketInv'
    BY <2>3, CopyPacketStep
  <2>4. CASE AppendRest
    BY <2>4, AppendRestStep
  <2>5. CASE Return
    BY <2>5, ReturnStep
  <2>6. CASE ReassembleEmpty
    BY <2>6, ReassembleEmptyStep
  <2>7. CASE Reassemble
    BY <2>7, ReassembleStep
  <2>8. CASE EndCopy
    BY <2>8, EndCopyStep
  <2>9. CASE UNCHANGED packet_vars
    <3>1. /\ UNCHANGED <<packets, data_received, object_length, is_last_received>>
          /\ UNCHANGED <<reassembled, buffer, running_offset, ret, pc, at, incoming, given>>
      BY <2>9 DEF packet_vars, list_vars, buffer_vars
    <3>2. Held' = Held /\ ObjectBytes' = ObjectBytes /\ (Complete' <=> Complete)
      BY <3>1 DEF Held, ObjectBytes, BytesOf, End, Complete
    <3>3. PacketTypeOK' /\ ListOK' /\ CountOK'
      BY <3>1, <3>2 DEF PacketInv, PacketTypeOK, ListOK, CountOK, End
    <3>4. ScanOK' /\ LastOK'
      BY <3>1, <3>2 DEF PacketInv, ScanOK, LastOK, BytesOf, End
    <3>5. CopyOK' /\ ReassembledOK'
      BY <3>1, <3>2 DEF PacketInv, CopyOK, ReassembledOK, End
    <3>6. QED
      BY <3>3, <3>4, <3>5 DEF PacketInv
  <2>10. QED
    BY <2>1, <2>2, <2>3, <2>4, <2>5, <2>6, <2>7, <2>8, <2>9 DEF Next
<1>2. QED
  BY <1>1, InitOK, PTL DEF Spec

\* However the fragments of an object overlap, the list holds between two
\* calls exactly the bytes that came, and data_received counts each once.
THEOREM BytesAddedOnce == Spec => []AddsItsBytes
<1>1. PacketInv => AddsItsBytes
  BY DEF PacketInv, AddsItsBytes, ScanOK, CountOK
<1>2. QED
  BY <1>1, PacketInvariantHolds, PTL

\* The checks of quicrq_reassembly_object_reassemble never fire, and an object
\* of any length whose bytes all came, in fragments of any cut and order, is
\* reassembled byte by byte.
THEOREM ObjectReassembled == Spec => []ReassembledWhole
<1>1. PacketInv => ReassembledWhole
  <2> SUFFICES ASSUME PacketInv PROVE ReassembledWhole
    OBVIOUS
  <2>1. ret = 0
    BY DEF PacketInv, ReassembledOK
  <2>2. ASSUME pc = "idle", given = ObjectBytes, object_length = 0 => is_last_received
        PROVE  reassembled /\ \A b \in ObjectBytes : buffer[b] = b
    <3>1. /\ LastOK /\ ReassembledOK /\ object_length \in Nat /\ given = Held
          /\ data_received = object_length <=> Held = ObjectBytes
      BY <2>2, AddedKnown
    <3>2. object_length > 0 => object_length - 1 \in given
      BY <2>2, <3>1 DEF ObjectBytes
    <3>3. is_last_received
      BY <2>2, <3>1, <3>2 DEF LastOK
    <3>4. Complete
      BY <2>2, <3>1, <3>3 DEF Complete
    <3>5. QED
      BY <2>2, <3>1, <3>4 DEF ReassembledOK
  <2>3. QED
    BY <2>1, <2>2 DEF ReassembledWhole
<1>2. QED
  BY <1>1, PacketInvariantHolds, PTL
=============================================================================
