------------------------- MODULE DatagramAck_proofs -------------------------
(***************************************************************************)
(* Proofs about the acknowledgement and repair of datagrams, for every     *)
(* media, every cut of the objects, every size of the repeats and every    *)
(* bound on their number.                                                  *)
(***************************************************************************)
EXTENDS DatagramAck, Media_proofs

----------------------------------------------------------------------------
(* Units and chunks.                                                       *)

LEMMA UnitMember ==
    ASSUME NEW o \in Nat, NEW l \in Nat, NEW b
    PROVE  b \in Units(o, l) <=>
             IF l = 0 THEN b = 0 ELSE b \in Nat /\ o <= b /\ b < o + l
  BY DEF Units, Bytes

LEMMA Multiples ==
    ASSUME NEW m \in Nat \ {0}, NEW i \in Nat, NEW j \in Nat, i < j
    PROVE  i * m + m <= j * m
<1>1. (j - i - 1) * m >= 0
  <2>1. j - i - 1 \in Nat /\ m \in Nat
    OBVIOUS
  <2>2. \A a \in Nat : a * m \in Nat
    OBVIOUS
  <2>3. QED
    BY <2>1, <2>2
<1>2. (j - i - 1) * m = j * m - i * m - m
  OBVIOUS
<1>3. i * m \in Int /\ j * m \in Int
  OBVIOUS
<1>4. QED
  BY <1>1, <1>2, <1>3

LEMMA Quotient ==
    ASSUME NEW m \in Nat \ {0}, NEW x \in Nat
    PROVE  /\ x \div m \in Nat
           /\ (x \div m) * m <= x /\ x < (x \div m) * m + m
  OBVIOUS

\* A fragment is cut into chunks of at most MaxRepeat bytes that tile it.
LEMMA ChunkShape ==
    ASSUME NEW offset \in Nat, NEW length \in Nat
    PROVE  LET C == Chunks(offset, length)
               L(o) == ChunkLength(o, offset, length)
           IN /\ offset \in C
              /\ \A o \in C : /\ o \in Nat /\ offset <= o /\ L(o) \in Nat
                              /\ o + L(o) <= offset + length
                              /\ length > 0 => o < offset + length /\ L(o) > 0
                              /\ length = 0 => o = offset /\ L(o) = 0
              /\ \A o, q \in C : o < q => o + L(o) <= q
              /\ \A b \in Units(offset, length) : \E o \in C : b \in Units(o, L(o))
              /\ \A o \in C : \A b \in Units(o, L(o)) : b \in Units(offset, length)
              /\ length <= MaxRepeat => C = {offset} /\ L(offset) = length
<1> DEFINE m == MaxRepeat
           top == (IF length = 0 THEN 0 ELSE length - 1) \div m
           C == Chunks(offset, length)
           L(o) == ChunkLength(o, offset, length)
<1>1. m \in Nat \ {0}
  BY AckAssumption
<1> HIDE DEF m
<1>2. /\ top \in Nat
      /\ length = 0 => top = 0
      /\ length > 0 => top * m <= length - 1 /\ length - 1 < top * m + m
  <2>1. CASE length = 0
    <3>1. 0 \div m = 0
      BY <1>1
    <3>2. QED
      BY <2>1, <3>1
  <2>2. CASE length > 0
    <3>1. length - 1 \in Nat
      BY <2>2
    <3>2. QED
      BY <1>1, <2>2, <3>1, Quotient
  <2>3. QED
    BY <2>1, <2>2
<1>3. C = {offset + i * m : i \in 0..top}
  BY DEF Chunks, m
<1>4. \A i \in Nat : i * m \in Nat
  BY <1>1
<1>5. \A i \in 0..top : length > 0 => i * m <= length - 1
  <2> SUFFICES ASSUME NEW i \in 0..top, length > 0 PROVE i * m <= length - 1
    OBVIOUS
  <2>1. CASE i = top
    BY <1>2, <2>1
  <2>2. CASE i < top
    <3>1. i * m + m <= top * m
      BY <1>1, <1>2, <2>2, Multiples
    <3>2. i \in Nat /\ i * m \in Nat /\ top * m \in Nat
      BY <1>2, <1>4
    <3>3. QED
      BY <1>1, <1>2, <3>1, <3>2
  <2>3. QED
    BY <1>2, <2>1, <2>2
<1> HIDE DEF top, C
<1>6. offset \in C
  <2>1. 0 \in 0..top /\ offset + 0 * m = offset
    BY <1>1, <1>2
  <2>2. QED
    BY <1>3, <2>1
<1>7. ASSUME NEW o \in C
      PROVE  /\ o \in Nat /\ offset <= o /\ L(o) \in Nat
             /\ o + L(o) <= offset + length
             /\ length > 0 => o < offset + length /\ L(o) > 0
             /\ length = 0 => o = offset /\ L(o) = 0
             /\ L(o) = m \/ o + L(o) = offset + length
             /\ L(o) <= m
  <2>1. PICK i \in 0..top : o = offset + i * m
    BY <1>3
  <2>2. i \in Nat /\ i * m \in Nat
    BY <1>2, <1>4
  <2>3. length > 0 => i * m <= length - 1
    BY <1>5
  <2>4. length = 0 => i = 0 /\ i * m = 0
    BY <1>1, <1>2
  <2>5. /\ o \in Nat /\ offset <= o /\ length > 0 => o < offset + length
        /\ length = 0 => o = offset
    BY <2>1, <2>2, <2>3, <2>4
  <2>6. L(o) = IF m < offset + length - o THEN m ELSE offset + length - o
    BY DEF ChunkLength, Least, m
  <2>7. o \in Nat /\ offset <= o /\ (length > 0 => o < offset + length)
    BY <2>1, <2>2, <2>3
  <2> HIDE DEF L
  <2>8. QED
    BY <1>1, <2>5, <2>6, <2>7
<1>8. ASSUME NEW o \in C, NEW q \in C, o < q PROVE o + m <= q
  <2>1. PICK i \in 0..top : o = offset + i * m
    BY <1>3
  <2>2. PICK j \in 0..top : q = offset + j * m
    BY <1>3
  <2>3. /\ i \in Nat /\ j \in Nat /\ i * m \in Nat /\ j * m \in Nat
    BY <1>2, <1>4
  <2>4. i < j
    <3>1. CASE i = j
      BY <1>8, <2>1, <2>2, <2>3, <3>1
    <3>2. CASE j < i
      <4>1. j * m + m <= i * m
        BY <1>1, <2>3, <3>2, Multiples
      <4>2. QED
        BY <1>1, <1>8, <2>1, <2>2, <2>3, <4>1
    <3>3. QED
      BY <2>3, <3>1, <3>2
  <2>5. i * m + m <= j * m
    BY <1>1, <2>3, <2>4, Multiples
  <2>6. QED
    BY <1>1, <2>1, <2>2, <2>3, <2>5
<1>9. ASSUME NEW b \in Units(offset, length)
      PROVE  \E o \in C : b \in Units(o, L(o))
  <2>1. CASE length = 0
    <3>1. b = 0 /\ L(offset) = 0
      BY <1>6, <1>7, <2>1, UnitMember
    <3>2. QED
      BY <1>6, <3>1 DEF Units
  <2>2. CASE length > 0
    <3>1. b \in Nat /\ offset <= b /\ b < offset + length
      BY <2>2, UnitMember
    <3> DEFINE i == (b - offset) \div m
    <3>2. b - offset \in Nat
      BY <3>1
    <3>3. i \in Nat /\ i * m <= b - offset /\ b - offset < i * m + m
      BY <1>1, <3>2, Quotient
    <3> HIDE DEF i
    <3>4. i <= top
      <4> SUFFICES ASSUME top < i PROVE FALSE
        BY <1>2, <3>3
      <4>1. top * m + m <= i * m
        BY <1>1, <1>2, <3>3, Multiples
      <4>2. top * m \in Nat /\ i * m \in Nat
        BY <1>2, <1>4, <3>3
      <4>3. QED
        BY <1>1, <1>2, <2>2, <3>1, <3>3, <4>1, <4>2
    <3>5. i * m \in Nat
      BY <1>4, <3>3
    <3> DEFINE o == offset + i * m
    <3>6. o \in C
      BY <1>2, <1>3, <3>3, <3>4
    <3>7. o \in Nat /\ o <= b /\ b < o + m
      BY <1>1, <3>1, <3>3, <3>5
    <3> HIDE DEF o
    <3>8. L(o) \in Nat /\ L(o) > 0 /\ (L(o) = m \/ o + L(o) = offset + length)
      BY <1>7, <2>2, <3>6
    <3>9. b \in Nat /\ o <= b /\ b < o + L(o)
      BY <3>1, <3>7, <3>8
    <3> HIDE DEF L
    <3>10. b \in Units(o, L(o))
      BY <3>7, <3>8, <3>9, UnitMember
    <3>11. QED
      BY <3>6, <3>10
  <2>3. QED
    BY <2>1, <2>2
<1>10. ASSUME NEW o \in C, NEW b \in Units(o, L(o)) PROVE b \in Units(offset, length)
  <2>1. CASE length = 0
    BY <1>7, <2>1
  <2>2. CASE length > 0
    <3>1. /\ o \in Nat /\ offset <= o /\ L(o) \in Nat /\ L(o) > 0
          /\ o + L(o) <= offset + length
      BY <1>7, <2>2
    <3> HIDE DEF L
    <3>2. b \in Nat /\ o <= b /\ b < o + L(o)
      BY <3>1, UnitMember
    <3>3. QED
      BY <2>2, <3>1, <3>2, UnitMember
  <2>3. QED
    BY <2>1, <2>2
<1>11. ASSUME length <= m PROVE C = {offset} /\ L(offset) = length
  <2>1. ASSUME NEW o \in C PROVE o = offset
    <3>1. o \in Nat /\ offset <= o /\ (length > 0 => o < offset + length)
          /\ (length = 0 => o = offset)
      BY <1>7
    <3>2. offset < o => offset + m <= o
      BY <1>6, <1>8
    <3>3. QED
      BY <1>1, <1>11, <3>1, <3>2
  <2>2. L(offset) = IF m < offset + length - offset THEN m ELSE offset + length - offset
    BY DEF ChunkLength, Least, m
  <2> HIDE DEF L
  <2>3. L(offset) = length
    BY <1>1, <1>11, <2>2
  <2>4. QED
    BY <1>6, <2>1, <2>3
<1>12. \A o, q \in C : o < q => o + L(o) <= q
  <2> SUFFICES ASSUME NEW o \in C, NEW q \in C, o < q PROVE o + L(o) <= q
    OBVIOUS
  <2>1. L(o) <= m /\ L(o) \in Nat /\ o \in Nat /\ q \in Nat /\ o + m <= q
    BY <1>7, <1>8
  <2> HIDE DEF L
  <2>2. QED
    BY <1>1, <2>1
<1>13. QED
  BY <1>6, <1>7, <1>9, <1>10, <1>11, <1>12 DEF C, m

----------------------------------------------------------------------------
(* Fragments and what is sent.                                             *)

LEMMA KeyPair == \A k \in Key : k \in Nat \X Nat
  BY KeyShape

LEMMA FragmentFacts ==
    ASSUME NEW x, x.offset \in Nat, x.length \in Nat, FragmentOK(x)
    PROVE  /\ x.key \in Key /\ ObjectLength[x.key] \in Nat
           /\ x.length = 0 => x.offset = 0
           /\ x.offset \in Units(x.offset, x.length)
           /\ \A b \in Units(x.offset, x.length) :
                b \in Nat /\ b \in Units(0, ObjectLength[x.key])
<1>1. x.key \in Key /\ ObjectLength[x.key] \in Nat
  BY MediaAssumption DEF FragmentOK, Sent
<1>2. /\ x.offset + x.length <= ObjectLength[x.key]
      /\ x.length = 0 => ObjectLength[x.key] = 0
  BY DEF FragmentOK
<1>3. x.length = 0 => x.offset = 0
  BY <1>1, <1>2
<1>4. x.offset \in Units(x.offset, x.length)
  BY <1>3, UnitMember
<1>5. ASSUME NEW b \in Units(x.offset, x.length)
      PROVE  b \in Nat /\ b \in Units(0, ObjectLength[x.key])
  <2>1. IF x.length = 0 THEN b = 0
        ELSE b \in Nat /\ x.offset <= b /\ b < x.offset + x.length
    BY UnitMember
  <2>2. QED
    BY <1>1, <1>2, <2>1, UnitMember
<1>6. QED
  BY <1>1, <1>3, <1>4, <1>5

\* Two fragments that start at the same place meet.
LEMMA StartsMeet ==
    ASSUME NEW x, x.offset \in Nat, x.length \in Nat, FragmentOK(x),
           NEW y, y.offset \in Nat, y.length \in Nat, FragmentOK(y),
           SameStart(x, y)
    PROVE  Meet(x, y)
<1>1. x.offset \in Units(x.offset, x.length) /\ y.offset \in Units(y.offset, y.length)
  BY FragmentFacts
<1>2. QED
  BY <1>1 DEF SameStart, Meet

\* The fields of records and transmissions.
LEMMA Fields ==
    /\ \A das \in AckRecord :
         /\ das.key \in Key /\ das.offset \in Nat /\ das.length \in Nat
         /\ das.is_acked \in BOOLEAN /\ das.is_extra_queued \in BOOLEAN
         /\ das.last_sent \in Nat
    /\ \A d \in Transmission :
         /\ d.key \in Key /\ d.offset \in Nat /\ d.length \in Nat /\ d.rank \in Nat
         /\ d.arrived \in BOOLEAN /\ d.lost \in BOOLEAN
  BY DEF AckRecord, Transmission

LEMMA PieceShape ==
    ASSUME NEW k \in Key, NEW p \in Pieces[k]
    PROVE  /\ p.offset \in Nat /\ p.data_length \in Nat
           /\ ObjectLength[k] \in Nat
           /\ p.offset + p.data_length <= ObjectLength[k]
           /\ p.data_length = 0 => ObjectLength[k] = 0
  BY AckAssumption, MediaAssumption

\* Two pieces of an object have no unit in common.
LEMMA PiecesApart ==
    ASSUME NEW k \in Key, NEW p \in Pieces[k], NEW q \in Pieces[k], p # q,
           NEW b \in Units(p.offset, p.data_length)
    PROVE  b \notin Units(q.offset, q.data_length)
<1>1. /\ p.offset \in Nat /\ p.data_length \in Nat /\ ObjectLength[k] \in Nat
      /\ p.offset + p.data_length <= ObjectLength[k]
      /\ p.data_length = 0 => ObjectLength[k] = 0
  BY PieceShape
<1>2. /\ q.offset \in Nat /\ q.data_length \in Nat
      /\ q.offset + q.data_length <= ObjectLength[k]
      /\ q.data_length = 0 => ObjectLength[k] = 0
  BY PieceShape
<1>3. \/ p.offset + p.data_length <= q.offset /\ p.data_length > 0
      \/ q.offset + q.data_length <= p.offset /\ q.data_length > 0
  BY AckAssumption
<1>4. IF p.data_length = 0 THEN b = 0
      ELSE b \in Nat /\ p.offset <= b /\ b < p.offset + p.data_length
  BY <1>1, UnitMember
<1>5. b \in Units(q.offset, q.data_length) =>
      IF q.data_length = 0 THEN b = 0
      ELSE b \in Nat /\ q.offset <= b /\ b < q.offset + q.data_length
  BY <1>2, UnitMember
<1>6. QED
  BY <1>1, <1>2, <1>3, <1>4, <1>5

\* While the horizon is at its initial value, it has passed nothing.
LEMMA InitialHorizon ==
    ASSUME horizon = <<-1, -1, -1>>, NEW k \in Key, NEW b
    PROVE  ~Passed(k, b)
<1>1. k[1] \in Nat /\ k[2] \in Nat /\ HorizonKey = <<-1, -1>>
  BY KeyShape DEF HorizonKey
<1>2. QED
  BY <1>1 DEF Passed, Before

\* What is sent now was not sent before, and the horizon has not passed it.
LEMMA PieceIsNew ==
    ASSUME SentOK, HorizonOK, PassedOK, NEW k \in Sent, NEW p \in Pieces[k],
           <<k, p>> \notin sent, \A j \in FirstSent : ~Before(k, j),
           NEW b \in Units(p.offset, p.data_length)
    PROVE  ~IsSent(k, b) /\ ~Passed(k, b)
<1>1. k \in Key
  BY DEF Sent
<1>2. ~IsSent(k, b)
  <2> SUFFICES ASSUME NEW s \in sent, s[1] = k,
                      b \in Units(s[2].offset, s[2].data_length)
               PROVE  FALSE
    BY DEF IsSent
  <2>1. s[2] \in Pieces[k] /\ s = <<k, s[2]>>
    BY DEF SentOK
  <2>2. s[2] # p
    BY <2>1
  <2>3. QED
    BY <1>1, <2>1, <2>2, PiecesApart
<1>3. ~Passed(k, b)
  <2> SUFFICES ASSUME Passed(k, b) PROVE FALSE
    OBVIOUS
  <2>1. sent # {}
    BY <1>1, InitialHorizon DEF HorizonOK
  <2>2. PICK f \in sent : \A s \in sent : ~Before(s[1], f[1])
    BY <2>1 DEF SentOK
  <2>3. ~Before(k, f[1])
    BY <2>2 DEF FirstSent
  <2>4. b \in Units(0, ObjectLength[k])
    <3>1. /\ p.offset \in Nat /\ p.data_length \in Nat /\ ObjectLength[k] \in Nat
          /\ p.offset + p.data_length <= ObjectLength[k]
          /\ p.data_length = 0 => ObjectLength[k] = 0
      BY <1>1, PieceShape
    <3>2. IF p.data_length = 0 THEN b = 0
          ELSE b \in Nat /\ p.offset <= b /\ b < p.offset + p.data_length
      BY <3>1, UnitMember
    <3>3. QED
      BY <3>1, <3>2, UnitMember
  <2>5. \A s \in sent : Before(k, s[1])
    BY <1>1, <1>2, <2>4 DEF PassedOK
  <2>6. QED
    BY <2>2, <2>3, <2>5
<1>4. QED
  BY <1>2, <1>3

----------------------------------------------------------------------------
(* The publisher sends a piece.                                            *)

LEMMA RecordShape ==
    ASSUME NEW k \in Key, NEW o \in Nat, NEW l \in Nat, NEW r \in Nat
    PROVE  LET das == Record(k, o, l, r)
           IN /\ das \in AckRecord
              /\ das.key = k /\ das.offset = o /\ das.length = l
              /\ das.last_sent = r /\ ~das.is_acked
<1>1. (extra_repeat_after_received_delayed /\ k \in Delayed) \in BOOLEAN
  OBVIOUS
<1> DEFINE q == extra_repeat_after_received_delayed /\ k \in Delayed
<1> HIDE DEF q
<1>2. Record(k, o, l, r) = [key |-> k, offset |-> o, length |-> l, is_acked |-> FALSE,
                            is_extra_queued |-> q, last_sent |-> r]
  BY DEF Record, q
<1>3. QED
  BY <1>1, <1>2 DEF AckRecord, q

LEMMA DatagramShape ==
    ASSUME NEW k \in Key, NEW o \in Nat, NEW l \in Nat, NEW r \in Nat
    PROVE  LET d == Datagram(k, o, l, r)
           IN /\ d \in Transmission
              /\ d.key = k /\ d.offset = o /\ d.length = l /\ d.rank = r
              /\ ~d.arrived /\ ~d.lost
  BY DEF Datagram, Transmission

\* Appending an id that is not in the list yet.
LEMMA AppendExtra ==
    ASSUME ExtraOK, NEW id \in [key : Key, offset : Nat],
           \A i \in DOMAIN extra : extra[i] # id, NEW queue, queue = Append(extra, id)
    PROVE  /\ queue \in Seq([key : Key, offset : Nat])
           /\ \A i, j \in DOMAIN queue : queue[i] = queue[j] => i = j
           /\ \A i \in DOMAIN queue : queue[i] = id \/ \E j \in DOMAIN extra : queue[i] = extra[j]
<1> DEFINE Ids == [key : Key, offset : Nat]
<1> HIDE DEF Ids
<1>1. extra \in Seq(Ids) /\ id \in Ids
  BY DEF ExtraOK, Ids
<1>2. /\ queue \in Seq(Ids) /\ Len(extra) \in Nat /\ DOMAIN extra = 1..Len(extra)
      /\ DOMAIN queue = 1..(Len(extra) + 1)
      /\ \A i \in 1..(Len(extra) + 1) :
           queue[i] = IF i = Len(extra) + 1 THEN id ELSE extra[i]
  BY <1>1
<1>3. \A i, j \in DOMAIN extra : extra[i] = extra[j] => i = j
  BY DEF ExtraOK
<1>4. \A i, j \in DOMAIN queue : queue[i] = queue[j] => i = j
  BY <1>2, <1>3
<1>5. \A i \in DOMAIN queue : queue[i] = id \/ \E j \in DOMAIN extra : queue[i] = extra[j]
  BY <1>2
<1>6. QED
  BY <1>2, <1>4, <1>5 DEF Ids

LEMMA SendStep ==
    ASSUME AckInv, NEW k \in Sent, NEW p \in Pieces[k], SendFragment(k, p)
    PROVE  AckInv'
<1> DEFINE das == Record(k, p.offset, p.data_length, 0)
           new == Datagram(k, p.offset, p.data_length, 0)
<1>1. /\ k \in Key /\ p.offset \in Nat /\ p.data_length \in Nat
      /\ p.offset + p.data_length <= ObjectLength[k]
      /\ p.data_length = 0 => ObjectLength[k] = 0
      /\ ObjectLength[k] \in Nat
  BY PieceShape DEF Sent
<1>2. /\ <<k, p>> \notin sent /\ \A j \in FirstSent : ~Before(k, j)
      /\ sent' = sent \cup {<<k, p>>} /\ in_flight' = in_flight \cup {new}
      /\ UNCHANGED <<horizon, horizon_is_last_fragment, pc, received>>
      /\ pc = "idle"
  BY DEF SendFragment
<1>3. \A b \in Units(p.offset, p.data_length) : ~IsSent(k, b) /\ ~Passed(k, b)
  BY <1>2, PieceIsNew DEF AckInv
<1>4. /\ das \in AckRecord /\ das.key = k /\ das.offset = p.offset
      /\ das.length = p.data_length /\ das.last_sent = 0 /\ ~das.is_acked
  BY <1>1, RecordShape
<1>5. /\ new \in Transmission /\ new.key = k /\ new.offset = p.offset
      /\ new.length = p.data_length /\ new.rank = 0 /\ ~new.arrived /\ ~new.lost
  BY <1>1, DatagramShape
<1>6. p.offset \in Units(p.offset, p.data_length)
  BY <1>1, UnitMember
<1>7. /\ datagram_ack_tree' = datagram_ack_tree \cup {das}
      /\ extra' = IF das.is_extra_queued THEN Append(extra, Id(das)) ELSE extra
  <2>1. ~BelowHorizon(k, p.offset)
    BY <1>3, <1>6 DEF BelowHorizon, Passed
  <2>2. QED
    BY <2>1 DEF SendFragment
<1> HIDE DEF das, new
<1>8. \A j, b : IsSent(j, b)' <=> IsSent(j, b) \/ (j = k /\ b \in Units(p.offset, p.data_length))
  BY <1>2 DEF IsSent
<1>9. \A j, b : Passed(j, b)' <=> Passed(j, b)
  BY <1>2 DEF Passed, HorizonKey
<1>10. \A x : FragmentOK(x) => FragmentOK(x)'
  BY <1>8 DEF FragmentOK
<1>11. FragmentOK(das)' /\ FragmentOK(new)'
  BY <1>1, <1>4, <1>5, <1>8 DEF FragmentOK
<1>12. \A e \in datagram_ack_tree : /\ e \in AckRecord /\ FragmentOK(e)
                                    /\ e.offset \in Nat /\ e.length \in Nat
  BY Fields DEF AckInv, RecordsOK, IsRecord
<1>13. \A e \in in_flight : /\ e \in Transmission /\ FragmentOK(e)
                            /\ e.offset \in Nat /\ e.length \in Nat
  BY Fields DEF AckInv, FlightOK
\* Nothing of before meets the new fragment.
<1>14. \A e : FragmentOK(e) /\ e.key = k =>
          \A b \in Units(e.offset, e.length) : b \notin Units(p.offset, p.data_length)
  BY <1>3 DEF FragmentOK
<1>15. \A e : FragmentOK(e) => /\ ~Meet(e, das) /\ ~Meet(das, e)
                               /\ ~Meet(e, new) /\ ~Meet(new, e)
  BY <1>4, <1>5, <1>14 DEF Meet
<1>16. \A e : FragmentOK(e) /\ e.offset \in Nat /\ e.length \in Nat =>
          ~(e.key = k /\ e.offset = p.offset)
  BY <1>6, <1>14, FragmentFacts
<1>17. SentOK'
  <2>1. \A s \in sent' : s[1] \in Sent /\ s[2] \in Pieces[s[1]] /\ s = <<s[1], s[2]>>
    BY <1>2 DEF AckInv, SentOK
  <2>2. \E f \in sent' : \A s \in sent' : ~Before(s[1], f[1])
    <3>1. CASE sent = {}
      <4>1. ~Before(k, k)
        BY <1>1, KeyPair, BeforeIsTotal
      <4>2. QED
        BY <1>2, <3>1, <4>1
    <3>2. CASE sent # {}
      <4>1. PICK f \in sent : \A s \in sent : ~Before(s[1], f[1])
        BY <3>2 DEF AckInv, SentOK
      <4>2. ~Before(k, f[1])
        BY <1>2, <4>1 DEF FirstSent
      <4>3. QED
        BY <1>2, <4>1, <4>2
    <3>3. QED
      BY <3>1, <3>2
  <2>3. QED
    BY <2>1, <2>2 DEF SentOK
<1>18. HorizonOK'
  BY <1>2 DEF AckInv, HorizonOK, HorizonKey
<1>19. PassedOK'
  <2> SUFFICES ASSUME NEW j \in Key, NEW b \in Units(0, ObjectLength[j]), Passed(j, b)
               PROVE  \/ IsSent(j, b)' /\ <<j, b>> \in received'
                      \/ \A s \in sent' : Before(j, s[1])
    BY <1>9 DEF PassedOK
  <2>1. CASE IsSent(j, b) /\ <<j, b>> \in received
    BY <1>2, <1>8, <2>1
  <2>2. CASE \A s \in sent : Before(j, s[1])
    <3>1. sent # {}
      BY InitialHorizon DEF AckInv, HorizonOK
    <3>2. PICK f \in sent : \A s \in sent : ~Before(s[1], f[1])
      BY <3>1 DEF AckInv, SentOK
    <3>3. f[1] \in Key
      BY <3>2 DEF AckInv, SentOK, Sent
    <3>4. ~Before(k, f[1]) /\ Before(j, f[1])
      BY <1>2, <2>2, <3>2 DEF FirstSent
    <3>5. j \in Nat \X Nat /\ k \in Nat \X Nat /\ f[1] \in Nat \X Nat
      BY <1>1, <3>3, KeyPair
    <3>6. Before(j, k)
      BY <3>4, <3>5, BeforeIsTotal
    <3>7. QED
      BY <1>2, <2>2, <3>6
  <2>3. QED
    BY <2>1, <2>2 DEF AckInv, PassedOK
<1>20. RecordsOK'
  <2>1. ASSUME NEW e \in datagram_ack_tree
        PROVE  /\ IsRecord(e) /\ FragmentOK(e)'
               /\ \A b \in Units(e.offset, e.length) : ~Passed(e.key, b)'
               /\ e.is_acked => UnitsOf(e) \subseteq received'
    BY <1>2, <1>9, <1>10, <1>12 DEF AckInv, RecordsOK
  <2>2. /\ IsRecord(das) /\ FragmentOK(das)' /\ ~das.is_acked
        /\ \A b \in Units(das.offset, das.length) : ~Passed(das.key, b)'
    BY <1>1, <1>3, <1>4, <1>9, <1>11, AckAssumption DEF IsRecord
  <2>3. QED
    BY <1>7, <2>1, <2>2 DEF RecordsOK, IsRecord
<1>21. Disjoint(datagram_ack_tree)'
  <2>1. \A d, e \in datagram_ack_tree : Meet(d, e) => d = e
    BY DEF AckInv, Disjoint
  <2>2. QED
    BY <1>7, <1>12, <1>15, <2>1 DEF Disjoint
<1>22. CoverOK'
  <2> SUFFICES ASSUME NEW j \in Key, NEW b \in Units(0, ObjectLength[j]),
                      IsSent(j, b)', ~Passed(j, b)
               PROVE  \E e \in datagram_ack_tree' :
                         e.key = j /\ b \in Units(e.offset, e.length)
    BY <1>9 DEF CoverOK
  <2>1. CASE IsSent(j, b)
    BY <1>2, <1>7, <2>1 DEF AckInv, CoverOK
  <2>2. CASE j = k /\ b \in Units(p.offset, p.data_length)
    BY <1>4, <1>7, <2>2
  <2>3. QED
    BY <1>8, <2>1, <2>2
<1>23. FlightOK(in_flight)'
  <2>1. \A e \in in_flight' : /\ e \in Transmission /\ FragmentOK(e)'
                              /\ e.arrived => UnitsOf(e) \subseteq received'
    BY <1>2, <1>5, <1>10, <1>11 DEF AckInv, FlightOK
  <2>2. \A d, e \in in_flight' : SameStart(d, e) /\ d.rank = e.rank => d = e
    <3>1. \A e \in in_flight : ~SameStart(e, new) /\ ~SameStart(new, e)
      BY <1>5, <1>13, <1>16 DEF SameStart
    <3>2. QED
      BY <1>2, <3>1 DEF AckInv, FlightOK
  <2>3. QED
    BY <2>1, <2>2 DEF FlightOK
<1>24. Aligned(in_flight, datagram_ack_tree)'
  <2> SUFFICES ASSUME NEW d \in in_flight', NEW e \in datagram_ack_tree', Meet(d, e)
               PROVE  d.offset <= e.offset /\ e.offset + e.length <= AckEnd(d)
    BY DEF Aligned, AckEnd
  <2>1. CASE d \in in_flight /\ e \in datagram_ack_tree
    BY <2>1 DEF AckInv, Aligned, AckEnd
  <2>2. CASE d = new /\ e = das
    BY <1>1, <1>4, <1>5, <2>2 DEF AckEnd
  <2>3. CASE d = new /\ e \in datagram_ack_tree
    BY <1>12, <1>15, <2>3
  <2>4. CASE d \in in_flight /\ e = das
    BY <1>13, <1>15, <2>4
  <2>5. QED
    BY <1>2, <1>7, <2>1, <2>2, <2>3, <2>4
<1>25. RanksOK(in_flight, datagram_ack_tree)'
  <2> SUFFICES ASSUME NEW d \in in_flight', NEW e \in datagram_ack_tree', SameStart(d, e)
               PROVE  /\ d.rank <= e.last_sent
                      /\ d.rank = e.last_sent => d.length = e.length
                      /\ ~d.lost /\ ~e.is_extra_queued => d.rank = e.last_sent
    BY DEF RanksOK
  <2>1. CASE d \in in_flight /\ e \in datagram_ack_tree
    BY <2>1 DEF AckInv, RanksOK
  <2>2. CASE d = new /\ e = das
    BY <1>4, <1>5, <2>2
  <2>3. CASE d = new /\ e \in datagram_ack_tree
    BY <1>5, <1>12, <1>16, <2>3 DEF SameStart
  <2>4. CASE d \in in_flight /\ e = das
    BY <1>4, <1>13, <1>16, <2>4 DEF SameStart
  <2>5. QED
    BY <1>2, <1>7, <2>1, <2>2, <2>3, <2>4
<1>26. PendingOK(in_flight, datagram_ack_tree)'
  <2>1. ~new.lost /\ SameStart(new, das) /\ new.rank = das.last_sent
    BY <1>4, <1>5 DEF SameStart
  <2>2. QED
    BY <1>2, <1>7, <2>1 DEF AckInv, PendingOK, Repeatable, UnitsOf
<1>27. ExtraOK'
  <2>1. CASE ~das.is_extra_queued
    BY <1>7, <2>1 DEF AckInv, ExtraOK
  <2>2. CASE das.is_extra_queued
    <3>1. Id(das) = [key |-> k, offset |-> p.offset]
      BY <1>4 DEF Id
    <3>2. \A i \in DOMAIN extra : extra[i] # Id(das)
      <4> SUFFICES ASSUME NEW i \in DOMAIN extra, extra[i] = Id(das) PROVE FALSE
        OBVIOUS
      <4>1. PICK e \in datagram_ack_tree : Id(e) = extra[i]
        BY DEF AckInv, ExtraOK
      <4>2. e.key = k /\ e.offset = p.offset
        BY <3>1, <4>1 DEF Id
      <4>3. QED
        BY <1>12, <1>16, <4>2
    <3>3. /\ extra' \in Seq([key : Key, offset : Nat])
          /\ \A i, j \in DOMAIN extra' : extra'[i] = extra'[j] => i = j
          /\ \A i \in DOMAIN extra' :
               extra'[i] = Id(das) \/ \E j \in DOMAIN extra : extra'[i] = extra[j]
      <4>1. Id(das) \in [key : Key, offset : Nat] /\ extra' = Append(extra, Id(das))
        BY <1>1, <1>7, <2>2, <3>1
      <4>2. QED
        BY <3>2, <4>1, AppendExtra, ZenonT(30) DEF AckInv
    <3>4. ASSUME NEW i \in DOMAIN extra'
          PROVE  \E e \in datagram_ack_tree' : Id(e) = extra'[i] /\ e.is_extra_queued
      <4>1. CASE extra'[i] = Id(das)
        BY <1>7, <2>2, <4>1
      <4>2. CASE \E j \in DOMAIN extra : extra'[i] = extra[j]
        BY <1>7, <4>2 DEF AckInv, ExtraOK
      <4>3. QED
        BY <3>3, <4>1, <4>2
    <3>5. QED
      BY <3>3, <3>4 DEF ExtraOK, Id
  <2>3. QED
    BY <2>1, <2>2
<1>28. QED
  BY <1>2, <1>17, <1>18, <1>19, <1>20, <1>21, <1>22, <1>23, <1>24, <1>25, <1>26, <1>27
  DEF AckInv

----------------------------------------------------------------------------
(* Steps that neither send a piece nor move the horizon.                   *)

LEMMA TreeFacts ==
    ASSUME AckInv, NEW e \in datagram_ack_tree
    PROVE  /\ e \in AckRecord /\ FragmentOK(e) /\ IsRecord(e)
           /\ e.key \in Key /\ e.offset \in Nat /\ e.length \in Nat
           /\ e.last_sent \in Nat
           /\ e.is_acked => UnitsOf(e) \subseteq received
  BY Fields DEF AckInv, RecordsOK, IsRecord

LEMMA FlightFacts ==
    ASSUME AckInv, NEW d \in in_flight
    PROVE  /\ d \in Transmission /\ FragmentOK(d)
           /\ d.key \in Key /\ d.offset \in Nat /\ d.length \in Nat /\ d.rank \in Nat
           /\ d.arrived => UnitsOf(d) \subseteq received
  BY Fields DEF AckInv, FlightOK

LEMMA HorizonStays ==
    ASSUME UNCHANGED <<horizon, horizon_is_last_fragment, sent>>
    PROVE  /\ SentOK => SentOK'
           /\ HorizonOK => HorizonOK'
           /\ PassedOK /\ received \subseteq received' => PassedOK'
           /\ \A k, b : (IsSent(k, b)' <=> IsSent(k, b)) /\ (Passed(k, b)' <=> Passed(k, b))
           /\ \A x : FragmentOK(x)' <=> FragmentOK(x)
<1>1. \A k, b : IsSent(k, b)' <=> IsSent(k, b)
  BY DEF IsSent
<1>2. \A k, b : Passed(k, b)' <=> Passed(k, b)
  BY DEF Passed, HorizonKey
<1>3. \A x : FragmentOK(x)' <=> FragmentOK(x)
  BY <1>1 DEF FragmentOK
<1>4. SentOK => SentOK'
  BY DEF SentOK
<1>5. HorizonOK => HorizonOK'
  BY DEF HorizonOK, HorizonKey
<1>6. PassedOK /\ received \subseteq received' => PassedOK'
  BY <1>1, <1>2 DEF PassedOK
<1>7. QED
  BY <1>1, <1>2, <1>3, <1>4, <1>5, <1>6

\* A transmission marked as arrived or as lost.
LEMMA MarkedShape ==
    ASSUME NEW d \in Transmission
    PROVE  LET a == [d EXCEPT !.arrived = TRUE]
               l == [d EXCEPT !.lost = TRUE]
           IN /\ a \in Transmission /\ l \in Transmission
              /\ a.key = d.key /\ a.offset = d.offset /\ a.length = d.length
              /\ a.rank = d.rank /\ a.arrived /\ a.lost = d.lost
              /\ l.key = d.key /\ l.offset = d.offset /\ l.length = d.length
              /\ l.rank = d.rank /\ l.lost /\ l.arrived = d.arrived
  BY DEF Transmission

\* Marking a transmission disturbs neither the order of ranks nor the cuts.
LEMMA MarkedFlight ==
    ASSUME AckInv, NEW d \in in_flight, NEW m \in Transmission,
           m.key = d.key, m.offset = d.offset, m.length = d.length, m.rank = d.rank,
           d.lost => m.lost,
           NEW flight, flight = (in_flight \ {d}) \cup {m}
    PROVE  /\ \A c, e \in flight : SameStart(c, e) /\ c.rank = e.rank => c = e
           /\ Aligned(flight, datagram_ack_tree)
           /\ RanksOK(flight, datagram_ack_tree)
           /\ FragmentOK(m) /\ UnitsOf(m) = UnitsOf(d)
<1>1. \A c, e \in in_flight : SameStart(c, e) /\ c.rank = e.rank => c = e
  BY DEF AckInv, FlightOK
<1>2. \A e \in in_flight : ~SameStart(e, m) \/ e.rank # m.rank \/ e = d
  BY <1>1 DEF SameStart
<1>3. \A c, e \in flight : SameStart(c, e) /\ c.rank = e.rank => c = e
  BY <1>1, <1>2 DEF SameStart
<1>4. Aligned(flight, datagram_ack_tree)
  BY DEF AckInv, Aligned, Meet, AckEnd
<1>5. RanksOK(flight, datagram_ack_tree)
  BY DEF AckInv, RanksOK, SameStart
<1>6. FragmentOK(m) /\ UnitsOf(m) = UnitsOf(d)
  BY FlightFacts DEF FragmentOK, UnitsOf
<1>7. QED
  BY <1>3, <1>4, <1>5, <1>6

LEMMA ArriveStep ==
    ASSUME AckInv, NEW d \in in_flight, Arrive(d)
    PROVE  AckInv'
<1> DEFINE m == [d EXCEPT !.arrived = TRUE]
<1>1. /\ in_flight' = (in_flight \ {d}) \cup {m} /\ received' = received \cup UnitsOf(d)
      /\ UNCHANGED <<datagram_ack_tree, horizon, horizon_is_last_fragment, extra, pc, sent>>
  BY DEF Arrive
<1>2. d \in Transmission /\ FragmentOK(d)
  BY FlightFacts
<1>3. /\ m \in Transmission /\ m.key = d.key /\ m.offset = d.offset /\ m.length = d.length
      /\ m.rank = d.rank /\ m.lost = d.lost
  BY <1>2, MarkedShape
<1> HIDE DEF m
<1>4. /\ \A c, e \in in_flight' : SameStart(c, e) /\ c.rank = e.rank => c = e
      /\ Aligned(in_flight', datagram_ack_tree) /\ RanksOK(in_flight', datagram_ack_tree)
      /\ FragmentOK(m) /\ UnitsOf(m) = UnitsOf(d)
  BY <1>1, <1>3, MarkedFlight
<1>5. received \subseteq received' /\ received' \subseteq Key \X Nat
  <2>1. UnitsOf(d) \subseteq Key \X Nat
    BY FragmentFacts, FlightFacts DEF UnitsOf
  <2>2. QED
    BY <1>1, <2>1 DEF AckInv
<1>6. /\ SentOK' /\ HorizonOK' /\ PassedOK'
      /\ \A k, b : (IsSent(k, b)' <=> IsSent(k, b)) /\ (Passed(k, b)' <=> Passed(k, b))
      /\ \A x : FragmentOK(x)' <=> FragmentOK(x)
  BY <1>1, <1>5, HorizonStays DEF AckInv
<1>7. RecordsOK' /\ Disjoint(datagram_ack_tree)' /\ CoverOK'
  <2>1. RecordsOK'
    BY <1>1, <1>5, <1>6 DEF AckInv, RecordsOK, IsRecord, UnitsOf
  <2>2. Disjoint(datagram_ack_tree)'
    BY <1>1 DEF AckInv, Disjoint, Meet
  <2>3. CoverOK'
    BY <1>1, <1>6 DEF AckInv, CoverOK
  <2>4. QED
    BY <2>1, <2>2, <2>3
<1>8. FlightOK(in_flight)'
  <2>1. \A e \in in_flight' : /\ e \in Transmission /\ FragmentOK(e)'
                              /\ e.arrived => UnitsOf(e) \subseteq received'
    BY <1>1, <1>3, <1>4, <1>5, <1>6 DEF AckInv, FlightOK
  <2>2. QED
    BY <1>4, <2>1 DEF FlightOK, UnitsOf, SameStart
<1>9. Aligned(in_flight, datagram_ack_tree)' /\ RanksOK(in_flight, datagram_ack_tree)'
  BY <1>1, <1>4 DEF Aligned, RanksOK, Meet, AckEnd, SameStart
<1>10. PendingOK(in_flight, datagram_ack_tree)'
  <2> SUFFICES ASSUME NEW e \in datagram_ack_tree, ~(UnitsOf(e) \subseteq received),
                      Repeatable(e.key, e.length)
               PROVE  \E c \in in_flight' :
                         ~c.lost /\ SameStart(c, e) /\ c.rank = e.last_sent
    BY <1>1, <1>5 DEF PendingOK, UnitsOf, Repeatable, SameStart
  <2>1. PICK c \in in_flight : ~c.lost /\ SameStart(c, e) /\ c.rank = e.last_sent
    BY DEF AckInv, PendingOK
  <2>2. QED
    BY <1>1, <1>3, <2>1 DEF SameStart
<1>11. ExtraOK'
  BY <1>1 DEF AckInv, ExtraOK, Id
<1>12. QED
  BY <1>1, <1>5, <1>6, <1>7, <1>8, <1>9, <1>10, <1>11 DEF AckInv

LEMMA LostIgnoredStep ==
    ASSUME AckInv, NEW d \in in_flight, LostIgnored(d)
    PROVE  AckInv'
<1> DEFINE m == [d EXCEPT !.lost = TRUE]
<1>1. /\ in_flight' = (in_flight \ {d}) \cup {m} /\ ~d.lost /\ ToRepeat(d) = {}
      /\ UNCHANGED <<datagram_ack_tree, horizon, horizon_is_last_fragment, extra, pc,
                     sent, received>>
  BY DEF LostIgnored, Flying
<1>2. d \in Transmission /\ d.rank \in Nat
  BY FlightFacts
<1>3. /\ m \in Transmission /\ m.key = d.key /\ m.offset = d.offset /\ m.length = d.length
      /\ m.rank = d.rank /\ m.lost /\ m.arrived = d.arrived
  BY <1>2, MarkedShape
<1> HIDE DEF m
<1>4. /\ \A c, e \in in_flight' : SameStart(c, e) /\ c.rank = e.rank => c = e
      /\ Aligned(in_flight', datagram_ack_tree) /\ RanksOK(in_flight', datagram_ack_tree)
      /\ FragmentOK(m) /\ UnitsOf(m) = UnitsOf(d)
  BY <1>1, <1>3, MarkedFlight
<1>6. /\ SentOK' /\ HorizonOK' /\ PassedOK'
      /\ \A k, b : (IsSent(k, b)' <=> IsSent(k, b)) /\ (Passed(k, b)' <=> Passed(k, b))
      /\ \A x : FragmentOK(x)' <=> FragmentOK(x)
  BY <1>1, HorizonStays DEF AckInv
<1>7. RecordsOK' /\ Disjoint(datagram_ack_tree)' /\ CoverOK'
  <2>1. RecordsOK'
    BY <1>1, <1>6 DEF AckInv, RecordsOK, IsRecord, UnitsOf
  <2>2. Disjoint(datagram_ack_tree)'
    BY <1>1 DEF AckInv, Disjoint, Meet
  <2>3. CoverOK'
    BY <1>1, <1>6 DEF AckInv, CoverOK
  <2>4. QED
    BY <2>1, <2>2, <2>3
<1>8. FlightOK(in_flight)'
  <2>1. \A e \in in_flight' : /\ e \in Transmission /\ FragmentOK(e)'
                              /\ e.arrived => UnitsOf(e) \subseteq received'
    BY <1>1, <1>3, <1>4, <1>6 DEF AckInv, FlightOK
  <2>2. QED
    BY <1>4, <2>1 DEF FlightOK, UnitsOf, SameStart
<1>9. Aligned(in_flight, datagram_ack_tree)' /\ RanksOK(in_flight, datagram_ack_tree)'
  BY <1>1, <1>4 DEF Aligned, RanksOK, Meet, AckEnd, SameStart
<1>10. PendingOK(in_flight, datagram_ack_tree)'
  <2> SUFFICES ASSUME NEW e \in datagram_ack_tree, ~(UnitsOf(e) \subseteq received),
                      Repeatable(e.key, e.length)
               PROVE  \E c \in in_flight' :
                         ~c.lost /\ SameStart(c, e) /\ c.rank = e.last_sent
    BY <1>1 DEF PendingOK, UnitsOf, Repeatable, SameStart
  <2>1. PICK c \in in_flight : ~c.lost /\ SameStart(c, e) /\ c.rank = e.last_sent
    BY DEF AckInv, PendingOK
  <2>2. c # d
    <3> SUFFICES ASSUME c = d PROVE FALSE
      OBVIOUS
    <3>1. d.length = e.length /\ d.key = e.key /\ d.offset = e.offset
      BY <2>1 DEF AckInv, RanksOK, SameStart
    <3>2. ~e.is_acked /\ e.last_sent <= d.rank
      BY <1>2, <2>1, TreeFacts
    <3>3. e \in ToRepeat(d)
      BY <3>1, <3>2 DEF ToRepeat, AckFind, IsLatest
    <3>4. QED
      BY <1>1, <3>3
  <2>3. QED
    BY <1>1, <2>1, <2>2
<1>11. ExtraOK'
  BY <1>1 DEF AckInv, ExtraOK, Id
<1>12. QED
  BY <1>1, <1>6, <1>7, <1>8, <1>9, <1>10, <1>11 DEF AckInv

----------------------------------------------------------------------------
(* An acknowledgement.                                                     *)

\* The records that an arrived datagram covers are at the peer.
LEMMA CoveredReceived ==
    ASSUME AckInv, NEW d \in in_flight, d.arrived, NEW e \in Covered(d)
    PROVE  e \in datagram_ack_tree /\ UnitsOf(e) \subseteq received
<1>1. /\ e \in datagram_ack_tree /\ e.key = d.key
      /\ e.offset >= AckedOffset(d) /\ e.offset < AckEnd(d)
  BY DEF Covered
<1>2. /\ d.offset \in Nat /\ d.length \in Nat /\ FragmentOK(d)
      /\ UnitsOf(d) \subseteq received
  BY FlightFacts
<1>3. e.offset \in Nat /\ e.length \in Nat /\ FragmentOK(e)
  BY <1>1, TreeFacts
<1>4. d.offset <= e.offset /\ e.offset < d.offset + d.length
  <2>1. d.offset <= e.offset
    <3>1. CASE d.key = HorizonKey /\ d.offset < horizon[3]
      <4>1. horizon[3] \in Int
        BY DEF AckInv, HorizonOK
      <4>2. QED
        BY <1>1, <1>2, <1>3, <3>1, <4>1 DEF AckedOffset
    <3>2. CASE ~(d.key = HorizonKey /\ d.offset < horizon[3])
      BY <1>1, <1>2, <1>3, <3>2 DEF AckedOffset
    <3>3. QED
      BY <3>1, <3>2
  <2>2. QED
    BY <1>1, <2>1 DEF AckEnd
<1>5. e.offset \in Units(d.offset, d.length)
  BY <1>2, <1>3, <1>4, UnitMember
<1>6. Meet(d, e)
  BY <1>1, <1>3, <1>5, FragmentFacts DEF Meet
<1>7. e.offset + e.length <= d.offset + d.length
  BY <1>1, <1>6 DEF AckInv, Aligned, AckEnd
<1>8. e.length > 0
  BY <1>1, <1>2, <1>3, <1>4, FragmentFacts DEF FragmentOK
<1>9. \A b \in Units(e.offset, e.length) : b \in Units(d.offset, d.length)
  BY <1>2, <1>3, <1>4, <1>7, <1>8, UnitMember
<1>10. QED
  BY <1>1, <1>2, <1>9 DEF UnitsOf

LEMMA AckedShape ==
    ASSUME NEW e \in AckRecord
    PROVE  LET a == [e EXCEPT !.is_acked = TRUE]
           IN /\ a \in AckRecord /\ a.key = e.key /\ a.offset = e.offset
              /\ a.length = e.length /\ a.is_acked
              /\ a.is_extra_queued = e.is_extra_queued /\ a.last_sent = e.last_sent
  BY DEF AckRecord

LEMMA AckStep ==
    ASSUME AckInv, NEW d \in in_flight, AckEvent(d)
    PROVE  AckInv'
<1>1. /\ in_flight' = in_flight \ {d} /\ d.arrived
      /\ UNCHANGED <<horizon, horizon_is_last_fragment, extra, sent, received>>
      /\ pc = "idle" /\ pc' \in {"idle", "collapse"}
  BY DEF AckEvent, HandleAck
\* Each record has its image in the new tree.
<1>2. /\ \A x \in datagram_ack_tree' : \E e \in datagram_ack_tree :
           /\ x.key = e.key /\ x.offset = e.offset /\ x.length = e.length
           /\ x.is_extra_queued = e.is_extra_queued /\ x.last_sent = e.last_sent
           /\ x \in AckRecord
           /\ x = e \/ UnitsOf(e) \subseteq received
      /\ \A e \in datagram_ack_tree : \E x \in datagram_ack_tree' :
           /\ x.key = e.key /\ x.offset = e.offset /\ x.length = e.length
           /\ x.is_extra_queued = e.is_extra_queued
  <2>1. CASE AckBelowHorizon(d)
    <3>1. datagram_ack_tree' = datagram_ack_tree
      BY <2>1 DEF AckEvent, HandleAck
    <3>2. QED
      BY <3>1, TreeFacts
  <2>2. CASE ~AckBelowHorizon(d)
    <3>1. datagram_ack_tree' = (datagram_ack_tree \ Covered(d))
                                 \cup {[das EXCEPT !.is_acked = TRUE] : das \in Covered(d)}
      BY <2>2 DEF AckEvent, HandleAck
    <3>2. \A e \in Covered(d) : /\ e \in datagram_ack_tree /\ e \in AckRecord
                                /\ UnitsOf(e) \subseteq received
      BY <1>1, CoveredReceived, TreeFacts
    <3>3. \A e \in Covered(d) : LET a == [e EXCEPT !.is_acked = TRUE]
           IN /\ a \in AckRecord /\ a.key = e.key /\ a.offset = e.offset
              /\ a.length = e.length
              /\ a.is_extra_queued = e.is_extra_queued /\ a.last_sent = e.last_sent
      BY <3>2, AckedShape
    <3>4. \A e \in datagram_ack_tree : e \in AckRecord
      BY TreeFacts
    <3>5. QED
      BY <3>1, <3>2, <3>3, <3>4
  <2>3. QED
    BY <2>1, <2>2
<1>3. /\ SentOK' /\ HorizonOK' /\ PassedOK'
      /\ \A k, b : (IsSent(k, b)' <=> IsSent(k, b)) /\ (Passed(k, b)' <=> Passed(k, b))
      /\ \A x : FragmentOK(x)' <=> FragmentOK(x)
  BY <1>1, HorizonStays DEF AckInv
<1>4. RecordsOK'
  <2> SUFFICES ASSUME NEW x \in datagram_ack_tree'
               PROVE  /\ IsRecord(x) /\ FragmentOK(x)
                      /\ \A b \in Units(x.offset, x.length) : ~Passed(x.key, b)
                      /\ x.is_acked => UnitsOf(x) \subseteq received
    BY <1>1, <1>3 DEF RecordsOK, IsRecord, UnitsOf
  <2>1. PICK e \in datagram_ack_tree :
           /\ x.key = e.key /\ x.offset = e.offset /\ x.length = e.length
           /\ x.last_sent = e.last_sent /\ x \in AckRecord
           /\ x = e \/ UnitsOf(e) \subseteq received
    BY <1>2
  <2>2. /\ IsRecord(e) /\ FragmentOK(e)
        /\ \A b \in Units(e.offset, e.length) : ~Passed(e.key, b)
        /\ e.is_acked => UnitsOf(e) \subseteq received
    BY DEF AckInv, RecordsOK
  <2>3. UnitsOf(x) = UnitsOf(e)
    BY <2>1 DEF UnitsOf
  <2>4. QED
    BY <2>1, <2>2, <2>3 DEF IsRecord, FragmentOK
<1>5. Disjoint(datagram_ack_tree)'
  <2> SUFFICES ASSUME NEW x \in datagram_ack_tree', NEW y \in datagram_ack_tree', Meet(x, y)
               PROVE  x = y
    BY DEF Disjoint, Meet
  <2>1. \A e, c \in datagram_ack_tree : e.key = c.key /\ e.offset = c.offset => e = c
    BY StartsMeet, TreeFacts DEF AckInv, Disjoint, SameStart
  <2>2. CASE AckBelowHorizon(d)
    BY <2>2 DEF AckEvent, HandleAck, AckInv, Disjoint
  <2>3. CASE ~AckBelowHorizon(d)
    <3>1. datagram_ack_tree' = (datagram_ack_tree \ Covered(d))
                                 \cup {[das EXCEPT !.is_acked = TRUE] : das \in Covered(d)}
      BY <2>3 DEF AckEvent, HandleAck
    <3>2. PICK e \in datagram_ack_tree : /\ x.key = e.key /\ x.offset = e.offset
                                         /\ x.length = e.length
      BY <1>2
    <3>3. PICK c \in datagram_ack_tree : /\ y.key = c.key /\ y.offset = c.offset
                                         /\ y.length = c.length
      BY <1>2
    <3>4. e = c
      BY <3>2, <3>3 DEF AckInv, Disjoint, Meet
    <3>5. \A a \in datagram_ack_tree : a \in Covered(d) =>
             [a EXCEPT !.is_acked = TRUE].key = a.key
             /\ [a EXCEPT !.is_acked = TRUE].offset = a.offset
      BY AckedShape, TreeFacts
    <3>6. \A a \in Covered(d) : a \in datagram_ack_tree
      BY DEF Covered
    <3>7. ASSUME NEW z \in datagram_ack_tree', z.key = e.key, z.offset = e.offset
          PROVE  z = IF e \in Covered(d) THEN [e EXCEPT !.is_acked = TRUE] ELSE e
      <4>1. CASE z \in datagram_ack_tree \ Covered(d)
        BY <2>1, <3>7, <4>1
      <4>2. CASE \E a \in Covered(d) : z = [a EXCEPT !.is_acked = TRUE]
        <5>1. PICK a \in Covered(d) : z = [a EXCEPT !.is_acked = TRUE]
          BY <4>2
        <5>2. a \in datagram_ack_tree /\ a.key = e.key /\ a.offset = e.offset
          BY <3>5, <3>6, <3>7, <5>1
        <5>3. a = e
          BY <2>1, <5>2
        <5>4. QED
          BY <5>1, <5>3
      <4>3. QED
        BY <3>1, <4>1, <4>2
    <3>8. QED
      BY <3>2, <3>3, <3>4, <3>7
  <2>4. QED
    BY <2>2, <2>3
<1>6. CoverOK'
  <2> SUFFICES ASSUME NEW k \in Key, NEW b \in Units(0, ObjectLength[k]),
                      IsSent(k, b), ~Passed(k, b)
               PROVE  \E x \in datagram_ack_tree' :
                         x.key = k /\ b \in Units(x.offset, x.length)
    BY <1>3 DEF CoverOK
  <2>1. PICK e \in datagram_ack_tree : e.key = k /\ b \in Units(e.offset, e.length)
    BY <1>1 DEF AckInv, CoverOK
  <2>2. QED
    BY <1>2, <2>1
<1>7. FlightOK(in_flight)'
  BY <1>1, <1>3 DEF AckInv, FlightOK, UnitsOf, SameStart
<1>8. Aligned(in_flight, datagram_ack_tree)'
  <2> SUFFICES ASSUME NEW c \in in_flight', NEW x \in datagram_ack_tree', Meet(c, x)
               PROVE  c.offset <= x.offset /\ x.offset + x.length <= AckEnd(c)
    BY DEF Aligned, AckEnd, Meet
  <2>1. PICK e \in datagram_ack_tree :
           x.key = e.key /\ x.offset = e.offset /\ x.length = e.length
    BY <1>2
  <2>2. Meet(c, e)
    BY <2>1 DEF Meet
  <2>3. QED
    BY <1>1, <2>1, <2>2 DEF AckInv, Aligned
<1>9. RanksOK(in_flight, datagram_ack_tree)'
  <2> SUFFICES ASSUME NEW c \in in_flight', NEW x \in datagram_ack_tree', SameStart(c, x)
               PROVE  /\ c.rank <= x.last_sent
                      /\ c.rank = x.last_sent => c.length = x.length
                      /\ ~c.lost /\ ~x.is_extra_queued => c.rank = x.last_sent
    BY DEF RanksOK, SameStart
  <2>1. PICK e \in datagram_ack_tree :
           /\ x.key = e.key /\ x.offset = e.offset /\ x.length = e.length
           /\ x.is_extra_queued = e.is_extra_queued /\ x.last_sent = e.last_sent
    BY <1>2
  <2>2. SameStart(c, e)
    BY <2>1 DEF SameStart
  <2>3. QED
    BY <1>1, <2>1, <2>2 DEF AckInv, RanksOK
<1>10. PendingOK(in_flight, datagram_ack_tree)'
  <2> SUFFICES ASSUME NEW x \in datagram_ack_tree', ~(UnitsOf(x) \subseteq received),
                      Repeatable(x.key, x.length)
               PROVE  \E c \in in_flight' :
                         ~c.lost /\ SameStart(c, x) /\ c.rank = x.last_sent
    BY <1>1 DEF PendingOK, UnitsOf, Repeatable, SameStart
  <2>1. PICK e \in datagram_ack_tree :
           /\ x.key = e.key /\ x.offset = e.offset /\ x.length = e.length
           /\ x.last_sent = e.last_sent
    BY <1>2
  <2>2. UnitsOf(x) = UnitsOf(e)
    BY <2>1 DEF UnitsOf
  <2>3. PICK c \in in_flight : ~c.lost /\ SameStart(c, e) /\ c.rank = e.last_sent
    BY <2>1, <2>2 DEF AckInv, PendingOK
  <2>4. c # d
    <3> SUFFICES ASSUME c = d PROVE FALSE
      OBVIOUS
    <3>1. d.length = e.length /\ d.key = e.key /\ d.offset = e.offset
      BY <2>3 DEF AckInv, RanksOK, SameStart
    <3>2. UnitsOf(d) = UnitsOf(e)
      BY <3>1 DEF UnitsOf
    <3>3. UnitsOf(d) \subseteq received
      BY <1>1, FlightFacts
    <3>4. QED
      BY <2>2, <3>2, <3>3
  <2>5. QED
    BY <1>1, <2>1, <2>3, <2>4 DEF SameStart
<1>11. ExtraOK'
  <2>1. ASSUME NEW i \in DOMAIN extra
        PROVE  \E x \in datagram_ack_tree' : Id(x) = extra[i] /\ x.is_extra_queued
    <3>1. PICK e \in datagram_ack_tree : Id(e) = extra[i] /\ e.is_extra_queued
      BY DEF AckInv, ExtraOK
    <3>2. PICK x \in datagram_ack_tree' : /\ x.key = e.key /\ x.offset = e.offset
                                          /\ x.is_extra_queued = e.is_extra_queued
      BY <1>2
    <3>3. QED
      BY <3>1, <3>2 DEF Id
  <2>2. QED
    BY <1>1, <2>1 DEF AckInv, ExtraOK, Id
<1>12. QED
  BY <1>1, <1>3, <1>4, <1>5, <1>6, <1>7, <1>8, <1>9, <1>10, <1>11 DEF AckInv

----------------------------------------------------------------------------
(* The horizon moves.                                                      *)

\* quicrq_datagram_ack_extra_dequeue takes one id out and keeps the others.
LEMMA UnqueueShape ==
    ASSUME ExtraOK, NEW id, NEW queue, queue = Unqueue(id)
    PROVE  /\ queue \in Seq([key : Key, offset : Nat])
           /\ \A i, j \in DOMAIN queue : queue[i] = queue[j] => i = j
           /\ \A i \in DOMAIN queue : queue[i] # id /\ \E j \in DOMAIN extra : queue[i] = extra[j]
<1> DEFINE Ids == [key : Key, offset : Nat]
           n == Len(extra)
           at == CHOOSE i \in DOMAIN extra : extra[i] = id
<1> HIDE DEF Ids
<1>1. /\ extra \in Seq(Ids) /\ n \in Nat /\ DOMAIN extra = 1..n
      /\ \A i \in 1..n : extra[i] \in Ids
  <2>1. extra \in Seq(Ids)
    BY DEF ExtraOK, Ids
  <2>2. QED
    BY <2>1
<1>2. \A i, j \in 1..n : extra[i] = extra[j] => i = j
  BY <1>1 DEF ExtraOK
<1>3. CASE ~\E i \in DOMAIN extra : extra[i] = id
  BY <1>1, <1>2, <1>3 DEF Unqueue, Ids
<1>4. CASE \E i \in DOMAIN extra : extra[i] = id
  <2>1. at \in 1..n /\ extra[at] = id
    BY <1>1, <1>4
  <2>2. queue = [i \in 1..(n - 1) |-> IF i < at THEN extra[i] ELSE extra[i + 1]]
    BY <1>4 DEF Unqueue
  <2> HIDE DEF n, at
  <2>3. \A i \in 1..(n - 1) : /\ i \in 1..n /\ i + 1 \in 1..n
                              /\ queue[i] = IF i < at THEN extra[i] ELSE extra[i + 1]
    BY <1>1, <2>2
  <2>4. n - 1 \in Nat
    BY <1>1, <2>1
  <2>5. \A i \in 1..(n - 1) : queue[i] \in Ids
    BY <1>1, <2>3
  <2>6. queue \in Seq(Ids) /\ DOMAIN queue = 1..(n - 1)
    <3>1. DOMAIN queue = 1..(n - 1)
      BY <2>2
    <3>2. queue \in [1..(n - 1) -> Ids]
      BY <2>2, <2>3, <2>5
    <3>3. QED
      BY <2>4, <3>1, <3>2
  <2>7. \A i \in DOMAIN queue : queue[i] # id
    <3> SUFFICES ASSUME NEW i \in 1..(n - 1), queue[i] = id PROVE FALSE
      BY <2>6
    <3>1. CASE i < at
      BY <1>2, <2>1, <2>3, <3>1
    <3>2. CASE ~(i < at)
      <4>1. i + 1 = at
        BY <1>2, <2>1, <2>3, <3>2
      <4>2. QED
        BY <1>1, <2>1, <3>2, <4>1
    <3>3. QED
      BY <3>1, <3>2
  <2>8. \A i \in DOMAIN queue : \E j \in DOMAIN extra : queue[i] = extra[j]
    BY <1>1, <2>3, <2>6
  <2>9. \A i, j \in DOMAIN queue : queue[i] = queue[j] => i = j
    <3> SUFFICES ASSUME NEW i \in 1..(n - 1), NEW j \in 1..(n - 1), queue[i] = queue[j]
                 PROVE  i = j
      BY <2>6
    <3> DEFINE of(x) == IF x < at THEN x ELSE x + 1
    <3>1. of(i) \in 1..n /\ of(j) \in 1..n /\ extra[of(i)] = extra[of(j)]
      BY <2>3
    <3>2. of(i) = of(j)
      BY <1>2, <3>1
    <3>3. QED
      BY <1>1, <2>1, <3>2
  <2>10. QED
    BY <2>6, <2>7, <2>8, <2>9 DEF Ids
<1>5. QED
  BY <1>3, <1>4

\* What the horizon passes when it moves over das: what it had passed, das
\* itself, and objects older than all that is sent.
LEMMA HorizonMoves ==
    ASSUME AckInv, pc = "collapse", NEW das \in Collapsible,
           horizon' = <<das.key[1], das.key[2], das.offset + das.length>>,
           horizon_is_last_fragment' = (das.offset + das.length >= ObjectLength[das.key]),
           NEW k \in Key, NEW b \in Units(0, ObjectLength[k])
    PROVE  /\ Passed(k, b) => Passed(k, b)'
           /\ k = das.key /\ b \in Units(das.offset, das.length) => Passed(k, b)'
           /\ Passed(k, b)' => \/ Passed(k, b)
                               \/ k = das.key /\ b \in Units(das.offset, das.length)
                               \/ \A s \in sent : Before(k, s[1])
<1> DEFINE j == das.key
           o == das.offset
           e == das.offset + das.length
<1>1. /\ das \in datagram_ack_tree /\ JustAfter(das)
      /\ \A c \in datagram_ack_tree : ~AckLess(c, das)
  BY DEF Collapsible
<1>2. /\ j \in Key /\ o \in Nat /\ das.length \in Nat /\ e \in Nat
      /\ FragmentOK(das)
      /\ das.length = 0 => o = 0
      /\ o \in Units(o, das.length)
  BY <1>1, TreeFacts, FragmentFacts
<1>3. /\ e <= ObjectLength[j]
      /\ das.length = 0 => ObjectLength[j] = 0
      /\ ObjectLength[j] \in Nat
  BY <1>1, TreeFacts, FragmentFacts DEF FragmentOK
<1>4. ~Passed(j, o)
  BY <1>1, <1>2 DEF AckInv, RecordsOK
<1>5. /\ j = <<j[1], j[2]>> /\ j[1] \in Nat /\ j[2] \in Nat
      /\ k = <<k[1], k[2]>> /\ k[1] \in Nat /\ k[2] \in Nat /\ k[1] \in Group
      /\ k[2] < NbObjects[k[1]] /\ NbObjects[k[1]] \in Nat
      /\ ObjectLength[k] \in Nat
  BY <1>2, KeyShape, MediaAssumption
<1>6. /\ Passed(k, b)' <=> Before(k, j) \/ (k = j /\ (b < e \/ e >= ObjectLength[j]))
  <2>1. HorizonKey' = <<j[1], j[2]>> /\ horizon'[3] = e
    BY DEF HorizonKey
  <2>2. QED
    BY <1>5, <2>1 DEF Passed
<1>7. /\ IF ObjectLength[k] = 0 THEN b = 0
         ELSE b \in Nat /\ 0 <= b /\ b < 0 + ObjectLength[k]
      /\ b \in Nat
  <2>1. IF ObjectLength[k] = 0 THEN b = 0
        ELSE b \in Nat /\ 0 <= b /\ b < 0 + ObjectLength[k]
    BY <1>5, UnitMember
  <2>2. QED
    BY <2>1
<1>8. \/ horizon = <<-1, -1, -1>> /\ HorizonKey = <<-1, -1>>
      \/ /\ HorizonKey \in Key /\ horizon[3] \in Nat
         /\ HorizonKey = <<horizon[1], horizon[2]>>
         /\ horizon[1] \in Nat /\ horizon[2] \in Nat
  <2>1. CASE horizon = <<-1, -1, -1>>
    BY <2>1 DEF HorizonKey
  <2>2. CASE HorizonKey \in Key /\ horizon[3] \in 0..ObjectLength[HorizonKey]
    <3>1. HorizonKey = <<horizon[1], horizon[2]>>
      BY DEF HorizonKey
    <3>2. horizon[1] \in Nat /\ horizon[2] \in Nat
      BY <2>2, <3>1, KeyShape
    <3>3. horizon[3] \in Nat
      BY <2>2
    <3>4. QED
      BY <2>2, <3>1, <3>2, <3>3
  <2>3. QED
    BY <2>1, <2>2 DEF AckInv, HorizonOK
<1>9. b \in Units(o, das.length) <=>
        IF das.length = 0 THEN b = 0 ELSE o <= b /\ b < e
  BY <1>2, <1>7, UnitMember
<1>10. ObjectLength[k] = 0 => b = 0
  BY <1>7
<1>11. ObjectLength[k] # 0 => b < ObjectLength[k]
  BY <1>5, <1>7
<1> HIDE DEF j, o, e
<1>12. HorizonKey = j => horizon[3] = o /\ ~horizon_is_last_fragment
  <2> SUFFICES ASSUME HorizonKey = j PROVE horizon[3] = o /\ ~horizon_is_last_fragment
    OBVIOUS
  <2>1. horizon[1] = j[1]
    BY DEF HorizonKey
  <2>2. horizon[3] = o
    BY <1>1, <2>1 DEF JustAfter, j, o
  <2>3. QED
    BY <1>4, <2>2 DEF Passed
<1>13. HorizonKey = j \/ Before(HorizonKey, j)
  <2>1. ~Before(j, HorizonKey)
    BY <1>4 DEF Passed
  <2>2. QED
    BY <1>5, <1>8, <2>1 DEF Before
<1>14. Passed(k, b) => Passed(k, b)'
  <2> SUFFICES ASSUME Passed(k, b) PROVE Passed(k, b)'
    OBVIOUS
  <2>1. CASE Before(k, HorizonKey)
    BY <1>5, <1>6, <1>8, <1>13, <2>1 DEF Before
  <2>2. CASE k = HorizonKey /\ HorizonKey # j
    BY <1>6, <1>13, <2>2
  <2>3. CASE k = HorizonKey /\ HorizonKey = j
    <3>1. b < o
      BY <1>12, <2>3, <1>5 DEF Passed, Before
    <3>2. o <= e
      BY <1>2 DEF o, e
    <3>3. b < e
      BY <1>2, <1>7, <3>1, <3>2
    <3>4. QED
      BY <1>6, <2>3, <3>3
  <2>4. QED
    BY <2>1, <2>2, <2>3 DEF Passed
<1>15. k = j /\ b \in Units(o, das.length) => Passed(k, b)'
  BY <1>2, <1>3, <1>6, <1>9
<1>16. ASSUME Passed(k, b)', k = j
       PROVE  Passed(k, b) \/ b \in Units(o, das.length)
  <2>1. b < e \/ das.length = 0
    <3>1. ~Before(k, j)
      BY <1>5, <1>16 DEF Before
    <3>2. b < e \/ e >= ObjectLength[j]
      BY <1>6, <1>16, <3>1
    <3>3. das.length # 0 => ObjectLength[j] # 0
      BY <1>2, <1>3 DEF o, e
    <3>4. QED
      BY <1>2, <1>3, <1>7, <1>11, <1>16, <3>2, <3>3
  <2>2. CASE das.length = 0
    BY <1>3, <1>9, <1>10, <1>16, <2>2
  <2>3. CASE das.length # 0 /\ o <= b
    BY <1>9, <2>1, <2>3
  <2>4. CASE b < o
    <3>1. o # 0
      BY <1>2, <1>7, <2>4
    <3>2. j = HorizonKey /\ o = horizon[3]
      BY <1>1, <1>5, <3>1 DEF JustAfter, HorizonKey, j, o
    <3>3. QED
      BY <1>16, <2>4, <3>2 DEF Passed
  <2>5. QED
    BY <1>2, <1>7, <2>2, <2>3, <2>4
<1>17. ASSUME Before(k, j) PROVE Passed(k, b) \/ \A s \in sent : Before(k, s[1])
  <2>1. CASE horizon = <<-1, -1, -1>>
    <3> SUFFICES ASSUME NEW s \in sent PROVE Before(k, s[1])
      OBVIOUS
    <3>1. s[1] \in Key /\ s[1] \in Sent /\ s[2] \in Pieces[s[1]]
      BY DEF AckInv, SentOK, Sent
    <3>2. /\ s[2].offset \in Nat /\ s[2].data_length \in Nat
          /\ s[2].offset + s[2].data_length <= ObjectLength[s[1]]
          /\ s[2].data_length = 0 => ObjectLength[s[1]] = 0
          /\ ObjectLength[s[1]] \in Nat
      BY <3>1, PieceShape
    <3>3. s[2].offset \in Units(s[2].offset, s[2].data_length)
      BY <3>2, UnitMember
    <3>4. s[2].offset \in Units(0, ObjectLength[s[1]])
      BY <3>2, UnitMember
    <3>5. IsSent(s[1], s[2].offset)
      BY <3>3 DEF IsSent
    <3>6. PICK c \in datagram_ack_tree : c.key = s[1]
      BY <2>1, <3>1, <3>4, <3>5, InitialHorizon DEF AckInv, CoverOK
    <3>7. ~Before(s[1], j)
      BY <1>1, <3>6 DEF AckLess, j
    <3>8. s[1] \in Nat \X Nat /\ j \in Nat \X Nat /\ k \in Nat \X Nat
      BY <1>2, <3>1, KeyPair DEF j
    <3>9. QED
      BY <1>17, <3>7, <3>8, BeforeIsTotal
  <2>2. CASE /\ HorizonKey \in Key /\ horizon[3] \in Nat
             /\ HorizonKey = <<horizon[1], horizon[2]>>
             /\ horizon[1] \in Nat /\ horizon[2] \in Nat
    <3>1. CASE j = HorizonKey
      BY <1>17, <3>1 DEF Passed
    <3>2. CASE j[1] = horizon[1] /\ j # HorizonKey
      <4>1. horizon_is_last_fragment /\ j[2] = horizon[2] + 1
        BY <1>1, <3>2 DEF JustAfter, j
      <4>2. Before(k, HorizonKey) \/ k = HorizonKey
        BY <1>5, <1>17, <2>2, <3>2, <4>1 DEF Before
      <4>3. QED
        BY <4>1, <4>2 DEF Passed
    <3>3. CASE j[1] # horizon[1]
      <4>1. /\ horizon_is_last_fragment /\ j[1] = horizon[1] + 1
            /\ NbPrevious(j) = horizon[2] + 1
        BY <1>1, <3>3 DEF JustAfter, j
      <4>2. j[2] = 0 /\ NbObjects[horizon[1]] = horizon[2] + 1
        BY <1>5, <2>2, <4>1 DEF NbPrevious
      <4>3. Before(k, HorizonKey) \/ k = HorizonKey
        BY <1>5, <1>17, <2>2, <4>1, <4>2 DEF Before
      <4>4. QED
        BY <4>1, <4>3 DEF Passed
    <3>4. QED
      BY <3>1, <3>2, <3>3
  <2>3. QED
    BY <1>8, <2>1, <2>2
<1>18. QED
  BY <1>6, <1>14, <1>15, <1>16, <1>17 DEF j, o

LEMMA CollapseMoves ==
    ASSUME AckInv, CollapseStep
    PROVE  AckInv'
<1>1. PICK das \in Collapsible :
        /\ horizon' = <<das.key[1], das.key[2], das.offset + das.length>>
        /\ horizon_is_last_fragment' = (das.offset + das.length >= ObjectLength[das.key])
        /\ datagram_ack_tree' = datagram_ack_tree \ {das}
        /\ extra' = Unqueue(Id(das))
  BY DEF CollapseStep
<1>2. pc = "collapse" /\ UNCHANGED <<pc, in_flight, sent, received>>
  BY DEF CollapseStep
<1>3. das \in datagram_ack_tree /\ das.is_acked
  BY DEF Collapsible
<1>4. /\ das.key \in Key /\ das.offset \in Nat /\ das.length \in Nat
      /\ FragmentOK(das) /\ UnitsOf(das) \subseteq received
      /\ das.offset + das.length <= ObjectLength[das.key]
      /\ ObjectLength[das.key] \in Nat
      /\ das.offset \in Units(das.offset, das.length)
  BY <1>3, TreeFacts, FragmentFacts DEF FragmentOK
<1>5. ASSUME NEW k \in Key, NEW b \in Units(0, ObjectLength[k])
      PROVE  /\ Passed(k, b) => Passed(k, b)'
             /\ k = das.key /\ b \in Units(das.offset, das.length) => Passed(k, b)'
             /\ Passed(k, b)' => \/ Passed(k, b)
                                 \/ k = das.key /\ b \in Units(das.offset, das.length)
                                 \/ \A s \in sent : Before(k, s[1])
  BY <1>1, <1>2, HorizonMoves
<1>6. \A k, b : IsSent(k, b)' <=> IsSent(k, b)
  BY <1>2 DEF IsSent
<1>7. \A x : FragmentOK(x)' <=> FragmentOK(x)
  BY <1>6 DEF FragmentOK
<1>8. \A s \in sent : ~Before(s[1], s[1])
  BY KeyPair, BeforeIsTotal DEF AckInv, SentOK, Sent
<1>9. SentOK'
  BY <1>2 DEF AckInv, SentOK
<1>10. HorizonOK'
  <2>1. sent # {}
    BY <1>4 DEF FragmentOK, IsSent
  <2>2. HorizonKey' = das.key /\ horizon'[3] = das.offset + das.length
    BY <1>1, <1>4, KeyShape DEF HorizonKey
  <2>3. horizon'[3] \in 0..ObjectLength[HorizonKey']
    BY <1>4, <2>2
  <2>4. horizon' = <<horizon'[1], horizon'[2], horizon'[3]>>
    BY <1>1
  <2>5. horizon_is_last_fragment' <=> horizon'[3] >= ObjectLength[HorizonKey']
    BY <1>1, <2>2
  <2>6. QED
    BY <1>2, <1>4, <2>1, <2>2, <2>3, <2>4, <2>5 DEF HorizonOK
<1>11. PassedOK'
  <2> SUFFICES ASSUME NEW k \in Key, NEW b \in Units(0, ObjectLength[k]), Passed(k, b)'
               PROVE  \/ IsSent(k, b) /\ <<k, b>> \in received
                      \/ \A s \in sent : Before(k, s[1])
    BY <1>2, <1>6 DEF PassedOK
  <2>1. CASE Passed(k, b)
    BY <2>1 DEF AckInv, PassedOK
  <2>2. CASE k = das.key /\ b \in Units(das.offset, das.length)
    BY <1>4, <2>2 DEF FragmentOK, UnitsOf
  <2>3. QED
    BY <1>5, <2>1, <2>2
<1>12. RecordsOK'
  <2> SUFFICES ASSUME NEW e \in datagram_ack_tree, e # das,
                      NEW b \in Units(e.offset, e.length), Passed(e.key, b)'
               PROVE  FALSE
    <3>1. \A e \in datagram_ack_tree : /\ IsRecord(e) /\ FragmentOK(e)
                                       /\ e.is_acked => UnitsOf(e) \subseteq received
      BY TreeFacts
    <3>2. QED
      BY <1>1, <1>2, <1>7, <3>1 DEF RecordsOK, IsRecord, UnitsOf
  <2>1. /\ e.key \in Key /\ b \in Units(0, ObjectLength[e.key]) /\ IsSent(e.key, b)
    BY TreeFacts, FragmentFacts DEF FragmentOK
  <2>2. ~Passed(e.key, b)
    BY DEF AckInv, RecordsOK
  <2>3. ~(e.key = das.key /\ b \in Units(das.offset, das.length))
    BY <1>3 DEF AckInv, Disjoint, Meet
  <2>4. ~\A s \in sent : Before(e.key, s[1])
    BY <1>8, <2>1 DEF IsSent
  <2>5. QED
    BY <1>5, <2>1, <2>2, <2>3, <2>4
<1>13. Disjoint(datagram_ack_tree)'
  BY <1>1 DEF AckInv, Disjoint, Meet
<1>14. CoverOK'
  <2> SUFFICES ASSUME NEW k \in Key, NEW b \in Units(0, ObjectLength[k]),
                      IsSent(k, b), ~Passed(k, b)'
               PROVE  \E x \in datagram_ack_tree' :
                         x.key = k /\ b \in Units(x.offset, x.length)
    BY <1>6 DEF CoverOK
  <2>1. ~Passed(k, b) /\ ~(k = das.key /\ b \in Units(das.offset, das.length))
    BY <1>5
  <2>2. PICK e \in datagram_ack_tree : e.key = k /\ b \in Units(e.offset, e.length)
    BY <1>2, <2>1 DEF AckInv, CoverOK
  <2>3. QED
    BY <1>1, <2>1, <2>2
<1>15. FlightOK(in_flight)'
  BY <1>2, <1>7 DEF AckInv, FlightOK, UnitsOf, SameStart
<1>16. Aligned(in_flight, datagram_ack_tree)' /\ RanksOK(in_flight, datagram_ack_tree)'
  BY <1>1, <1>2 DEF AckInv, Aligned, RanksOK, Meet, AckEnd, SameStart
<1>17. PendingOK(in_flight, datagram_ack_tree)'
  BY <1>1, <1>2 DEF AckInv, PendingOK, UnitsOf, Repeatable, SameStart
<1>18. ExtraOK'
  <2>1. /\ extra' \in Seq([key : Key, offset : Nat])
        /\ \A i, j \in DOMAIN extra' : extra'[i] = extra'[j] => i = j
        /\ \A i \in DOMAIN extra' : /\ extra'[i] # Id(das)
                                    /\ \E j \in DOMAIN extra : extra'[i] = extra[j]
    <3>1. ExtraOK
      BY DEF AckInv
    <3>2. extra' = Unqueue(Id(das))
      BY <1>1
    <3>3. extra' \in Seq([key : Key, offset : Nat])
      BY <3>1, <3>2, UnqueueShape
    <3>4. \A i, j \in DOMAIN extra' : extra'[i] = extra'[j] => i = j
      BY <3>1, <3>2, UnqueueShape
    <3>5. \A i \in DOMAIN extra' : extra'[i] # Id(das)
      BY <3>1, <3>2, UnqueueShape
    <3>6. \A i \in DOMAIN extra' : \E j \in DOMAIN extra : extra'[i] = extra[j]
      BY <3>1, <3>2, UnqueueShape
    <3>7. QED
      BY <3>3, <3>4, <3>5, <3>6
  <2>2. ASSUME NEW i \in DOMAIN extra'
        PROVE  \E x \in datagram_ack_tree' : Id(x) = extra'[i] /\ x.is_extra_queued
    BY <1>1, <2>1 DEF AckInv, ExtraOK
  <2>3. QED
    BY <2>1, <2>2 DEF ExtraOK, Id
<1>19. horizon_is_last_fragment' \in BOOLEAN
  BY <1>1
<1>20. QED
  BY <1>2, <1>9, <1>10, <1>11, <1>12, <1>13, <1>14, <1>15, <1>16, <1>17, <1>18, <1>19
  DEF AckInv

LEMMA CollapseEnds ==
    ASSUME AckInv, CollapseEnd
    PROVE  AckInv'
<1>1. /\ UNCHANGED <<datagram_ack_tree, horizon, horizon_is_last_fragment, extra,
                     in_flight, sent, received>>
      /\ pc = "collapse" /\ pc' = "idle"
  BY DEF CollapseEnd
<1>2. /\ SentOK' /\ HorizonOK' /\ PassedOK'
      /\ \A k, b : (IsSent(k, b)' <=> IsSent(k, b)) /\ (Passed(k, b)' <=> Passed(k, b))
      /\ \A x : FragmentOK(x)' <=> FragmentOK(x)
  BY <1>1, HorizonStays DEF AckInv
<1>3. RecordsOK' /\ FlightOK(in_flight)'
  BY <1>1, <1>2 DEF AckInv, RecordsOK, FlightOK, IsRecord, UnitsOf, SameStart
<1>4. CoverOK'
  BY <1>1, <1>2 DEF AckInv, CoverOK
<1>5. /\ Disjoint(datagram_ack_tree)' /\ Aligned(in_flight, datagram_ack_tree)'
      /\ RanksOK(in_flight, datagram_ack_tree)'
  BY <1>1 DEF AckInv, Disjoint, Aligned, RanksOK, Meet, AckEnd, SameStart
<1>6. PendingOK(in_flight, datagram_ack_tree)' /\ ExtraOK'
  BY <1>1 DEF AckInv, PendingOK, UnitsOf, Repeatable, SameStart, ExtraOK, Id
<1>7. QED
  BY <1>1, <1>2, <1>3, <1>4, <1>5, <1>6 DEF AckInv

LEMMA ReleaseStep ==
    ASSUME AckInv, Release
    PROVE  AckInv'
<1>1. /\ UNCHANGED <<horizon, horizon_is_last_fragment, sent, received>>
      /\ pc' = "closed" /\ datagram_ack_tree' = {} /\ extra' = <<>> /\ in_flight' = {}
  BY DEF Release
<1>2. SentOK' /\ HorizonOK' /\ PassedOK'
  BY <1>1, HorizonStays DEF AckInv
<1>3. /\ RecordsOK' /\ Disjoint(datagram_ack_tree)' /\ CoverOK' /\ FlightOK(in_flight)'
      /\ Aligned(in_flight, datagram_ack_tree)' /\ RanksOK(in_flight, datagram_ack_tree)'
      /\ PendingOK(in_flight, datagram_ack_tree)'
  BY <1>1 DEF RecordsOK, Disjoint, CoverOK, FlightOK, Aligned, RanksOK, PendingOK
<1>4. ExtraOK'
  BY <1>1 DEF ExtraOK
<1>5. QED
  BY <1>1, <1>2, <1>3, <1>4 DEF AckInv

----------------------------------------------------------------------------
(* A fragment is sent again.                                               *)

\* The records of the parts of a fragment that is sent again.
LEMMA PartShape ==
    ASSUME NEW das \in AckRecord, NEW prepare \in BOOLEAN,
           NEW o \in Chunks(das.offset, das.length)
    PROVE  LET r == RepeatRecord(das, das.length, prepare, o)
           IN /\ r \in AckRecord /\ r.key = das.key /\ r.offset = o
              /\ r.length = ChunkLength(o, das.offset, das.length)
              /\ r.last_sent = das.last_sent + 1
              /\ r.is_acked => das.is_acked
              /\ o = das.offset /\ das.is_extra_queued => r.is_extra_queued
<1> DEFINE rank == das.last_sent + 1
           made == IF o = das.offset THEN das ELSE Record(das.key, o, 0, rank)
           l == IF das.length <= MaxRepeat THEN das.length
                ELSE ChunkLength(o, das.offset, das.length)
<1>1. das.offset \in Nat /\ das.length \in Nat /\ das.key \in Key /\ rank \in Nat
  BY Fields
<1>2. /\ o \in Nat /\ ChunkLength(o, das.offset, das.length) \in Nat
      /\ das.length <= MaxRepeat =>
           o = das.offset /\ ChunkLength(das.offset, das.offset, das.length) = das.length
  <2> DEFINE C == Chunks(das.offset, das.length)
             L(x) == ChunkLength(x, das.offset, das.length)
  <2>1. /\ \A x \in C : x \in Nat /\ L(x) \in Nat
        /\ das.length <= MaxRepeat => C = {das.offset} /\ L(das.offset) = das.length
    BY <1>1, ChunkShape
  <2> HIDE DEF L
  <2>2. QED
    BY <2>1 DEF L
<1>3. l \in Nat /\ l = ChunkLength(o, das.offset, das.length)
  BY <1>1, <1>2
<1>4. /\ made \in AckRecord /\ made.key = das.key /\ made.offset = o
      /\ made.is_acked => das.is_acked
  <2>1. CASE o = das.offset
    BY <2>1
  <2>2. CASE o # das.offset
    BY <1>1, <1>2, <2>2, RecordShape, SMTT(30)
  <2>3. QED
    BY <2>1, <2>2
<1>5. o = das.offset => made = das
  OBVIOUS
<1>6. RepeatRecord(das, das.length, prepare, o)
        = [made EXCEPT !.length = l, !.last_sent = rank, !.is_extra_queued = @ \/ prepare]
  BY DEF RepeatRecord
<1> HIDE DEF made, l, rank
<1>7. QED
  <2> DEFINE a == RepeatRecord(das, das.length, prepare, o)
             y == made.is_extra_queued \/ prepare
  <2>1. y \in BOOLEAN
    OBVIOUS
  <2> HIDE DEF a, y
  <2>2. /\ made \in AckRecord /\ l \in Nat /\ rank \in Nat
        /\ a = [made EXCEPT !.length = l, !.last_sent = rank, !.is_extra_queued = y]
    BY <1>1, <1>3, <1>4, <1>6 DEF a, y
  <2>3. /\ a \in AckRecord /\ a.key = made.key /\ a.offset = made.offset
        /\ a.length = l /\ a.last_sent = rank /\ a.is_acked = made.is_acked
        /\ a.is_extra_queued = y
    BY <2>1, <2>2 DEF AckRecord
  <2>4. o = das.offset /\ das.is_extra_queued => y
    BY <1>5 DEF y
  <2>5. QED
    BY <1>3, <1>4, <2>3, <2>4 DEF rank, a

\* The repeat of a record is cut where there is no other record.
LEMMA NoCollision ==
    ASSUME AckInv, NEW das \in datagram_ack_tree
    PROVE  Recut(das, das.length) = Chunks(das.offset, das.length)
<1>1. das.offset \in Nat /\ das.length \in Nat /\ FragmentOK(das)
  BY TreeFacts
<1>2. ASSUME NEW q \in Chunks(das.offset, das.length), q # das.offset
      PROVE  AckFind(das.key, q) = {}
  <2> SUFFICES ASSUME NEW e \in datagram_ack_tree, e.key = das.key, e.offset = q
               PROVE  FALSE
    BY DEF AckFind
  <2>1. /\ q \in Nat /\ das.offset <= q
        /\ das.length > 0 => q < das.offset + das.length
        /\ das.length = 0 => q = das.offset
    BY <1>1, ChunkShape
  <2>2. q \in Units(das.offset, das.length)
    BY <1>1, <1>2, <2>1, UnitMember
  <2>3. q \in Units(e.offset, e.length)
    BY TreeFacts, FragmentFacts
  <2>4. Meet(das, e)
    BY <2>2, <2>3 DEF Meet
  <2>5. QED
    BY <1>2, <2>4 DEF AckInv, Disjoint
<1>3. QED
  BY <1>2 DEF Recut

\* The parts of a repeat: they tile the record and start apart.
LEMMA PartsTile ==
    ASSUME NEW das \in AckRecord, FragmentOK(das)
    PROVE  LET C == Chunks(das.offset, das.length)
               L(o) == ChunkLength(o, das.offset, das.length)
           IN /\ das.offset \in C
              /\ \A o \in C :
                   /\ o \in Nat /\ das.offset <= o /\ L(o) \in Nat
                   /\ o + L(o) <= das.offset + das.length
                   /\ L(o) = 0 => das.length = 0
                   /\ o \in Units(o, L(o))
                   /\ \A b \in Units(o, L(o)) : b \in Units(das.offset, das.length)
              /\ \A b \in Units(das.offset, das.length) : \E o \in C : b \in Units(o, L(o))
              /\ \A o, q \in C : o # q => Units(o, L(o)) \cap Units(q, L(q)) = {}
<1> DEFINE C == Chunks(das.offset, das.length)
           L(o) == ChunkLength(o, das.offset, das.length)
<1>1. /\ das.offset \in Nat /\ das.length \in Nat
      /\ das.length = 0 => das.offset = 0
  BY Fields, FragmentFacts
<1>2. /\ das.offset \in C
      /\ \A o \in C : /\ o \in Nat /\ das.offset <= o /\ L(o) \in Nat
                      /\ o + L(o) <= das.offset + das.length
                      /\ das.length > 0 => o < das.offset + das.length /\ L(o) > 0
                      /\ das.length = 0 => o = das.offset /\ L(o) = 0
      /\ \A o, q \in C : o < q => o + L(o) <= q
      /\ \A b \in Units(das.offset, das.length) : \E o \in C : b \in Units(o, L(o))
      /\ \A o \in C : \A b \in Units(o, L(o)) : b \in Units(das.offset, das.length)
  BY <1>1, ChunkShape
<1> HIDE DEF C, L
<1>3. \A o \in C : L(o) = 0 => das.length = 0
  BY <1>1, <1>2
<1>4. ASSUME NEW o \in C PROVE o \in Units(o, L(o))
  <2>1. o \in Nat /\ L(o) \in Nat /\ (L(o) = 0 => o = 0)
    BY <1>1, <1>2, <1>3
  <2>2. QED
    BY <2>1, UnitMember
<1>5. ASSUME NEW o \in C, NEW q \in C, o < q,
             NEW b \in Units(o, L(o)), b \in Units(q, L(q))
      PROVE  FALSE
  <2>1. das.length > 0
    BY <1>1, <1>2, <1>5
  <2>2. /\ o \in Nat /\ q \in Nat /\ L(o) \in Nat /\ L(q) \in Nat
        /\ L(o) > 0 /\ L(q) > 0 /\ o + L(o) <= q
    BY <1>2, <1>5, <2>1
  <2>3. b \in Nat /\ b < o + L(o)
    BY <2>2, UnitMember
  <2>4. q <= b
    BY <1>5, <2>2, UnitMember
  <2>5. QED
    BY <2>2, <2>3, <2>4
<1>6. ASSUME NEW o \in C, NEW q \in C, o # q
      PROVE  Units(o, L(o)) \cap Units(q, L(q)) = {}
  <2>1. o < q \/ q < o
    BY <1>2, <1>6
  <2>2. QED
    BY <1>5, <2>1
<1>7. QED
  BY <1>2, <1>3, <1>4, <1>6 DEF C, L

\* The parts of a repeat that join the extra list: each once.
LEMMA NewExtraShape ==
    ASSUME AckInv, NEW das \in datagram_ack_tree, NEW prepare \in BOOLEAN,
           NEW new, new = NewExtra(das, das.length, prepare)
    PROVE  /\ new \in Seq([key : Key, offset : Nat])
           /\ \A i, j \in DOMAIN new : new[i] = new[j] => i = j
           /\ \A i \in DOMAIN new : \E o \in Chunks(das.offset, das.length) :
                /\ new[i] = [key |-> das.key, offset |-> o]
                /\ RepeatRecord(das, das.length, prepare, o).is_extra_queued
                /\ o = das.offset => ~das.is_extra_queued
<1> DEFINE C == Chunks(das.offset, das.length)
           Queued(o) == RepeatRecord(das, das.length, prepare, o).is_extra_queued
           joins == {o \in C : Queued(o) /\ (o = das.offset => ~das.is_extra_queued)}
           n == Cardinality(joins)
           Below(o) == {q \in joins : q < o}
           nth(i) == CHOOSE o \in joins : Cardinality(Below(o)) = i - 1
           R == {p \in joins \X joins : p[1] < p[2]}
           Ids == [key : Key, offset : Nat]
<1> HIDE DEF Ids
<1>1. /\ das.offset \in Nat /\ das.length \in Nat /\ das.key \in Key
      /\ das \in AckRecord /\ FragmentOK(das)
  BY TreeFacts
<1>2. new = [i \in 1..n |-> [key |-> das.key, offset |-> nth(i)]]
  BY NoCollision DEF NewExtra
<1>3. \A o \in C : o \in Nat /\ das.offset <= o /\ o <= das.offset + das.length
  <2> DEFINE L(o) == ChunkLength(o, das.offset, das.length)
  <2>1. \A o \in C : /\ o \in Nat /\ das.offset <= o /\ L(o) \in Nat
                     /\ o + L(o) <= das.offset + das.length
    BY <1>1, ChunkShape
  <2> HIDE DEF L, C
  <2>2. QED
    BY <1>1, <2>1
<1> HIDE DEF C, Queued
<1>4. IsFiniteSet(joins)
  <2>1. das.offset \in Int /\ das.offset + das.length \in Int
    BY <1>1
  <2>2. IsFiniteSet(das.offset..(das.offset + das.length))
    BY <2>1, FS_Interval, Zenon
  <2>3. joins \subseteq das.offset..(das.offset + das.length)
    BY <1>1, <1>3
  <2> HIDE DEF joins
  <2>4. QED
    BY <2>2, <2>3, FS_Subset
<1>5. \A o \in joins : o \in C /\ o \in Nat /\ Queued(o) /\ (o = das.offset => ~das.is_extra_queued)
  BY <1>3
<1> HIDE DEF joins
<1>6. \A x, y \in joins : <<x, y>> \in R <=> x < y
  OBVIOUS
<1> HIDE DEF R
<1>7. /\ n \in Nat
      /\ \A i \in 1..n : \E o \in joins : Cardinality(Below(o)) = i - 1
  <2>1. /\ \A x \in joins : <<x, x>> \notin R
        /\ \A x, y \in joins : x = y \/ <<x, y>> \in R \/ <<y, x>> \in R
        /\ \A x, y, z \in joins : <<x, y>> \in R /\ <<y, z>> \in R => <<x, z>> \in R
    BY <1>5, <1>6
  <2>2. /\ n \in Nat
        /\ \A i \in 1..n : \E o \in joins : Cardinality({e \in joins : <<e, o>> \in R}) = i - 1
    BY <1>4, <2>1, RankInOrder
  <2>3. \A o \in joins : {e \in joins : <<e, o>> \in R} = Below(o)
    BY <1>6
  <2> HIDE DEF n, Below
  <2>4. QED
    BY <2>2, <2>3
<1> HIDE DEF n, Below
<1>8. \A i \in 1..n : nth(i) \in joins /\ Cardinality(Below(nth(i))) = i - 1
  BY <1>7
<1> HIDE DEF nth
<1>9. \A i \in 1..n : [key |-> das.key, offset |-> nth(i)] \in Ids
  BY <1>1, <1>5, <1>8 DEF Ids
<1>10. new \in Seq(Ids) /\ DOMAIN new = 1..n
  BY <1>2, <1>7, <1>9
<1>11. \A i, j \in 1..n : new[i] = new[j] => i = j
  <2> SUFFICES ASSUME NEW i \in 1..n, NEW j \in 1..n, new[i] = new[j] PROVE i = j
    OBVIOUS
  <2>1. nth(i) = nth(j)
    BY <1>2
  <2>2. i - 1 = j - 1
    BY <1>8, <2>1
  <2>3. QED
    BY <1>7, <2>2
<1>12. ASSUME NEW i \in 1..n
       PROVE  \E o \in C : /\ new[i] = [key |-> das.key, offset |-> o]
                           /\ Queued(o) /\ (o = das.offset => ~das.is_extra_queued)
  <2>1. nth(i) \in C /\ Queued(nth(i)) /\ (nth(i) = das.offset => ~das.is_extra_queued)
    BY <1>5, <1>8
  <2>2. new[i] = [key |-> das.key, offset |-> nth(i)]
    BY <1>2
  <2>3. QED
    BY <2>1, <2>2
<1>13. QED
  BY <1>10, <1>11, <1>12 DEF Ids, C, Queued

\* Two lists without repetition and without common element, one after the other.
LEMMA Concatenate ==
    ASSUME NEW Ids, NEW q \in Seq(Ids), NEW n \in Seq(Ids),
           \A i, j \in DOMAIN q : q[i] = q[j] => i = j,
           \A i, j \in DOMAIN n : n[i] = n[j] => i = j,
           \A i \in DOMAIN q, j \in DOMAIN n : q[i] # n[j],
           NEW c, c = q \o n
    PROVE  /\ c \in Seq(Ids)
           /\ \A i, j \in DOMAIN c : c[i] = c[j] => i = j
           /\ \A i \in DOMAIN c : \/ \E j \in DOMAIN q : c[i] = q[j]
                                  \/ \E j \in DOMAIN n : c[i] = n[j]
<1>1. /\ c \in Seq(Ids) /\ Len(q) \in Nat /\ Len(n) \in Nat
      /\ DOMAIN q = 1..Len(q) /\ DOMAIN n = 1..Len(n)
      /\ DOMAIN c = 1..(Len(q) + Len(n))
      /\ \A i \in 1..(Len(q) + Len(n)) :
           c[i] = IF i <= Len(q) THEN q[i] ELSE n[i - Len(q)]
  OBVIOUS
<1>2. ASSUME NEW i \in DOMAIN c
      PROVE  \/ i \in DOMAIN q /\ c[i] = q[i]
             \/ i - Len(q) \in DOMAIN n /\ c[i] = n[i - Len(q)]
  BY <1>1
<1>3. \A i, j \in DOMAIN c : c[i] = c[j] => i = j
  <2> SUFFICES ASSUME NEW i \in DOMAIN c, NEW j \in DOMAIN c, c[i] = c[j] PROVE i = j
    OBVIOUS
  <2>1. i - Len(q) = j - Len(q) => i = j
    BY <1>1
  <2>2. QED
    BY <1>2, <2>1
<1>4. QED
  BY <1>1, <1>2, <1>3

LEMMA RepeatStep ==
    ASSUME AckInv, pc = "idle", NEW das \in datagram_ack_tree, NEW prepare \in BOOLEAN,
           NEW flight, NEW queue,
           Repeat(das, das.length, prepare, flight, queue),
           UNCHANGED <<horizon, horizon_is_last_fragment, pc, sent, received>>,
           FlightOK(flight), Aligned(flight, datagram_ack_tree),
           RanksOK(flight, datagram_ack_tree),
           \A e \in flight : SameStart(e, das) => das.is_extra_queued \/ e.lost,
           PendingOK(flight, datagram_ack_tree \ {das}),
           queue \in Seq([key : Key, offset : Nat]),
           \A i, j \in DOMAIN queue : queue[i] = queue[j] => i = j,
           \A i \in DOMAIN queue : \E e \in datagram_ack_tree :
                Id(e) = queue[i] /\ e.is_extra_queued
    PROVE  AckInv'
<1> DEFINE C == Chunks(das.offset, das.length)
           L(o) == ChunkLength(o, das.offset, das.length)
           k == das.key
           rank == das.last_sent + 1
           Rec(o) == RepeatRecord(das, das.length, prepare, o)
           Dat(o) == Datagram(k, o, L(o), rank)
           new == NewExtra(das, das.length, prepare)
           Others == datagram_ack_tree \ {das}
<1>1. /\ das \in AckRecord /\ IsRecord(das) /\ FragmentOK(das)
      /\ k \in Key /\ das.offset \in Nat /\ das.length \in Nat /\ das.last_sent \in Nat
      /\ das.is_acked => UnitsOf(das) \subseteq received
      /\ rank \in Nat
  BY TreeFacts
<1>2. /\ in_flight' = flight \cup {Dat(o) : o \in C}
      /\ datagram_ack_tree' = Others \cup {Rec(o) : o \in C}
      /\ extra' = queue \o new
      /\ rank <= MaxRepeats[k]
  <2>1. Recut(das, das.length) = C
    BY NoCollision
  <2>2. rank <= MaxRepeats[k]
    BY <1>1, AckAssumption DEF Repeat
  <2>3. QED
    BY <2>1, <2>2 DEF Repeat
<1>3. /\ das.offset \in C
      /\ \A o \in C :
           /\ o \in Nat /\ das.offset <= o /\ L(o) \in Nat
           /\ o + L(o) <= das.offset + das.length
           /\ L(o) = 0 => das.length = 0
           /\ o \in Units(o, L(o))
           /\ \A b \in Units(o, L(o)) : b \in Units(das.offset, das.length)
      /\ \A b \in Units(das.offset, das.length) : \E o \in C : b \in Units(o, L(o))
      /\ \A o, q \in C : o # q => Units(o, L(o)) \cap Units(q, L(q)) = {}
  BY <1>1, PartsTile
<1>4. \A o \in C : /\ Rec(o) \in AckRecord /\ Rec(o).key = k /\ Rec(o).offset = o
                   /\ Rec(o).length = L(o) /\ Rec(o).last_sent = rank
                   /\ Rec(o).is_acked => das.is_acked
                   /\ o = das.offset /\ das.is_extra_queued => Rec(o).is_extra_queued
  <2> SUFFICES ASSUME NEW o \in C
               PROVE  /\ Rec(o) \in AckRecord /\ Rec(o).key = k /\ Rec(o).offset = o
                      /\ Rec(o).length = L(o) /\ Rec(o).last_sent = rank
                      /\ Rec(o).is_acked => das.is_acked
                      /\ o = das.offset /\ das.is_extra_queued => Rec(o).is_extra_queued
    OBVIOUS
  <2> HIDE DEF Rec
  <2>1. /\ Rec(o) \in AckRecord /\ Rec(o).key = das.key /\ Rec(o).offset = o
        /\ Rec(o).length = ChunkLength(o, das.offset, das.length)
        /\ Rec(o).last_sent = das.last_sent + 1
        /\ Rec(o).is_acked => das.is_acked
        /\ o = das.offset /\ das.is_extra_queued => Rec(o).is_extra_queued
    BY <1>1, PartShape DEF Rec
  <2>2. QED
    BY <2>1
<1> HIDE DEF L, rank
<1>5. \A o \in C : /\ Dat(o) \in Transmission /\ Dat(o).key = k /\ Dat(o).offset = o
                   /\ Dat(o).length = L(o) /\ Dat(o).rank = rank
                   /\ ~Dat(o).arrived /\ ~Dat(o).lost
  <2> SUFFICES ASSUME NEW o \in C
               PROVE  /\ Dat(o) \in Transmission /\ Dat(o).key = k /\ Dat(o).offset = o
                      /\ Dat(o).length = L(o) /\ Dat(o).rank = rank
                      /\ ~Dat(o).arrived /\ ~Dat(o).lost
    OBVIOUS
  <2>1. o \in Nat /\ L(o) \in Nat
    BY <1>3
  <2>2. QED
    <3>1. k \in Key /\ rank \in Nat
      BY <1>1
    <3> HIDE DEF k, rank
    <3>2. QED
      BY <2>1, <3>1 DEF Datagram, Transmission
<1>6. /\ new \in Seq([key : Key, offset : Nat])
      /\ \A i, j \in DOMAIN new : new[i] = new[j] => i = j
      /\ \A i \in DOMAIN new : \E o \in C :
           /\ new[i] = [key |-> k, offset |-> o]
           /\ Rec(o).is_extra_queued
           /\ o = das.offset => ~das.is_extra_queued
  BY NewExtraShape
<1> HIDE DEF C, Rec, Dat, new, k
<1>7. /\ SentOK' /\ HorizonOK' /\ PassedOK'
      /\ \A j, b : (IsSent(j, b)' <=> IsSent(j, b)) /\ (Passed(j, b)' <=> Passed(j, b))
      /\ \A x : FragmentOK(x)' <=> FragmentOK(x)
  BY HorizonStays DEF AckInv
<1>8. \A e \in Others : /\ e \in datagram_ack_tree /\ e \in AckRecord /\ FragmentOK(e)
                        /\ e.offset \in Nat /\ e.length \in Nat /\ ~Meet(das, e)
                        /\ e.offset \in Units(e.offset, e.length)
  BY TreeFacts, FragmentFacts DEF AckInv, Disjoint
<1>9. \A e \in flight : /\ e \in Transmission /\ FragmentOK(e)
                        /\ e.offset \in Nat /\ e.length \in Nat /\ e.rank \in Nat
                        /\ e.offset \in Units(e.offset, e.length)
  BY Fields, FragmentFacts DEF FlightOK
\* A part has no unit of another record.
<1>10. ASSUME NEW o \in C, NEW e \in Others, e.key = k,
              NEW b \in Units(o, L(o)), b \in Units(e.offset, e.length)
       PROVE  FALSE
  <2>1. Meet(das, e)
    BY <1>3, <1>10 DEF Meet, k
  <2>2. QED
    BY <1>8, <2>1
\* A transmission of before that starts where a part does starts where das does.
<1>11. ASSUME NEW o \in C, NEW e \in flight, e.key = k, e.offset = o
       PROVE  o = das.offset /\ SameStart(e, das) /\ e.rank <= das.last_sent
  <2>1. o \in Units(das.offset, das.length) /\ o \in Units(e.offset, e.length)
    BY <1>3, <1>9, <1>11
  <2>2. Meet(e, das)
    BY <1>11, <2>1 DEF Meet, k
  <2>3. e.offset <= das.offset
    BY <2>2 DEF Aligned
  <2>4. o = das.offset
    BY <1>1, <1>3, <1>11, <2>3
  <2>5. SameStart(e, das)
    BY <1>11, <2>4 DEF SameStart, k
  <2>6. QED
    BY <2>4, <2>5 DEF RanksOK
<1>12. ASSUME NEW x, NEW o \in C, x.key = k, x.offset = o, x.length = L(o)
       PROVE  /\ FragmentOK(x)
              /\ \A b \in Units(x.offset, x.length) : ~Passed(x.key, b)
              /\ UnitsOf(x) \subseteq UnitsOf(das)
  <2>1. /\ k \in Sent /\ das.offset + das.length <= ObjectLength[k]
        /\ das.length = 0 => ObjectLength[k] = 0
        /\ \A b \in Units(das.offset, das.length) : IsSent(k, b) /\ ~Passed(k, b)
        /\ ObjectLength[k] \in Nat
    BY <1>1, FragmentFacts DEF AckInv, RecordsOK, FragmentOK, k
  <2>2. x.offset + x.length <= ObjectLength[k]
    <3>1. o \in Nat /\ L(o) \in Nat /\ o + L(o) <= das.offset + das.length
      BY <1>3
    <3>2. QED
      BY <1>1, <1>12, <2>1, <3>1
  <2>3. \A b \in Units(x.offset, x.length) : b \in Units(das.offset, das.length)
    BY <1>3, <1>12
  <2>4. x.length = 0 => ObjectLength[k] = 0
    BY <1>3, <1>12, <2>1
  <2>5. FragmentOK(x)
    BY <1>12, <2>1, <2>2, <2>3, <2>4 DEF FragmentOK
  <2>6. \A b \in Units(x.offset, x.length) : ~Passed(x.key, b)
    BY <1>12, <2>1, <2>3
  <2>7. UnitsOf(x) \subseteq UnitsOf(das)
    BY <1>12, <2>3 DEF UnitsOf, k
  <2>8. QED
    BY <2>5, <2>6, <2>7
<1>13. RecordsOK'
  <2>1. ASSUME NEW e \in Others
        PROVE  /\ IsRecord(e) /\ FragmentOK(e)
               /\ \A b \in Units(e.offset, e.length) : ~Passed(e.key, b)
               /\ e.is_acked => UnitsOf(e) \subseteq received
    BY DEF AckInv, RecordsOK
  <2>2. ASSUME NEW o \in C
        PROVE  /\ IsRecord(Rec(o)) /\ FragmentOK(Rec(o))
               /\ \A b \in Units(Rec(o).offset, Rec(o).length) : ~Passed(Rec(o).key, b)
               /\ Rec(o).is_acked => UnitsOf(Rec(o)) \subseteq received
    <3>1. IsRecord(Rec(o))
      BY <1>2, <1>4 DEF IsRecord
    <3>2. QED
      BY <1>1, <1>4, <1>12, <3>1
  <2>3. \A x \in datagram_ack_tree' :
               /\ IsRecord(x) /\ FragmentOK(x)
               /\ \A b \in Units(x.offset, x.length) : ~Passed(x.key, b)
               /\ x.is_acked => UnitsOf(x) \subseteq received
    BY <1>2, <2>1, <2>2
  <2>4. QED
    BY <1>7, <2>3 DEF RecordsOK, IsRecord, UnitsOf
<1>14. Disjoint(datagram_ack_tree)'
  <2> SUFFICES ASSUME NEW x \in datagram_ack_tree', NEW y \in datagram_ack_tree', Meet(x, y)
               PROVE  x = y
    BY DEF Disjoint, Meet
  <2>1. PICK b : x.key = y.key /\ b \in Units(x.offset, x.length)
                 /\ b \in Units(y.offset, y.length)
    BY DEF Meet
  <2>2. CASE x \in Others /\ y \in Others
    BY <2>2 DEF AckInv, Disjoint
  <2>3. CASE x \in Others /\ \E o \in C : y = Rec(o)
    BY <1>4, <1>10, <2>1, <2>3
  <2>4. CASE y \in Others /\ \E o \in C : x = Rec(o)
    BY <1>4, <1>10, <2>1, <2>4
  <2>5. CASE (\E o \in C : x = Rec(o)) /\ (\E o \in C : y = Rec(o))
    <3>1. PICK o \in C : x = Rec(o)
      BY <2>5
    <3>2. PICK q \in C : y = Rec(q)
      BY <2>5
    <3>3. b \in Units(o, L(o)) \cap Units(q, L(q))
      BY <1>4, <2>1, <3>1, <3>2
    <3>4. o = q
      BY <1>3, <3>3
    <3>5. QED
      BY <3>1, <3>2, <3>4
  <2>6. QED
    BY <1>2, <2>2, <2>3, <2>4, <2>5
<1>15. CoverOK'
  <2> SUFFICES ASSUME NEW j \in Key, NEW b \in Units(0, ObjectLength[j]),
                      IsSent(j, b), ~Passed(j, b)
               PROVE  \E x \in datagram_ack_tree' :
                         x.key = j /\ b \in Units(x.offset, x.length)
    BY <1>7 DEF CoverOK
  <2>1. PICK e \in datagram_ack_tree : e.key = j /\ b \in Units(e.offset, e.length)
    BY DEF AckInv, CoverOK
  <2>2. CASE e = das
    <3>1. PICK o \in C : b \in Units(o, L(o))
      BY <1>3, <2>1, <2>2
    <3>2. QED
      BY <1>2, <1>4, <2>1, <2>2, <3>1 DEF k
  <2>3. CASE e # das
    BY <1>2, <2>1, <2>3
  <2>4. QED
    BY <2>2, <2>3
<1>16. FlightOK(in_flight)'
  <2>1. \A d \in in_flight' : /\ d \in Transmission /\ FragmentOK(d)'
                              /\ d.arrived => UnitsOf(d) \subseteq received
    <3>1. \A d \in flight : /\ d \in Transmission /\ FragmentOK(d)
                            /\ d.arrived => UnitsOf(d) \subseteq received
      BY DEF FlightOK
    <3>2. \A o \in C : Dat(o) \in Transmission /\ FragmentOK(Dat(o)) /\ ~Dat(o).arrived
      BY <1>5, <1>12
    <3>3. QED
      BY <1>2, <1>7, <3>1, <3>2
  <2>2. ASSUME NEW d \in in_flight', NEW e \in in_flight', SameStart(d, e), d.rank = e.rank
        PROVE  d = e
    <3>1. CASE d \in flight /\ e \in flight
      BY <2>2, <3>1 DEF FlightOK
    <3>2. CASE d \in flight /\ \E o \in C : e = Dat(o)
      BY <1>1, <1>5, <1>9, <1>11, <2>2, <3>2 DEF SameStart, rank
    <3>3. CASE e \in flight /\ \E o \in C : d = Dat(o)
      BY <1>1, <1>5, <1>9, <1>11, <2>2, <3>3 DEF SameStart, rank
    <3>4. CASE (\E o \in C : d = Dat(o)) /\ (\E o \in C : e = Dat(o))
      BY <1>5, <2>2, <3>4 DEF SameStart
    <3>5. QED
      BY <1>2, <3>1, <3>2, <3>3, <3>4
  <2>3. QED
    BY <2>1, <2>2 DEF FlightOK, UnitsOf, SameStart
<1>17. Aligned(in_flight, datagram_ack_tree)'
  <2> SUFFICES ASSUME NEW d \in in_flight', NEW x \in datagram_ack_tree', Meet(d, x)
               PROVE  d.offset <= x.offset /\ x.offset + x.length <= d.offset + d.length
    BY DEF Aligned, AckEnd, Meet
  <2>1. PICK b : d.key = x.key /\ b \in Units(d.offset, d.length)
                 /\ b \in Units(x.offset, x.length)
    BY DEF Meet
  <2>2. CASE d \in flight /\ x \in Others
    BY <2>2 DEF Aligned, AckEnd
  <2>3. CASE d \in flight /\ \E o \in C : x = Rec(o)
    <3>1. PICK o \in C : x = Rec(o)
      BY <2>3
    <3>2. Meet(d, das)
      BY <1>3, <1>4, <2>1, <3>1 DEF Meet, k
    <3>3. d.offset <= das.offset /\ das.offset + das.length <= d.offset + d.length
      BY <2>3, <3>2 DEF Aligned, AckEnd
    <3>4. QED
      <4>1. x.offset = o /\ x.length = L(o)
        BY <1>4, <3>1
      <4>2. /\ o \in Nat /\ L(o) \in Nat /\ das.offset <= o
            /\ o + L(o) <= das.offset + das.length
        BY <1>3
      <4>3. d.offset \in Nat /\ d.length \in Nat
        BY <1>9, <2>3
      <4>4. QED
        BY <1>1, <3>3, <4>1, <4>2, <4>3
  <2>4. CASE (\E o \in C : d = Dat(o)) /\ x \in Others
    BY <1>5, <1>10, <2>1, <2>4
  <2>5. CASE (\E o \in C : d = Dat(o)) /\ (\E o \in C : x = Rec(o))
    <3>1. PICK o \in C : d = Dat(o)
      BY <2>5
    <3>2. PICK q \in C : x = Rec(q)
      BY <2>5
    <3>3. b \in Units(o, L(o)) \cap Units(q, L(q))
      BY <1>4, <1>5, <2>1, <3>1, <3>2
    <3>4. o = q
      BY <1>3, <3>3
    <3>5. QED
      BY <1>3, <1>4, <1>5, <3>1, <3>2, <3>4
  <2>6. QED
    BY <1>2, <2>2, <2>3, <2>4, <2>5
<1>18. RanksOK(in_flight, datagram_ack_tree)'
  <2> SUFFICES ASSUME NEW d \in in_flight', NEW x \in datagram_ack_tree', SameStart(d, x)
               PROVE  /\ d.rank <= x.last_sent
                      /\ d.rank = x.last_sent => d.length = x.length
                      /\ ~d.lost /\ ~x.is_extra_queued => d.rank = x.last_sent
    BY DEF RanksOK, SameStart
  <2>1. CASE d \in flight /\ x \in Others
    BY <2>1 DEF RanksOK
  <2>2. CASE d \in flight /\ \E o \in C : x = Rec(o)
    <3>1. PICK o \in C : x = Rec(o)
      BY <2>2
    <3>2. d.key = k /\ d.offset = o
      BY <1>4, <3>1 DEF SameStart
    <3>3. o = das.offset /\ SameStart(d, das) /\ d.rank <= das.last_sent
      BY <1>11, <2>2, <3>2
    <3>4. d.rank < x.last_sent
      BY <1>1, <1>4, <1>9, <2>2, <3>1, <3>3 DEF rank
    <3>5. d.lost \/ x.is_extra_queued
      BY <1>4, <2>2, <3>1, <3>3
    <3>6. x.last_sent \in Nat /\ d.rank \in Nat
      BY <1>1, <1>4, <1>9, <2>2, <3>1
    <3>7. QED
      BY <3>4, <3>5, <3>6
  <2>3. CASE (\E o \in C : d = Dat(o)) /\ x \in Others
    BY <1>3, <1>5, <1>8, <1>10, <2>3, SMTT(30) DEF SameStart
  <2>4. CASE (\E o \in C : d = Dat(o)) /\ (\E o \in C : x = Rec(o))
    BY <1>1, <1>4, <1>5, <2>4 DEF SameStart
  <2>5. QED
    BY <1>2, <2>1, <2>2, <2>3, <2>4
<1>19. PendingOK(in_flight, datagram_ack_tree)'
  <2> SUFFICES ASSUME NEW x \in datagram_ack_tree'
               PROVE  \/ UnitsOf(x) \subseteq received
                      \/ ~Repeatable(x.key, x.length)
                      \/ \E d \in in_flight' :
                            ~d.lost /\ SameStart(d, x) /\ d.rank = x.last_sent
    BY DEF PendingOK, UnitsOf, Repeatable, SameStart
  <2>1. CASE x \in Others
    BY <1>2, <2>1 DEF PendingOK
  <2>2. CASE \E o \in C : x = Rec(o)
    <3>1. PICK o \in C : x = Rec(o)
      BY <2>2
    <3>2. Dat(o) \in in_flight' /\ ~Dat(o).lost /\ Dat(o).rank = x.last_sent
      BY <1>2, <1>4, <1>5, <3>1
    <3>3. SameStart(Dat(o), x)
      BY <1>4, <1>5, <3>1 DEF SameStart
    <3>4. QED
      BY <3>2, <3>3
  <2>3. QED
    BY <1>2, <2>1, <2>2
<1>20. ExtraOK'
  <2> DEFINE Ids == [key : Key, offset : Nat]
  <2>1. ASSUME NEW i \in DOMAIN queue, NEW j \in DOMAIN new, queue[i] = new[j]
        PROVE  FALSE
    <3>1. PICK e \in datagram_ack_tree : Id(e) = queue[i] /\ e.is_extra_queued
      OBVIOUS
    <3>2. PICK o \in C : /\ new[j] = [key |-> k, offset |-> o]
                         /\ o = das.offset => ~das.is_extra_queued
      BY <1>6
    <3>3. e.key = k /\ e.offset = o
      BY <2>1, <3>1, <3>2 DEF Id
    <3>4. CASE e = das
      BY <3>1, <3>2, <3>3, <3>4
    <3>5. CASE e \in Others
      BY <1>3, <1>8, <1>10, <3>3, <3>5
    <3>6. QED
      BY <3>4, <3>5
  <2>2. /\ extra' \in Seq(Ids)
        /\ \A i, j \in DOMAIN extra' : extra'[i] = extra'[j] => i = j
        /\ \A i \in DOMAIN extra' : \/ \E j \in DOMAIN queue : extra'[i] = queue[j]
                                    \/ \E j \in DOMAIN new : extra'[i] = new[j]
    <3>1. queue \in Seq(Ids) /\ new \in Seq(Ids) /\ extra' = queue \o new
      BY <1>2, <1>6
    <3> HIDE DEF Ids
    <3>2. extra' \in Seq(Ids)
      BY <1>6, <2>1, <3>1, Concatenate
    <3>3. \A i, j \in DOMAIN extra' : extra'[i] = extra'[j] => i = j
      BY <1>6, <2>1, <3>1, Concatenate, SMTT(30)
    <3>4. \A i \in DOMAIN extra' : \/ \E j \in DOMAIN queue : extra'[i] = queue[j]
                                   \/ \E j \in DOMAIN new : extra'[i] = new[j]
      BY <1>6, <2>1, <3>1, Concatenate
    <3>5. QED
      BY <3>2, <3>3, <3>4
  <2>3. ASSUME NEW i \in DOMAIN extra'
        PROVE  \E x \in datagram_ack_tree' : Id(x) = extra'[i] /\ x.is_extra_queued
    <3>1. CASE \E j \in DOMAIN queue : extra'[i] = queue[j]
      <4>1. PICK e \in datagram_ack_tree : Id(e) = extra'[i] /\ e.is_extra_queued
        BY <3>1
      <4>2. CASE e \in Others
        BY <1>2, <4>1, <4>2
      <4>3. CASE e = das
        <5>1. /\ Rec(das.offset) \in datagram_ack_tree' /\ Rec(das.offset).is_extra_queued
              /\ Rec(das.offset).key = das.key /\ Rec(das.offset).offset = das.offset
          BY <1>2, <1>3, <1>4, <4>1, <4>3 DEF k
        <5>2. Id(Rec(das.offset)) = Id(das)
          BY <5>1 DEF Id
        <5>3. QED
          BY <4>1, <4>3, <5>1, <5>2
      <4>4. QED
        BY <4>2, <4>3
    <3>2. CASE \E j \in DOMAIN new : extra'[i] = new[j]
      <4>1. PICK o \in C : /\ extra'[i] = [key |-> k, offset |-> o]
                           /\ Rec(o).is_extra_queued
        BY <1>6, <3>2
      <4>2. Rec(o) \in datagram_ack_tree' /\ Id(Rec(o)) = extra'[i]
        BY <1>2, <1>4, <4>1 DEF Id
      <4>3. QED
        BY <4>1, <4>2
    <3>3. QED
      BY <2>2, <3>1, <3>2
  <2>4. QED
    BY <2>2, <2>3 DEF ExtraOK, Id
<1>21. QED
  BY <1>7, <1>13, <1>14, <1>15, <1>16, <1>17, <1>18, <1>19, <1>20 DEF AckInv

\* A record that is repeated after a loss was last sent in the lost datagram,
\* and has its length.
LEMMA LostIsLatest ==
    ASSUME AckInv, NEW d \in in_flight, ~d.lost, NEW das \in ToRepeat(d)
    PROVE  /\ das \in datagram_ack_tree /\ SameStart(d, das)
           /\ d.rank = das.last_sent /\ d.length = das.length
<1>1. /\ das \in datagram_ack_tree /\ das.key = d.key /\ das.offset = d.offset
      /\ IsLatest(das, d)
  BY DEF ToRepeat, AckFind
<1>2. SameStart(d, das)
  BY <1>1 DEF SameStart
<1>3. /\ d.rank <= das.last_sent
      /\ d.rank = das.last_sent => d.length = das.length
      /\ ~das.is_extra_queued => d.rank = das.last_sent
  BY <1>1, <1>2 DEF AckInv, RanksOK
<1>4. d.rank \in Nat /\ das.last_sent \in Nat
  BY <1>1, FlightFacts, TreeFacts
<1>5. d.rank = das.last_sent
  BY <1>1, <1>3, <1>4 DEF IsLatest
<1>6. QED
  BY <1>1, <1>2, <1>3, <1>5

LEMMA LostRepeatedStep ==
    ASSUME AckInv, NEW d \in in_flight, LostRepeated(d)
    PROVE  AckInv'
<1> DEFINE m == [d EXCEPT !.lost = TRUE]
           flight == Flying(d)
<1>1. PICK das \in ToRepeat(d) :
        Repeat(das, d.length, extra_repeat_on_nack, flight, extra)
  BY DEF LostRepeated
<1>2. /\ pc = "idle" /\ ~d.lost
      /\ UNCHANGED <<horizon, horizon_is_last_fragment, pc, sent, received>>
  BY DEF LostRepeated
<1>3. /\ das \in datagram_ack_tree /\ SameStart(d, das)
      /\ d.rank = das.last_sent /\ d.length = das.length
  BY <1>2, LostIsLatest
<1>4. d \in Transmission
  BY FlightFacts
<1>5. /\ m \in Transmission /\ m.key = d.key /\ m.offset = d.offset /\ m.length = d.length
      /\ m.rank = d.rank /\ m.lost /\ m.arrived = d.arrived
  BY <1>4, MarkedShape
<1>6. flight = (in_flight \ {d}) \cup {m}
  BY DEF Flying
<1> HIDE DEF m, flight
<1>7. /\ \A c, e \in flight : SameStart(c, e) /\ c.rank = e.rank => c = e
      /\ Aligned(flight, datagram_ack_tree) /\ RanksOK(flight, datagram_ack_tree)
      /\ FragmentOK(m) /\ UnitsOf(m) = UnitsOf(d)
  BY <1>5, <1>6, MarkedFlight
<1>8. FlightOK(flight)
  <2>1. \A e \in flight : /\ e \in Transmission /\ FragmentOK(e)
                          /\ e.arrived => UnitsOf(e) \subseteq received
    BY <1>5, <1>6, <1>7, FlightFacts
  <2>2. QED
    BY <1>7, <2>1 DEF FlightOK
<1>9. ASSUME NEW e \in flight, SameStart(e, das), ~das.is_extra_queued
      PROVE  e.lost
  <2>1. CASE e = m
    BY <1>5, <2>1
  <2>2. CASE e \in in_flight /\ e # d
    <3>1. ~e.lost => e.rank = das.last_sent
      BY <1>3, <1>9, <2>2 DEF AckInv, RanksOK
    <3>2. SameStart(e, d)
      BY <1>3, <1>9 DEF SameStart
    <3>3. e.rank # d.rank
      BY <2>2, <3>2 DEF AckInv, FlightOK
    <3>4. e.lost \in BOOLEAN
      BY <2>2, FlightFacts, Fields
    <3>5. QED
      BY <1>3, <3>1, <3>3, <3>4
  <2>3. QED
    BY <1>6, <2>1, <2>2
<1>10. PendingOK(flight, datagram_ack_tree \ {das})
  <2> SUFFICES ASSUME NEW e \in datagram_ack_tree, e # das,
                      ~(UnitsOf(e) \subseteq received), Repeatable(e.key, e.length)
               PROVE  \E c \in flight : ~c.lost /\ SameStart(c, e) /\ c.rank = e.last_sent
    BY DEF PendingOK
  <2>1. PICK c \in in_flight : ~c.lost /\ SameStart(c, e) /\ c.rank = e.last_sent
    BY DEF AckInv, PendingOK
  <2>2. c # d
    <3> SUFFICES ASSUME c = d PROVE FALSE
      OBVIOUS
    <3>1. SameStart(e, das)
      BY <1>3, <2>1 DEF SameStart
    <3>2. Meet(e, das)
      BY <1>3, <3>1, TreeFacts, StartsMeet
    <3>3. QED
      BY <1>3, <3>2 DEF AckInv, Disjoint
  <2>3. QED
    BY <1>6, <2>1, <2>2
<1>11. /\ extra \in Seq([key : Key, offset : Nat])
       /\ \A i, j \in DOMAIN extra : extra[i] = extra[j] => i = j
       /\ \A i \in DOMAIN extra : \E e \in datagram_ack_tree :
            Id(e) = extra[i] /\ e.is_extra_queued
  BY DEF AckInv, ExtraOK
<1>12. Repeat(das, das.length, extra_repeat_on_nack, flight, extra)
  BY <1>1, <1>3
<1>13. extra_repeat_on_nack \in BOOLEAN
  BY AckAssumption
<1>14. \A e \in flight : SameStart(e, das) => das.is_extra_queued \/ e.lost
  BY <1>9
<1>15. QED
  BY <1>2, <1>3, <1>7, <1>8, <1>10, <1>11, <1>12, <1>13, <1>14, RepeatStep

LEMMA TailShape ==
    ASSUME NEW Ids, NEW q \in Seq(Ids), q # <<>>,
           \A i, j \in DOMAIN q : q[i] = q[j] => i = j,
           NEW t, t = Tail(q)
    PROVE  /\ t \in Seq(Ids) /\ 1 \in DOMAIN q /\ Head(q) = q[1]
           /\ \A i, j \in DOMAIN t : t[i] = t[j] => i = j
           /\ \A i \in DOMAIN t : \E j \in DOMAIN q : t[i] = q[j]
<1>1. /\ t \in Seq(Ids) /\ Len(q) \in Nat \ {0} /\ Head(q) = q[1]
      /\ DOMAIN q = 1..Len(q) /\ DOMAIN t = 1..(Len(q) - 1)
      /\ \A i \in 1..(Len(q) - 1) : t[i] = q[i + 1]
  OBVIOUS
<1>2. \A i \in DOMAIN t : i + 1 \in DOMAIN q /\ t[i] = q[i + 1]
  BY <1>1
<1>3. \A i, j \in DOMAIN t : t[i] = t[j] => i = j
  <2> SUFFICES ASSUME NEW i \in DOMAIN t, NEW j \in DOMAIN t, t[i] = t[j] PROVE i = j
    OBVIOUS
  <2>1. i + 1 = j + 1
    BY <1>2
  <2>2. QED
    BY <1>1, <2>1
<1>4. QED
  BY <1>1, <1>2, <1>3

LEMMA ExtraRepeatStep ==
    ASSUME AckInv, ExtraRepeat
    PROVE  AckInv'
<1> DEFINE Ids == [key : Key, offset : Nat]
<1>1. /\ extra \in Seq(Ids) /\ extra # <<>>
      /\ \A i, j \in DOMAIN extra : extra[i] = extra[j] => i = j
  BY DEF AckInv, ExtraOK, ExtraRepeat
<1>2. PICK das \in AckFind(Head(extra).key, Head(extra).offset) :
        IF Repeatable(das.key, das.length)
        THEN Repeat(das, das.length, FALSE, in_flight, Tail(extra))
        ELSE extra' = Tail(extra) /\ UNCHANGED <<in_flight, datagram_ack_tree>>
  BY DEF ExtraRepeat
<1>3. /\ pc = "idle"
      /\ UNCHANGED <<horizon, horizon_is_last_fragment, pc, sent, received>>
  BY DEF ExtraRepeat
<1>4. das \in datagram_ack_tree /\ das.key = Head(extra).key /\ das.offset = Head(extra).offset
  BY DEF AckFind
<1> DEFINE queue == Tail(extra)
<1>5. /\ queue \in Seq(Ids) /\ 1 \in DOMAIN extra /\ Head(extra) = extra[1]
      /\ \A i, j \in DOMAIN queue : queue[i] = queue[j] => i = j
      /\ \A i \in DOMAIN queue : \E j \in DOMAIN extra : queue[i] = extra[j]
  <2> HIDE DEF Ids, queue
  <2>1. queue = Tail(extra)
    BY DEF queue
  <2>2. queue \in Seq(Ids) /\ 1 \in DOMAIN extra /\ Head(extra) = extra[1]
    BY <1>1, <2>1, TailShape
  <2>3. \A i, j \in DOMAIN queue : queue[i] = queue[j] => i = j
    BY <1>1, <2>1, TailShape
  <2>4. \A i \in DOMAIN queue : \E j \in DOMAIN extra : queue[i] = extra[j]
    BY <1>1, <2>1, TailShape
  <2>5. QED
    BY <2>2, <2>3, <2>4
<1> HIDE DEF queue
<1>6. \A i \in DOMAIN queue : \E e \in datagram_ack_tree :
            Id(e) = queue[i] /\ e.is_extra_queued
  BY <1>5 DEF AckInv, ExtraOK
<1>7. das.is_extra_queued
  <2>1. PICK e \in datagram_ack_tree : Id(e) = extra[1] /\ e.is_extra_queued
    BY <1>5 DEF AckInv, ExtraOK
  <2>2. e.key = das.key /\ e.offset = das.offset
    BY <1>4, <1>5, <2>1 DEF Id
  <2>3. Meet(e, das)
    BY <1>4, <2>2, TreeFacts, StartsMeet DEF SameStart
  <2>4. e = das
    BY <1>4, <2>3 DEF AckInv, Disjoint
  <2>5. QED
    BY <2>1, <2>4
<1>8. CASE Repeatable(das.key, das.length)
  <2>1. Repeat(das, das.length, FALSE, in_flight, queue)
    BY <1>2, <1>8 DEF queue
  <2>2. PendingOK(in_flight, datagram_ack_tree \ {das})
    BY DEF AckInv, PendingOK
  <2>3. /\ FlightOK(in_flight) /\ Aligned(in_flight, datagram_ack_tree)
        /\ RanksOK(in_flight, datagram_ack_tree)
    BY DEF AckInv
  <2>4. \A e \in in_flight : SameStart(e, das) => das.is_extra_queued \/ e.lost
    BY <1>7
  <2>5. QED
    BY <1>3, <1>4, <1>5, <1>6, <2>1, <2>2, <2>3, <2>4, RepeatStep
<1>9. CASE ~Repeatable(das.key, das.length)
  <2>1. extra' = queue /\ UNCHANGED <<in_flight, datagram_ack_tree>>
    BY <1>2, <1>9 DEF queue
  <2>2. /\ SentOK' /\ HorizonOK' /\ PassedOK'
        /\ \A k, b : (IsSent(k, b)' <=> IsSent(k, b)) /\ (Passed(k, b)' <=> Passed(k, b))
        /\ \A x : FragmentOK(x)' <=> FragmentOK(x)
    BY <1>3, HorizonStays DEF AckInv
  <2>3. RecordsOK' /\ FlightOK(in_flight)'
    BY <1>3, <2>1, <2>2 DEF AckInv, RecordsOK, FlightOK, IsRecord, UnitsOf, SameStart
  <2>4. CoverOK'
    BY <1>3, <2>1, <2>2 DEF AckInv, CoverOK
  <2>5. /\ Disjoint(datagram_ack_tree)' /\ Aligned(in_flight, datagram_ack_tree)'
        /\ RanksOK(in_flight, datagram_ack_tree)'
    BY <2>1 DEF AckInv, Disjoint, Aligned, RanksOK, Meet, AckEnd, SameStart
  <2>6. PendingOK(in_flight, datagram_ack_tree)'
    BY <1>3, <2>1 DEF AckInv, PendingOK, UnitsOf, Repeatable, SameStart
  <2>7. ExtraOK'
    BY <1>5, <1>6, <2>1 DEF ExtraOK, Id
  <2>8. QED
    BY <1>3, <2>2, <2>3, <2>4, <2>5, <2>6, <2>7 DEF AckInv
<1>10. QED
  BY <1>8, <1>9

----------------------------------------------------------------------------
(* The invariant and what follows from it.                                 *)

LEMMA AckInitially == AckInit => AckInv
<1> SUFFICES ASSUME AckInit PROVE AckInv
  OBVIOUS
<1>1. /\ datagram_ack_tree = {} /\ horizon = <<-1, -1, -1>>
      /\ horizon_is_last_fragment = TRUE
      /\ extra = <<>> /\ pc = "idle" /\ in_flight = {} /\ sent = {} /\ received = {}
  BY DEF AckInit
<1>2. SentOK /\ HorizonOK
  BY <1>1 DEF SentOK, HorizonOK
<1>3. PassedOK
  BY <1>1, InitialHorizon DEF PassedOK
<1>4. CoverOK
  BY <1>1 DEF CoverOK, IsSent
<1>5. /\ RecordsOK /\ Disjoint(datagram_ack_tree) /\ FlightOK(in_flight)
      /\ Aligned(in_flight, datagram_ack_tree) /\ RanksOK(in_flight, datagram_ack_tree)
      /\ PendingOK(in_flight, datagram_ack_tree)
  BY <1>1 DEF RecordsOK, Disjoint, FlightOK, Aligned, RanksOK, PendingOK
<1>6. ExtraOK
  BY <1>1 DEF ExtraOK
<1>7. QED
  BY <1>1, <1>2, <1>3, <1>4, <1>5, <1>6 DEF AckInv

LEMMA AckStutters ==
    ASSUME AckInv, UNCHANGED ack_vars
    PROVE  AckInv'
<1>1. UNCHANGED <<datagram_ack_tree, horizon, horizon_is_last_fragment, extra, pc,
                  in_flight, sent, received>>
  BY DEF ack_vars
<1>2. /\ SentOK' /\ HorizonOK' /\ PassedOK'
      /\ \A k, b : (IsSent(k, b)' <=> IsSent(k, b)) /\ (Passed(k, b)' <=> Passed(k, b))
      /\ \A x : FragmentOK(x)' <=> FragmentOK(x)
  BY <1>1, HorizonStays DEF AckInv
<1>3. RecordsOK' /\ FlightOK(in_flight)'
  BY <1>1, <1>2 DEF AckInv, RecordsOK, FlightOK, IsRecord, UnitsOf, SameStart
<1>4. CoverOK'
  BY <1>1, <1>2 DEF AckInv, CoverOK
<1>5. /\ Disjoint(datagram_ack_tree)' /\ Aligned(in_flight, datagram_ack_tree)'
      /\ RanksOK(in_flight, datagram_ack_tree)'
  BY <1>1 DEF AckInv, Disjoint, Aligned, RanksOK, Meet, AckEnd, SameStart
<1>6. PendingOK(in_flight, datagram_ack_tree)' /\ ExtraOK'
  BY <1>1 DEF AckInv, PendingOK, UnitsOf, Repeatable, SameStart, ExtraOK, Id
<1>7. QED
  BY <1>1, <1>2, <1>3, <1>4, <1>5, <1>6 DEF AckInv

LEMMA AckInvariantStep == AckInv /\ [AckNext]_ack_vars => AckInv'
<1> SUFFICES ASSUME AckInv, [AckNext]_ack_vars PROVE AckInv'
  OBVIOUS
<1>1. ASSUME NEW k \in Sent, NEW p \in Pieces[k], SendFragment(k, p) PROVE AckInv'
  BY <1>1, SendStep
<1>2. ASSUME NEW d \in in_flight, Report(d) PROVE AckInv'
  BY <1>2, ArriveStep, AckStep, LostRepeatedStep, LostIgnoredStep DEF Report
<1>3. CASE CollapseStep
  BY <1>3, CollapseMoves
<1>4. CASE CollapseEnd
  BY <1>4, CollapseEnds
<1>5. CASE ExtraRepeat
  BY <1>5, ExtraRepeatStep
<1>6. CASE Release
  BY <1>6, ReleaseStep
<1>7. CASE UNCHANGED ack_vars
  BY <1>7, AckStutters
<1>8. QED
  BY <1>1, <1>2, <1>3, <1>4, <1>5, <1>6, <1>7 DEF AckNext

\* AckInv holds in every state of the acknowledgement context, whatever the
\* order in which picoquic reports acknowledgements, losses and spurious losses.
THEOREM AckInvariantHolds == AckSpec => []AckInv
<1>1. QED
  BY AckInitially, AckInvariantStep, PTL DEF AckSpec

\* The records keep their type, no two start at the same offset, and an entry of
\* the extra list is never left without its record.
THEOREM AckTypeCorrect == AckSpec => []AckTypeOK
<1>1. AckInv => AckTypeOK
  <2> SUFFICES ASSUME AckInv PROVE AckTypeOK
    OBVIOUS
  <2>1. \A das \in datagram_ack_tree : IsRecord(das)
    BY DEF AckInv, RecordsOK
  <2>2. ASSUME NEW d \in datagram_ack_tree, NEW e \in datagram_ack_tree,
               d.key = e.key, d.offset = e.offset
        PROVE  d = e
    <3>1. Meet(d, e)
      BY <2>2, TreeFacts, StartsMeet DEF SameStart
    <3>2. QED
      BY <3>1 DEF AckInv, Disjoint
  <2>3. horizon \in Int \X Int \X Int /\ horizon_is_last_fragment \in BOOLEAN
    <3>1. CASE horizon = <<-1, -1, -1>>
      BY <3>1 DEF AckInv
    <3>2. CASE /\ horizon = <<horizon[1], horizon[2], horizon[3]>>
               /\ HorizonKey \in Key /\ horizon[3] \in 0..ObjectLength[HorizonKey]
      <4>1. HorizonKey[1] \in Nat /\ HorizonKey[2] \in Nat
        BY <3>2, KeyShape
      <4>2. horizon[1] \in Int /\ horizon[2] \in Int
        BY <4>1 DEF HorizonKey
      <4>3. horizon[3] \in Int
        BY <3>2
      <4>4. QED
        BY <3>2, <4>2, <4>3 DEF AckInv
    <3>3. QED
      BY <3>1, <3>2 DEF AckInv, HorizonOK
  <2>4. ASSUME NEW i \in DOMAIN extra
        PROVE  \E das \in datagram_ack_tree : /\ das.key = extra[i].key
                  /\ das.offset = extra[i].offset /\ das.is_extra_queued
    <3>1. PICK das \in datagram_ack_tree : Id(das) = extra[i] /\ das.is_extra_queued
      BY DEF AckInv, ExtraOK
    <3>2. QED
      BY <3>1 DEF Id
  <2>5. QED
    BY <2>1, <2>2, <2>3, <2>4 DEF AckTypeOK, AckInv
<1>2. QED
  BY <1>1, AckInvariantHolds, PTL

\* An object that has a unit sent is not older than all that is sent.
LEMMA SentNotOlder ==
    ASSUME AckInv, NEW s \in sent
    PROVE  ~\A t \in sent : Before(s[1], t[1])
  BY KeyPair, BeforeIsTotal DEF AckInv, SentOK, Sent

\* A record marked acknowledged, and every byte sent below the horizon, is at
\* the peer, whatever the sizes of the repeats and the order of the reports.
THEOREM AcksAreTrue == AckSpec => []AckedMeansReceived
<1>1. AckInv => AckedMeansReceived
  <2> SUFFICES ASSUME AckInv PROVE AckedMeansReceived
    OBVIOUS
  <2>1. \A das \in datagram_ack_tree : das.is_acked => UnitsOf(das) \subseteq received
    BY DEF AckInv, RecordsOK
  <2>2. ASSUME NEW s \in sent, NEW b \in Bytes(s[2].offset, s[2].data_length),
               BelowHorizon(s[1], b)
        PROVE  <<s[1], b>> \in received
    <3>1. s[1] \in Key /\ s[2] \in Pieces[s[1]]
      BY DEF AckInv, SentOK, Sent
    <3>2. /\ s[2].offset \in Nat /\ s[2].data_length \in Nat /\ ObjectLength[s[1]] \in Nat
          /\ s[2].offset + s[2].data_length <= ObjectLength[s[1]]
      BY <3>1, PieceShape
    <3>3. b \in Nat /\ s[2].offset <= b /\ b < s[2].offset + s[2].data_length
      BY <3>2 DEF Bytes
    <3>4. b \in Units(0, ObjectLength[s[1]])
      BY <3>2, <3>3, UnitMember
    <3>5. Passed(s[1], b)
      BY <2>2 DEF BelowHorizon, Passed
    <3>6. QED
      BY <3>1, <3>4, <3>5, SentNotOlder DEF AckInv, PassedOK
  <2>3. QED
    BY <2>1, <2>2 DEF AckedMeansReceived
<1>2. QED
  BY <1>1, AckInvariantHolds, PTL

\* The bytes of every transmission that are not below the horizon each have one
\* record, none of which reaches across the end of the transmission: the walk of
\* quicrq_datagram_handle_ack over the tree ends with the datagram.
THEOREM RecordsTileFlight == AckSpec => []RecordsTile
<1>1. AckInv => RecordsTile
  <2> SUFFICES ASSUME AckInv, pc # "closed", NEW d \in in_flight, NEW b \in AboveHorizon(d)
               PROVE  LET at == {das \in datagram_ack_tree :
                                   das.key = d.key /\ b \in Bytes(das.offset, das.length)}
                      IN /\ Cardinality(at) = 1
                         /\ \A das \in at : das.offset + das.length <= AckEnd(d)
    BY DEF RecordsTile
  <2>1. /\ d.key \in Key /\ d.offset \in Nat /\ d.length \in Nat /\ FragmentOK(d)
        /\ ObjectLength[d.key] \in Nat /\ d.offset + d.length <= ObjectLength[d.key]
    BY FlightFacts, FragmentFacts DEF FragmentOK
  <2>2. b \in Nat /\ d.offset <= b /\ b < d.offset + d.length /\ ~BelowHorizon(d.key, b)
    BY <2>1 DEF AboveHorizon, Bytes
  <2>3. b \in Units(d.offset, d.length) /\ b \in Units(0, ObjectLength[d.key])
    BY <2>1, <2>2, UnitMember
  <2>4. IsSent(d.key, b)
    BY <2>1, <2>3 DEF FragmentOK
  <2>5. ~Passed(d.key, b)
    <3> SUFFICES ASSUME d.key = HorizonKey, horizon_is_last_fragment PROVE FALSE
      BY <2>2 DEF Passed, BelowHorizon
    <3>1. horizon # <<-1, -1, -1>>
      <4> SUFFICES ASSUME horizon = <<-1, -1, -1>> PROVE FALSE
        OBVIOUS
      <4>1. HorizonKey[1] = -1
        BY DEF HorizonKey
      <4>2. QED
        BY <2>1, <4>1, KeyShape
    <3>2. horizon[3] \in 0..ObjectLength[d.key] /\ horizon[3] >= ObjectLength[d.key]
      BY <3>1 DEF AckInv, HorizonOK
    <3>3. b < horizon[3]
      BY <2>1, <2>2, <3>2
    <3>4. QED
      BY <2>2, <3>3 DEF BelowHorizon
  <2>6. PICK das \in datagram_ack_tree :
           das.key = d.key /\ b \in Units(das.offset, das.length)
    BY <2>1, <2>3, <2>4, <2>5 DEF AckInv, CoverOK
  <2>7. \A e \in datagram_ack_tree : e.key = d.key =>
           (b \in Bytes(e.offset, e.length) <=> b \in Units(e.offset, e.length))
    <3> SUFFICES ASSUME NEW e \in datagram_ack_tree, e.key = d.key
                 PROVE  b \in Bytes(e.offset, e.length) <=> b \in Units(e.offset, e.length)
      OBVIOUS
    <3>1. e.length \in Nat /\ e.offset \in Nat /\ (e.length = 0 => ObjectLength[d.key] = 0)
      BY TreeFacts DEF FragmentOK
    <3>2. e.length # 0
      BY <2>1, <2>2, <3>1
    <3>3. QED
      BY <3>2 DEF Units
  <2>8. {e \in datagram_ack_tree : e.key = d.key /\ b \in Bytes(e.offset, e.length)} = {das}
    BY <2>6, <2>7 DEF AckInv, Disjoint, Meet
  <2>9. das.offset + das.length <= AckEnd(d)
    BY <2>3, <2>6 DEF AckInv, Aligned, Meet
  <2>10. QED
    BY <2>8, <2>9, FS_Singleton
<1>2. QED
  BY <1>1, AckInvariantHolds, PTL

\* No repeat, after a loss or as an extra copy, is cut at the start of another
\* record: quicrq_datagram_handle_repeat never stops half way.
THEOREM RepeatsNeverCollide == AckSpec => []NeverCollides
<1>1. AckInv => NeverCollides
  <2> SUFFICES ASSUME AckInv PROVE NeverCollides
    OBVIOUS
  <2>1. ASSUME NEW d \in in_flight, ~d.lost, NEW das \in ToRepeat(d)
        PROVE  Recut(das, d.length) = Chunks(das.offset, d.length)
    BY <2>1, LostIsLatest, NoCollision
  <2>2. ASSUME NEW k, NEW o, NEW das \in AckFind(k, o)
        PROVE  Recut(das, das.length) = Chunks(das.offset, das.length)
    BY NoCollision DEF AckFind
  <2>3. QED
    BY <2>1, <2>2 DEF NeverCollides
<1>2. QED
  BY <1>1, AckInvariantHolds, PTL

\* When the objects without bytes are placeholders, every unit that was sent and
\* that the peer lacks is in a transmission not yet declared lost: the sender
\* never forgets a fragment that is still to be repaired.
THEOREM RepairNeverForgotten ==
    ASSUME \A k \in Key : ObjectLength[k] = 0 => k \in Placeholders
    PROVE  AckSpec => []RepairPending
<1>1. AckInv => RepairPending
  <2> SUFFICES ASSUME AckInv, pc # "closed", NEW s \in sent,
                      NEW b \in Units(s[2].offset, s[2].data_length),
                      <<s[1], b>> \notin received
               PROVE  \E d \in in_flight : ~d.lost /\ <<s[1], b>> \in UnitsOf(d)
    BY DEF RepairPending
  <2>1. s[1] \in Key /\ s[2] \in Pieces[s[1]]
    BY DEF AckInv, SentOK, Sent
  <2>2. /\ s[2].offset \in Nat /\ s[2].data_length \in Nat /\ ObjectLength[s[1]] \in Nat
        /\ s[2].offset + s[2].data_length <= ObjectLength[s[1]]
        /\ s[2].data_length = 0 => ObjectLength[s[1]] = 0
    BY <2>1, PieceShape
  <2>3. IF s[2].data_length = 0 THEN b = 0
        ELSE b \in Nat /\ s[2].offset <= b /\ b < s[2].offset + s[2].data_length
    BY <2>2, UnitMember
  <2>4. b \in Units(0, ObjectLength[s[1]])
    BY <2>2, <2>3, UnitMember
  <2>5. IsSent(s[1], b)
    BY DEF IsSent
  <2>6. ~Passed(s[1], b)
    BY <2>1, <2>4, SentNotOlder DEF AckInv, PassedOK
  <2>7. PICK das \in datagram_ack_tree : das.key = s[1] /\ b \in Units(das.offset, das.length)
    BY <2>1, <2>4, <2>5, <2>6 DEF AckInv, CoverOK
  <2>8. ~(UnitsOf(das) \subseteq received)
    BY <2>7 DEF UnitsOf
  <2>9. Repeatable(das.key, das.length)
    BY TreeFacts DEF Repeatable, FragmentOK
  <2>10. PICK d \in in_flight : ~d.lost /\ SameStart(d, das) /\ d.rank = das.last_sent
    BY <2>8, <2>9 DEF AckInv, PendingOK
  <2>11. d.key = das.key /\ d.offset = das.offset /\ d.length = das.length
    BY <2>10 DEF AckInv, RanksOK, SameStart
  <2>12. QED
    BY <2>7, <2>10, <2>11 DEF UnitsOf
<1>2. QED
  BY <1>1, AckInvariantHolds, PTL
=============================================================================
