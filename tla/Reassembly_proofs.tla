-------------------------- MODULE Reassembly_proofs -------------------------
(* Theorems about Reassembly, for every media and every start point.       *)
EXTENDS Reassembly, Media_proofs

----------------------------------------------------------------------------
\* A fragment announces one of the lengths of its object, and stays within
\* the length of the object.
LEMMA FragmentShape ==
    ASSUME NEW k \in Key, NEW f \in Fragments(k)
    PROVE  /\ f.offset \in Nat /\ f.data_length \in Nat
           /\ f.object_length \in Nat
           /\ f.object_length \in {ObjectLength[k]} \cup OtherLengths[k]
           /\ f.offset + f.data_length <= f.object_length
           /\ f.data_length = 0 => f.offset = 0
<1>1. ObjectLength[k] \in Nat /\ OtherLengths[k] \subseteq Nat
  BY MediaAssumption, PlaceholderAssumption
<1>2. QED
  BY <1>1 DEF Fragments

----------------------------------------------------------------------------
(* Counting the bytes of an object is enough to know that it is complete:  *)
(* the checks of quicrq_reassembly_object_reassemble never fail.           *)
LEMMA CompleteIsWhole ==
    ASSUME NEW k \in Key, NEW obj \in ObjectRecord,
           ObjectOK(k, obj), IsComplete(obj)
    PROVE  CanReassemble(obj)
<1> DEFINE n == obj.object_length
<1>1. n \in Nat /\ obj.bytes \subseteq 0..(n - 1)
  BY DEF ObjectRecord, ObjectOK, Bytes
<1>2. IsFiniteSet(0..(n - 1)) /\ Cardinality(0..(n - 1)) = n
  <2>1. 0 \in Int /\ n - 1 \in Int
    BY <1>1
  <2>2. /\ IsFiniteSet(0..(n - 1))
        /\ Cardinality(0..(n - 1)) = IF 0 > n - 1 THEN 0 ELSE (n - 1) - 0 + 1
    BY <2>1, FS_Interval
  <2>3. QED
    BY <1>1, <2>2
<1>3. /\ IsFiniteSet(obj.bytes)
      /\ Cardinality(obj.bytes) <= Cardinality(0..(n - 1))
      /\ Cardinality(0..(n - 1)) = Cardinality(obj.bytes) => 0..(n - 1) = obj.bytes
  BY <1>1, <1>2, FS_Subset
<1>4. Cardinality(obj.bytes) \in Nat
  BY <1>3, FS_CardinalityType
<1>5. Cardinality(obj.bytes) = n
  BY <1>1, <1>2, <1>3, <1>4 DEF IsComplete
<1>6. QED
  BY <1>1, <1>2, <1>3, <1>5 DEF CanReassemble, Bytes

\* The record after a fragment is sound, when its lengths agree.
LEMMA StoredSound ==
    ASSUME TypeOK, ProgressInv, NEW k \in Sent, NEW f \in Fragments(k),
           LengthAgrees(k, f)
    PROVE  /\ Stored(k, f) \in ObjectRecord
           /\ ObjectOK(k, Stored(k, f))
           /\ Stored(k, f).reassembled <=> Waiting(k)
           /\ Waiting(k) => /\ Stored(k, f).is_last_received
                            /\ IsComplete(Stored(k, f))
<1> DEFINE old == FoundOrCreated(k, f)
           new == Stored(k, f)
<1>1. /\ k \in Key /\ k[1] \in Nat /\ k[2] \in Nat
      /\ NbPrevious(k) \in Nat
  <2>1. k \in Key
    BY DEF Sent
  <2>2. k[1] \in Group /\ k[1] \in Nat /\ k[2] \in Nat
    BY <2>1, KeyShape
  <2>3. k[1] > 0 => k[1] - 1 \in Group
    BY <2>2, MediaAssumption DEF Group
  <2>4. QED
    BY <2>1, <2>2, <2>3, MediaAssumption DEF NbPrevious
<1>2. /\ f.offset \in Nat /\ f.data_length \in Nat /\ f.object_length \in Nat
      /\ f.object_length \in {ObjectLength[k]} \cup OtherLengths[k]
      /\ f.offset + f.data_length <= f.object_length
      /\ f.data_length = 0 => f.offset = 0
  BY <1>1, FragmentShape
<1>3. /\ old \in ObjectRecord
      /\ old.object_length \in {ObjectLength[k]} \cup OtherLengths[k]
      /\ old.bytes \subseteq Bytes(0, old.object_length)
      /\ old.reassembled => old.is_last_received /\ CanReassemble(old)
      /\ k[2] = 0 /\ 0 \in old.bytes
           => old.nb_objects_previous_group = NbPrevious(k)
      /\ old.reassembled <=> Waiting(k)
  <2>1. CASE k \in object_tree
    BY <1>1, <2>1 DEF FoundOrCreated, TypeOK, ProgressInv, TreeOK, ObjectOK, Waiting
  <2>2. CASE k \notin object_tree
    <3>1. old = [object_length |-> f.object_length, nb_objects_previous_group |-> 0,
                 is_last_received |-> FALSE, bytes |-> {}, reassembled |-> FALSE]
      BY <2>2 DEF FoundOrCreated, NewObject
    <3>2. QED
      BY <1>2, <2>2, <3>1 DEF ObjectRecord, Waiting
  <2>3. QED
    BY <2>1, <2>2
<1>4. /\ new.object_length = old.object_length
      /\ new.nb_objects_previous_group =
           IF k[2] = 0 /\ f.offset = 0 THEN NbPrevious(k)
           ELSE old.nb_objects_previous_group
      /\ new.is_last_received =
           (old.is_last_received \/ f.offset + f.data_length >= old.object_length)
      /\ new.bytes = old.bytes \cup Bytes(f.offset, f.data_length)
      /\ new.reassembled = old.reassembled
  BY <1>3 DEF Stored, HeaderRead, ObjectRecord
<1>5. Bytes(f.offset, f.data_length) \subseteq Nat
  BY <1>2 DEF Bytes
<1>6. new \in ObjectRecord
  BY <1>1, <1>2, <1>3, <1>5 DEF ObjectRecord, Stored, HeaderRead
<1>7. f.offset + f.data_length <= old.object_length /\ old.object_length \in Nat
  BY <1>2, <1>3 DEF LengthAgrees, ObjectRecord
<1>8. new.bytes \subseteq Bytes(0, new.object_length)
  BY <1>2, <1>3, <1>4, <1>7 DEF Bytes
<1>9. new.reassembled => new.is_last_received /\ new.bytes = Bytes(0, new.object_length)
  BY <1>3, <1>4, <1>8 DEF CanReassemble
<1>10. k[2] = 0 /\ (new.object_length = 0 \/ 0 \in new.bytes)
        => new.nb_objects_previous_group = NbPrevious(k)
  <2>1. 0 \in Bytes(f.offset, f.data_length) => f.offset = 0
    BY <1>2 DEF Bytes
  <2>2. old.object_length = 0 => f.offset = 0
    BY <1>2, <1>7
  <2>3. QED
    BY <1>3, <1>4, <2>1, <2>2
<1>11. ObjectOK(k, new)
  BY <1>3, <1>4, <1>8, <1>9, <1>10 DEF ObjectOK, CanReassemble
<1>12. ASSUME Waiting(k)
       PROVE  IsComplete(new)
  <2>0. new.is_last_received /\ new.bytes = Bytes(0, new.object_length)
    BY <1>3, <1>4, <1>9, <1>12
  <2>1. new.is_last_received /\ new.bytes = 0..(new.object_length - 1)
    BY <1>6, <2>0 DEF Bytes, ObjectRecord
  <2>2. Cardinality(0..(new.object_length - 1)) = new.object_length
    <3>1. new.object_length \in Nat
      BY <1>6 DEF ObjectRecord
    <3>2. Cardinality(0..(new.object_length - 1)) =
            IF 0 > new.object_length - 1 THEN 0
            ELSE (new.object_length - 1) - 0 + 1
      BY <3>1, FS_Interval
    <3>3. QED
      BY <3>1, <3>2
  <2>3. QED
    BY <2>1, <2>2, <1>6 DEF IsComplete, ObjectRecord
<1>13. QED
  BY <1>3, <1>4, <1>6, <1>9, <1>11, <1>12

----------------------------------------------------------------------------
(* Type correctness.                                                       *)

LEMMA CallReadyType ==
    ASSUME ready \in [Key -> [Mode -> Nat]], NEW k \in Key, NEW m \in Mode,
           CallReady(k, m)
    PROVE  ready' \in [Key -> [Mode -> Nat]]
  BY DEF CallReady

\* Records with fields of the right types.
LEMMA RecordTypes ==
    /\ NewObject \in ObjectRecord
    /\ \A obj \in ObjectRecord, b \in BOOLEAN :
         [obj EXCEPT !.reassembled = b] \in ObjectRecord
  BY DEF NewObject, ObjectRecord

\* The record of a fragment has the fields' types, whatever the lengths.
LEMMA RecordOfFragment ==
    ASSUME TypeOK, NEW k \in Sent, NEW f \in Fragments(k)
    PROVE  HeaderRead(k, f) \in ObjectRecord /\ Stored(k, f) \in ObjectRecord
<1>1. k \in Key /\ NbPrevious(k) \in Nat
  <2>1. k \in Key
    BY DEF Sent
  <2>2. k[1] \in Group /\ k[1] \in Nat /\ k[2] \in Nat
    BY <2>1, KeyShape
  <2>3. k[1] > 0 => k[1] - 1 \in Group
    BY <2>2, MediaAssumption DEF Group
  <2>4. QED
    BY <2>1, <2>2, <2>3, MediaAssumption DEF NbPrevious
<1>2. f.offset \in Nat /\ f.data_length \in Nat /\ f.object_length \in Nat
  BY <1>1, FragmentShape
<1>3. FoundOrCreated(k, f) \in ObjectRecord
  BY <1>1, <1>2 DEF FoundOrCreated, TypeOK, NewObject, ObjectRecord
<1>4. HeaderRead(k, f) \in ObjectRecord
  BY <1>1, <1>2, <1>3 DEF HeaderRead, ObjectRecord
<1>5. Bytes(f.offset, f.data_length) \subseteq Nat
  BY <1>2 DEF Bytes
<1>6. QED
  BY <1>4, <1>5 DEF Stored, ObjectRecord

LEMMA TypeStep == TypeOK /\ [Next]_vars => TypeOK'
<1> SUFFICES ASSUME TypeOK, [Next]_vars PROVE TypeOK'
  OBVIOUS
<1>1. ASSUME NEW k \in Sent, NEW f \in Fragments(k), Input(k, f)
      PROVE  TypeOK'
  <2>1. k \in Key /\ k[1] \in Nat /\ k[2] \in Nat /\ Mode = {"in_sequence", "peek", "repair"}
    BY KeyShape DEF Sent, Mode
  <2>2. HeaderRead(k, f) \in ObjectRecord /\ Stored(k, f) \in ObjectRecord
    BY RecordOfFragment
  <2>3. [Stored(k, f) EXCEPT !.reassembled = CanReassemble(Stored(k, f))] \in ObjectRecord
    BY <2>2, RecordTypes DEF CanReassemble
  <2>4. NextPointAt(k, Stored(k, f))[1] \in Nat /\ NextPointAt(k, Stored(k, f))[2] \in Nat
    BY <2>1 DEF NextPointAt, NextPoint, TypeOK
  <2>5. CASE InputIgnored(k, f)
    BY <2>5 DEF InputIgnored, TypeOK, vars
  <2>6. CASE InputRejected(k, f)
    BY <2>1, <2>2, <2>6 DEF InputRejected, SetObject, UnchangedFinal, TypeOK
  <2>7. CASE InputPartial(k, f)
    BY <2>1, <2>2, <2>7 DEF InputPartial, SetObject, UnchangedFinal, TypeOK
  <2>8. CASE InputRepeated(k, f)
    BY <2>1, <2>2, <2>4, <2>8 DEF InputRepeated, SetObject, SetNext, UnchangedFinal, TypeOK
  <2>9. CASE InputPeek(k, f)
    <3>1. ready' \in [Key -> [Mode -> Nat]]
      BY <2>1, <2>9, CallReadyType DEF InputPeek, TypeOK
    <3>2. pc' \in {"idle", "failed"}
      BY <2>9 DEF InputPeek
    <3>3. QED
      BY <2>1, <2>3, <2>9, <3>1, <3>2 DEF InputPeek, SetObject, UnchangedFinal, TypeOK
  <2>10. CASE InputInSequence(k, f)
    <3>1. ready' \in [Key -> [Mode -> Nat]]
      BY <2>1, <2>10, CallReadyType DEF InputInSequence, TypeOK
    <3>2. object_tree' \in SUBSET Key /\ object' \in [Key -> ObjectRecord]
      BY <2>1, <2>3, <2>10, RecordTypes
      DEF InputInSequence, SetObject, DeleteObject, TypeOK
    <3>3. /\ next_group_id' \in Nat /\ next_object_id' \in Nat
          /\ pc' \in {"update", "failed"}
      BY <2>1, <2>10 DEF InputInSequence, SetNext
    <3>4. QED
      BY <2>10, <3>1, <3>2, <3>3 DEF InputInSequence, UnchangedFinal, TypeOK
  <2>11. QED
    BY <1>1, <2>5, <2>6, <2>7, <2>8, <2>9, <2>10 DEF Input
<1>2. CASE UpdateDeliver
  <2>1. PICK k \in object_tree :
          /\ CallReady(k, "repair")
          /\ DeleteObject(k)
          /\ SetNext(<<k[1], k[2] + 1>>)
    BY <1>2 DEF UpdateDeliver
  <2>2. k \in Key /\ k[1] \in Nat /\ k[2] \in Nat /\ "repair" \in Mode
    BY KeyShape DEF TypeOK, Mode
  <2>3. ready' \in [Key -> [Mode -> Nat]]
    BY <2>1, <2>2, CallReadyType DEF TypeOK
  <2>4. pc' \in {"update", "failed"} /\ is_finished' \in BOOLEAN
    BY <1>2 DEF UpdateDeliver, TypeOK, ReachedFinal
  <2>5. object' \in [Key -> ObjectRecord] /\ object_tree' \in SUBSET Key
    BY <2>1, RecordTypes DEF DeleteObject, TypeOK
  <2>6. UNCHANGED <<final_group_id, final_object_id>>
    BY <1>2 DEF UpdateDeliver
  <2>7. QED
    BY <2>1, <2>2, <2>3, <2>4, <2>5, <2>6 DEF SetNext, TypeOK
<1>3. CASE UpdateDone
  <2>1. is_finished' \in BOOLEAN
    BY <1>3 DEF UpdateDone, TypeOK, ReachedFinal
  <2>2. QED
    BY <1>3, <2>1 DEF UpdateDone, TypeOK
<1>4. CASE LearnStartPoint
  BY <1>4, StartShape DEF LearnStartPoint, SetNext, UnchangedFinal, TypeOK
<1>5. CASE LearnFinalObjectId
  <2>1. is_finished' \in BOOLEAN
    BY <1>5 DEF LearnFinalObjectId, TypeOK, Before
  <2>2. QED
    BY <1>5, <2>1, FinalShape DEF LearnFinalObjectId, TypeOK
<1>6. CASE Release
  <2>1. object' \in [Key -> ObjectRecord] /\ object_tree' \in SUBSET Key
    BY <1>6, RecordTypes DEF Release
  <2>2. QED
    BY <1>6, <2>1 DEF Release, SetNext, TypeOK
<1>7. CASE UNCHANGED vars
  BY <1>7 DEF vars, TypeOK
<1>8. QED
  BY <1>1, <1>2, <1>3, <1>4, <1>5, <1>6, <1>7 DEF Next, InputAny

LEMMA TypeInit == Init => TypeOK
<1> SUFFICES ASSUME Init PROVE TypeOK
  OBVIOUS
<1>1. object \in [Key -> ObjectRecord]
  BY RecordTypes DEF Init
<1>2. ready \in [Key -> [Mode -> Nat]]
  BY DEF Init
<1>3. QED
  BY <1>1, <1>2 DEF Init, TypeOK

\* The context of lib/reassembly.c stays well formed: the tree holds objects
\* of the media, the counters stay in range, whatever the network delivers.
THEOREM TypeCorrect == Spec => []TypeOK
<1>1. QED
  BY TypeInit, TypeStep, PTL DEF Spec

----------------------------------------------------------------------------
(* What the calls, the next point and the waiting objects tell.            *)

\* The calls r agree with a next point <<p1, p2>> and the waiting objects W.
CallsAgree(r, p1, p2, W) ==
    \A k \in Key :
      /\ r[k]["in_sequence"] + r[k]["repair"] =
           IF k \in Sent /\ Before(k, <<p1, p2>>) THEN 1 ELSE 0
      /\ r[k]["in_sequence"] + r[k]["peek"] =
           IF (k \in Sent /\ Before(k, <<p1, p2>>)) \/ k \in W THEN 1 ELSE 0

\* The calls r have the delivery properties.
CallsDeliver(r) ==
    /\ \A k \in Key : /\ r[k]["in_sequence"] + r[k]["repair"] <= 1
                      /\ r[k]["in_sequence"] + r[k]["peek"] <= 1
                      /\ r[k]["repair"] <= r[k]["peek"]
    /\ \A j, k \in Sent :
         Before(j, k) /\ r[k]["in_sequence"] + r[k]["repair"] > 0
           => r[j]["in_sequence"] + r[j]["repair"] > 0

CallsComplete(r) == \A k \in Sent : r[k]["in_sequence"] + r[k]["repair"] = 1

LEMMA CallsGiveDelivery ==
    ASSUME NEW r \in [Key -> [Mode -> Nat]], NEW p1 \in Nat, NEW p2 \in Nat,
           NEW W, CallsAgree(r, p1, p2, W)
    PROVE  /\ CallsDeliver(r)
           /\ p1 = LastGroup /\ p2 = NbObjects[LastGroup] => CallsComplete(r)
<1> USE DEF CallsAgree
<1>1. \A k \in Key : /\ r[k]["in_sequence"] \in Nat
                     /\ r[k]["repair"] \in Nat /\ r[k]["peek"] \in Nat
  BY DEF Mode
<1>2. \A k \in Key : /\ r[k]["in_sequence"] + r[k]["repair"] <= 1
                     /\ r[k]["in_sequence"] + r[k]["peek"] <= 1
                     /\ r[k]["repair"] <= r[k]["peek"]
  BY <1>1
<1>3. \A j, k \in Sent : Before(j, k) /\ Before(k, <<p1, p2>>) => Before(j, <<p1, p2>>)
  BY KeyShape DEF Sent, Before
<1>4. ASSUME NEW j \in Sent, NEW k \in Sent, Before(j, k),
             r[k]["in_sequence"] + r[k]["repair"] > 0
      PROVE  r[j]["in_sequence"] + r[j]["repair"] > 0
  <2>1. j \in Key /\ k \in Key
    BY DEF Sent
  <2>2. Before(k, <<p1, p2>>)
    <3>1. r[k]["in_sequence"] + r[k]["repair"] # 0
      BY <1>1, <1>4, <2>1
    <3>2. QED
      BY <2>1, <3>1
  <2>3. Before(j, <<p1, p2>>)
    BY <1>3, <1>4, <2>2
  <2>4. QED
    BY <2>1, <2>3
<1>5. ASSUME p1 = LastGroup, p2 = NbObjects[LastGroup], NEW k \in Sent
      PROVE  r[k]["in_sequence"] + r[k]["repair"] = 1
  <2>1. k \in Key /\ k[1] \in Nat /\ k[2] \in Nat /\ k[1] \in Group /\ k[2] < NbObjects[k[1]]
    BY KeyShape DEF Sent
  <2>2. Before(k, <<p1, p2>>)
    BY <1>5, <2>1, FinalShape DEF Before, Group
  <2>3. QED
    BY <2>1, <2>2
<1>6. QED
  BY <1>2, <1>4, <1>5 DEF CallsDeliver, CallsComplete

LEMMA ProgressGivesDelivery == TypeOK /\ ProgressInv => DeliveryInv
<1> SUFFICES ASSUME TypeOK, ProgressInv PROVE DeliveryInv
  OBVIOUS
<1> DEFINE W == {k \in Key : Waiting(k)}
<1>1. /\ ready \in [Key -> [Mode -> Nat]]
      /\ next_group_id \in Nat /\ next_object_id \in Nat
  BY DEF TypeOK
<1>2. CallsAgree(ready, next_group_id, next_object_id, W)
  BY DEF CallsAgree, ProgressInv, CallsOK, InOrderCalls, AnyOrderCalls, Passed, NextPoint
<1>3. is_finished => next_group_id = LastGroup /\ next_object_id = NbObjects[LastGroup]
  BY FinalShape DEF ProgressInv, FinalOK, NextPoint
<1>4. CallsDeliver(ready) /\ (is_finished => CallsComplete(ready))
  BY <1>1, <1>2, <1>3, CallsGiveDelivery
<1>5. QED
  BY <1>4 DEF CallsDeliver, CallsComplete, DeliveryInv, AtMostOnce, InOrderPrefix,
              RepairWasPeeked, FinishedMeansAll, InOrderCalls, AnyOrderCalls

----------------------------------------------------------------------------
(* Which object comes next.                                                *)

\* Object k follows all the objects delivered in order so far.
Follows(k) ==
    \/ k = NextPoint
    \/ k = NextGroupStart /\ next_object_id = NbObjects[next_group_id]

\* A complete first object of a group tells the size of the previous one.
LEMMA CompleteTellsCount ==
    ASSUME NEW k \in Key, NEW obj \in ObjectRecord, ObjectOK(k, obj),
           CanReassemble(obj), k[2] = 0, k[1] > 0
    PROVE  obj.nb_objects_previous_group = NbObjects[k[1] - 1]
<1>1. obj.object_length \in Nat /\ obj.bytes = 0..(obj.object_length - 1)
  BY DEF ObjectRecord, CanReassemble, Bytes
<1>2. obj.object_length = 0 \/ 0 \in obj.bytes
  BY <1>1
<1>3. QED
  BY <1>2 DEF ObjectOK, NbPrevious

\* The test of update_start_point finds an object that follows ...
LEMMA InOrderFollows ==
    ASSUME TypeOK, ProgressInv, NEW k \in object_tree, InOrder(k)
    PROVE  Follows(k)
<1>1. k \in Key /\ object[k] \in ObjectRecord /\ ObjectOK(k, object[k])
  BY DEF TypeOK, ProgressInv, TreeOK
<1>2. CanReassemble(object[k])
  BY <1>1 DEF InOrder, ObjectOK
<1>3. CASE k = NextPoint
  BY <1>3 DEF Follows
<1>4. CASE k # NextPoint
  <2>1. k = <<next_group_id + 1, 0>> /\ object[k].nb_objects_previous_group = next_object_id
    BY <1>4 DEF InOrder, NextGroupStart
  <2>2. next_group_id \in Nat
    BY DEF TypeOK
  <2>3. k[1] = next_group_id + 1 /\ k[2] = 0 /\ k[1] > 0 /\ k[1] - 1 = next_group_id
    BY <2>1, <2>2
  <2>4. object[k].nb_objects_previous_group = NbObjects[next_group_id]
    BY <1>1, <1>2, <2>3, CompleteTellsCount
  <2>5. QED
    BY <2>1, <2>4 DEF Follows, NextGroupStart
<1>5. QED
  BY <1>3, <1>4

\* ... and so does the test of quicrq_reassembly_input.
LEMMA EntersGroupFollows ==
    ASSUME TypeOK, ProgressInv, NEW k \in Key, NEW obj \in ObjectRecord,
           ObjectOK(k, obj), CanReassemble(obj), EntersGroup(k, obj)
    PROVE  /\ k = NextGroupStart /\ next_object_id = NbObjects[next_group_id]
           /\ obj.nb_objects_previous_group = next_object_id
<1>1. next_group_id \in Nat /\ next_object_id \in Nat /\ next_group_id \in Group
      /\ next_object_id <= NbObjects[next_group_id] /\ NbObjects[next_group_id] \in Nat
  BY MediaAssumption DEF TypeOK, ProgressInv, NextPointOK
<1>2. k = <<k[1], k[2]>> /\ k[1] = next_group_id + 1 /\ k[2] = 0
  BY KeyShape DEF EntersGroup
<1>3. k[1] > 0 /\ k[1] - 1 = next_group_id
  BY <1>1, <1>2
<1>4. obj.nb_objects_previous_group = NbObjects[next_group_id]
  BY <1>2, <1>3, CompleteTellsCount
<1>5. QED
  BY <1>1, <1>2, <1>4 DEF EntersGroup, NextGroupStart

\* Past the object that follows, the objects passed are that one and those
\* passed before.
LEMMA Advance ==
    ASSUME TypeOK, NextPointOK, NEW k \in Sent, Follows(k)
    PROVE  /\ \A j \in Key : Before(j, <<k[1], k[2] + 1>>) <=> Before(j, NextPoint) \/ j = k
           /\ ~Before(k, NextPoint)
           /\ k[1] \in Group /\ k[2] + 1 <= NbObjects[k[1]]
           /\ ~Before(<<k[1], k[2] + 1>>, StartPoint)
           /\ NextPoint # FinalPoint
<1>1. /\ k \in Key /\ k = <<k[1], k[2]>> /\ k[1] \in Nat /\ k[2] \in Nat
      /\ k[1] \in Group /\ k[2] < NbObjects[k[1]] /\ NbObjects[k[1]] \in Nat
  BY KeyShape DEF Sent
<1>2. /\ next_group_id \in Nat /\ next_object_id \in Nat /\ next_group_id \in Group
      /\ next_object_id <= NbObjects[next_group_id] /\ NbObjects[next_group_id] \in Nat
  BY MediaAssumption DEF TypeOK, NextPointOK
<1>3. \/ k[1] = next_group_id /\ k[2] = next_object_id
      \/ k[1] = next_group_id + 1 /\ k[2] = 0 /\ next_object_id = NbObjects[next_group_id]
  BY <1>1 DEF Follows, NextPoint, NextGroupStart
<1>4. ASSUME NEW j \in Key
      PROVE  Before(j, <<k[1], k[2] + 1>>) <=> Before(j, NextPoint) \/ j = k
  <2>1. /\ j = <<j[1], j[2]>> /\ j[1] \in Nat /\ j[2] \in Nat
        /\ j[2] < NbObjects[j[1]] /\ NbObjects[j[1]] \in Nat
    BY KeyShape
  <2>2. CASE k[1] = next_group_id /\ k[2] = next_object_id
    BY <1>1, <1>2, <2>1, <2>2 DEF Before, NextPoint
  <2>3. CASE k[1] = next_group_id + 1 /\ k[2] = 0 /\ next_object_id = NbObjects[next_group_id]
    BY <1>1, <1>2, <2>1, <2>3 DEF Before, NextPoint
  <2>4. QED
    BY <1>3, <2>2, <2>3
<1>5. ~Before(k, NextPoint)
  BY <1>1, <1>2, <1>3 DEF Before, NextPoint
<1>6. k[2] + 1 <= NbObjects[k[1]]
  BY <1>1
<1>7. ~Before(<<k[1], k[2] + 1>>, StartPoint)
  BY <1>1, StartShape DEF Sent, Before
<1>8. NextPoint # FinalPoint
  BY <1>1, <1>2, <1>3, FinalShape DEF NextPoint, Group
<1>9. QED
  BY <1>1, <1>4, <1>5, <1>6, <1>7, <1>8

----------------------------------------------------------------------------
(* The invariant, action by action.                                        *)

\* The context of one input: what is known of the object and its record.
LEMMA InputFacts ==
    ASSUME TypeOK, ProgressInv, NEW k \in Sent, NEW f \in Fragments(k),
           LengthAgrees(k, f), NEW obj, obj = Stored(k, f)
    PROVE  /\ k \in Key /\ k = <<k[1], k[2]>> /\ k[1] \in Nat /\ k[2] \in Nat
           /\ obj \in ObjectRecord /\ ObjectOK(k, obj)
           /\ obj.reassembled <=> Waiting(k)
           /\ Waiting(k) => IsComplete(obj)
           /\ IsComplete(obj) => CanReassemble(obj)
<1>1. /\ Stored(k, f) \in ObjectRecord
      /\ ObjectOK(k, Stored(k, f))
      /\ Stored(k, f).reassembled <=> Waiting(k)
      /\ Waiting(k) => IsComplete(Stored(k, f))
  BY StoredSound
<1>2. k \in Key /\ k = <<k[1], k[2]>> /\ k[1] \in Nat /\ k[2] \in Nat
  BY KeyShape DEF Sent
<1>3. QED
  BY <1>1, <1>2, CompleteIsWhole

LEMMA PartialStep ==
    ASSUME TypeOK, ProgressInv, NoStall, NEW k \in Sent, NEW f \in Fragments(k),
           InputPartial(k, f)
    PROVE  ProgressInv' /\ NoStall'
<1> DEFINE obj == Stored(k, f)
<1>1. /\ k \in Key /\ obj \in ObjectRecord /\ ObjectOK(k, obj)
      /\ ~obj.reassembled /\ ~Waiting(k)
  BY InputFacts DEF InputPartial
<1> HIDE DEF obj
<1>2. /\ pc = "idle" /\ ~Before(k, NextPoint)
      /\ object_tree' = object_tree \cup {k}
      /\ object' = [object EXCEPT ![k] = obj]
      /\ UNCHANGED <<next_group_id, next_object_id, pc, ready>>
      /\ UNCHANGED <<final_group_id, final_object_id, is_finished>>
  BY DEF InputPartial, SetObject, UnchangedFinal, obj
<1>3. object'[k] = obj /\ \A j \in Key : j # k => object'[j] = object[j]
  BY <1>1, <1>2 DEF TypeOK
<1>4. \A j \in object_tree : j \in Key
  BY DEF TypeOK
<1>5. TreeOK'
  BY <1>1, <1>2, <1>3, <1>4 DEF ProgressInv, TreeOK, ObjectOK, CanReassemble, NextPoint
<1>6. NextPointOK' /\ FinalOK'
  BY <1>2 DEF ProgressInv, NextPointOK, FinalOK, NextPoint
<1>7. \A j \in Key : Waiting(j)' <=> Waiting(j)
  BY <1>1, <1>2, <1>3 DEF Waiting
<1>8. CallsOK'
  BY <1>2, <1>7 DEF ProgressInv, CallsOK, InOrderCalls, AnyOrderCalls, Passed, NextPoint
<1>9. NoStall'
  <2> SUFFICES ASSUME NEW j \in object_tree', InOrder(j)' PROVE FALSE
    BY DEF NoStall
  <2>1. j # k /\ j \in object_tree /\ object'[j] = object[j]
    BY <1>1, <1>2, <1>3, <1>4 DEF InOrder
  <2>2. InOrder(j)
    BY <1>2, <2>1 DEF InOrder, NextPoint, NextGroupStart
  <2>3. QED
    BY <1>2, <2>1, <2>2 DEF NoStall
<1>10. QED
  BY <1>5, <1>6, <1>8, <1>9 DEF ProgressInv

\* A repeat of a waiting object changes nothing that matters, because no
\* object in order is waiting.
LEMMA RepeatedStep ==
    ASSUME TypeOK, ProgressInv, NoStall, NEW k \in Sent, NEW f \in Fragments(k),
           InputRepeated(k, f)
    PROVE  /\ ProgressInv' /\ NoStall'
           /\ UNCHANGED <<next_group_id, next_object_id>>
<1> DEFINE obj == Stored(k, f)
<1>1. /\ k \in Key /\ k[1] \in Nat /\ k[2] \in Nat
      /\ obj \in ObjectRecord /\ ObjectOK(k, obj)
      /\ obj.reassembled /\ Waiting(k) /\ CanReassemble(obj)
  BY InputFacts DEF InputRepeated
<1>2. /\ pc = "idle" /\ ~Before(k, NextPoint)
      /\ object_tree' = object_tree \cup {k}
      /\ object' = [object EXCEPT ![k] = obj]
      /\ SetNext(NextPointAt(k, obj))
      /\ UNCHANGED <<pc, ready>>
      /\ UNCHANGED <<final_group_id, final_object_id, is_finished>>
  BY DEF InputRepeated, SetObject, UnchangedFinal
<1> HIDE DEF obj
<1>3. object'[k] = obj /\ \A j \in Key : j # k => object'[j] = object[j]
  BY <1>1, <1>2 DEF TypeOK
<1>4. \A j \in object_tree : j \in Key
  BY DEF TypeOK
<1>5. /\ k \in object_tree /\ object_tree' = object_tree
      /\ object[k] \in ObjectRecord /\ object[k].reassembled
      /\ ObjectOK(k, object[k]) /\ CanReassemble(object[k])
  BY <1>1, <1>2 DEF Waiting, ProgressInv, TreeOK, ObjectOK, TypeOK
<1>6. k[2] = 0 /\ k[1] > 0
        => object[k].nb_objects_previous_group = obj.nb_objects_previous_group
  BY <1>1, <1>5, CompleteTellsCount
<1>7. ~EntersGroup(k, obj)
  <2> SUFFICES ASSUME EntersGroup(k, obj) PROVE FALSE
    OBVIOUS
  <2>1. /\ k = NextGroupStart /\ next_object_id = NbObjects[next_group_id]
        /\ obj.nb_objects_previous_group = next_object_id
    BY <1>1, EntersGroupFollows
  <2>2. NextPoint \notin object_tree
    <3>1. NextPoint \notin Key
      BY <2>1, KeyMembers, MediaAssumption DEF NextPoint, TypeOK, ProgressInv, NextPointOK
    <3>2. QED
      BY <1>4, <3>1
  <2>3. k[2] = 0 /\ k[1] > 0
    BY <2>1 DEF NextGroupStart, TypeOK
  <2>4. InOrder(k)
    BY <1>5, <1>6, <2>1, <2>2, <2>3 DEF InOrder
  <2>5. QED
    BY <1>2, <1>5, <2>4 DEF NoStall
<1>8. UNCHANGED <<next_group_id, next_object_id>>
  BY <1>2, <1>7 DEF NextPointAt, SetNext, NextPoint
<1>9. TreeOK'
  BY <1>1, <1>2, <1>3, <1>4, <1>5, <1>8
  DEF ProgressInv, TreeOK, ObjectOK, CanReassemble, NextPoint
<1>10. NextPointOK' /\ FinalOK'
  BY <1>2, <1>8 DEF ProgressInv, NextPointOK, FinalOK, NextPoint
<1>11. \A j \in Key : Waiting(j)' <=> Waiting(j)
  BY <1>1, <1>3, <1>5 DEF Waiting
<1>12. CallsOK'
  BY <1>2, <1>8, <1>11 DEF ProgressInv, CallsOK, InOrderCalls, AnyOrderCalls, Passed, NextPoint
<1>13. NoStall'
  <2> SUFFICES ASSUME NEW j \in object_tree', InOrder(j)' PROVE FALSE
    BY DEF NoStall
  <2>1. j \in object_tree /\ j \in Key
    BY <1>4, <1>5
  <2>2. InOrder(j)
    <3>1. CASE j # k
      BY <1>3, <1>5, <1>8, <2>1, <3>1 DEF InOrder, NextPoint, NextGroupStart
    <3>2. CASE j = k /\ k = NextPoint
      BY <1>5, <3>2 DEF InOrder
    <3>3. CASE j = k /\ k # NextPoint
      <4>1. /\ NextPoint \notin object_tree /\ k = NextGroupStart
            /\ obj.nb_objects_previous_group = next_object_id
        BY <1>3, <1>5, <1>8, <3>3 DEF InOrder, NextPoint, NextGroupStart
      <4>2. k[2] = 0 /\ k[1] > 0
        BY <4>1 DEF NextGroupStart, TypeOK
      <4>3. QED
        BY <1>5, <1>6, <3>3, <4>1, <4>2 DEF InOrder
    <3>4. QED
      BY <3>1, <3>2, <3>3
  <2>3. QED
    BY <1>2, <2>1, <2>2 DEF NoStall
<1>14. QED
  BY <1>8, <1>9, <1>10, <1>12, <1>13 DEF ProgressInv

\* A peek leaves the next point alone, whatever ready_fn returns.
LEMMA PeekStep ==
    ASSUME TypeOK, ProgressInv, NoStall, NEW k \in Sent, NEW f \in Fragments(k),
           InputPeek(k, f)
    PROVE  ProgressInv' /\ NoStall'
<1> DEFINE obj == Stored(k, f)
           rec == [obj EXCEPT !.reassembled = TRUE]
<1>1. /\ k \in Key /\ k = <<k[1], k[2]>> /\ k[1] \in Nat /\ k[2] \in Nat
      /\ obj \in ObjectRecord /\ ObjectOK(k, obj)
      /\ ~obj.reassembled /\ ~Waiting(k) /\ IsComplete(obj) /\ CanReassemble(obj)
  BY InputFacts DEF InputPeek
<1>2. [obj EXCEPT !.reassembled = CanReassemble(obj)] = rec
  BY <1>1
<1>3. /\ pc = "idle" /\ ~Before(k, NextPoint)
      /\ NextPointAt(k, obj) # k
      /\ object_tree' = object_tree \cup {k}
      /\ object' = [object EXCEPT ![k] = rec]
      /\ ready' = [ready EXCEPT ![k]["peek"] = @ + 1]
      /\ UNCHANGED <<next_group_id, next_object_id>>
      /\ UNCHANGED <<final_group_id, final_object_id, is_finished>>
  BY <1>1, <1>2 DEF InputPeek, SetObject, CallReady, UnchangedFinal
<1> HIDE DEF obj
<1>4. /\ rec \in ObjectRecord /\ rec.reassembled
      /\ rec.object_length = obj.object_length /\ rec.bytes = obj.bytes
      /\ rec.is_last_received = obj.is_last_received
      /\ rec.nb_objects_previous_group = obj.nb_objects_previous_group
  BY <1>1 DEF ObjectRecord
<1>5. ObjectOK(k, rec)
  BY <1>1, <1>4 DEF ObjectOK, CanReassemble, IsComplete
<1> HIDE DEF rec
<1>6. object'[k] = rec /\ \A j \in Key : j # k => object'[j] = object[j]
  BY <1>1, <1>3 DEF TypeOK
<1>7. \A j \in object_tree : j \in Key
  BY DEF TypeOK
<1>8. TreeOK'
  BY <1>1, <1>3, <1>5, <1>6, <1>7 DEF ProgressInv, TreeOK, ObjectOK, CanReassemble, NextPoint
<1>9. NextPointOK' /\ FinalOK'
  BY <1>3 DEF ProgressInv, NextPointOK, FinalOK, NextPoint
<1>10. \A j \in Key : Waiting(j)' <=> Waiting(j) \/ j = k
  BY <1>1, <1>3, <1>4, <1>6 DEF Waiting
<1>11. CallsOK'
  <2> SUFFICES ASSUME NEW j \in Key
               PROVE  /\ InOrderCalls(j)' = IF Passed(j)' THEN 1 ELSE 0
                      /\ AnyOrderCalls(j)' = IF Passed(j)' \/ Waiting(j)' THEN 1 ELSE 0
    BY DEF CallsOK
  <2>1. Passed(j)' <=> Passed(j)
    BY <1>3 DEF Passed, NextPoint
  <2>2. /\ InOrderCalls(j) = IF Passed(j) THEN 1 ELSE 0
        /\ AnyOrderCalls(j) = IF Passed(j) \/ Waiting(j) THEN 1 ELSE 0
    BY DEF ProgressInv, CallsOK
  <2>3. /\ ready[j]["in_sequence"] \in Nat /\ ready[j]["peek"] \in Nat
        /\ ready[j]["repair"] \in Nat
    BY DEF TypeOK, Mode
  <2>4. CASE j # k
    BY <1>3, <1>10, <2>1, <2>2, <2>4 DEF InOrderCalls, AnyOrderCalls, TypeOK
  <2>5. CASE j = k
    <3>1. /\ ready'[k]["in_sequence"] = ready[k]["in_sequence"]
          /\ ready'[k]["repair"] = ready[k]["repair"]
          /\ ready'[k]["peek"] = ready[k]["peek"] + 1
      BY <1>1, <1>3 DEF TypeOK, Mode
    <3>2. ~Passed(k) /\ Waiting(k)'
      BY <1>1, <1>3, <1>10 DEF Passed
    <3>3. QED
      BY <1>1, <2>1, <2>2, <2>3, <2>5, <3>1, <3>2 DEF InOrderCalls, AnyOrderCalls
  <2>6. QED
    BY <2>4, <2>5
<1>12. NoStall'
  <2> SUFFICES ASSUME NEW j \in object_tree', InOrder(j)' PROVE FALSE
    BY DEF NoStall
  <2>1. CASE j # k
    <3>1. j \in object_tree /\ object'[j] = object[j]
      BY <1>3, <1>6, <1>7, <2>1
    <3>2. InOrder(j)
      BY <1>3, <3>1 DEF InOrder, NextPoint, NextGroupStart
    <3>3. QED
      BY <1>3, <3>1, <3>2 DEF NoStall
  <2>2. CASE j = k
    <3>1. ~EntersGroup(k, obj) /\ k # NextPoint
      BY <1>3 DEF NextPointAt
    <3>2. /\ k = NextGroupStart
          /\ obj.nb_objects_previous_group = next_object_id
      BY <1>3, <1>4, <1>6, <2>2, <3>1 DEF InOrder, NextPoint, NextGroupStart
    <3>3. k[1] = next_group_id + 1 /\ k[2] = 0 /\ next_object_id \in Nat
      BY <3>2 DEF NextGroupStart, TypeOK
    <3>4. QED
      BY <3>1, <3>2, <3>3 DEF EntersGroup
  <2>3. QED
    BY <2>1, <2>2
<1>13. QED
  BY <1>8, <1>9, <1>11, <1>12 DEF ProgressInv

\* Handing over the object that follows, in either mode, and moving past it.
LEMMA DeliverStep ==
    ASSUME TypeOK, ProgressInv, NEW k \in Sent, Follows(k),
           \/ CallReady(k, "in_sequence") /\ ~Waiting(k)
           \/ CallReady(k, "repair") /\ Waiting(k)
    PROVE  LET W == {j \in Key : Waiting(j) /\ j # k}
           IN CallsAgree(ready', k[1], k[2] + 1, W)
<1> DEFINE W == {j \in Key : Waiting(j) /\ j # k}
<1> SUFFICES ASSUME NEW j \in Key
             PROVE  /\ ready'[j]["in_sequence"] + ready'[j]["repair"] =
                         IF j \in Sent /\ Before(j, <<k[1], k[2] + 1>>) THEN 1 ELSE 0
                    /\ ready'[j]["in_sequence"] + ready'[j]["peek"] =
                         IF (j \in Sent /\ Before(j, <<k[1], k[2] + 1>>)) \/ j \in W
                         THEN 1 ELSE 0
  BY DEF CallsAgree
<1>1. k \in Key
  BY DEF Sent
<1>2. /\ Before(j, <<k[1], k[2] + 1>>) <=> Before(j, NextPoint) \/ j = k
      /\ ~Before(k, NextPoint)
  BY Advance DEF ProgressInv
<1>3. /\ ready[j]["in_sequence"] \in Nat /\ ready[j]["peek"] \in Nat
      /\ ready[j]["repair"] \in Nat
  BY DEF TypeOK, Mode
<1>4. /\ ready[j]["in_sequence"] + ready[j]["repair"] =
           IF j \in Sent /\ Before(j, NextPoint) THEN 1 ELSE 0
      /\ ready[j]["in_sequence"] + ready[j]["peek"] =
           IF (j \in Sent /\ Before(j, NextPoint)) \/ Waiting(j) THEN 1 ELSE 0
  BY DEF ProgressInv, CallsOK, InOrderCalls, AnyOrderCalls, Passed
<1>5. CASE j # k
  <2>1. ready'[j] = ready[j]
    BY <1>1, <1>5 DEF CallReady, TypeOK
  <2>2. j \in W <=> Waiting(j)
    BY <1>5
  <2>3. QED
    BY <1>2, <1>4, <1>5, <2>1, <2>2
<1>6. CASE j = k /\ CallReady(k, "in_sequence") /\ ~Waiting(k)
  <2>1. /\ ready'[k]["in_sequence"] = ready[k]["in_sequence"] + 1
        /\ ready'[k]["repair"] = ready[k]["repair"]
        /\ ready'[k]["peek"] = ready[k]["peek"]
    BY <1>1, <1>6 DEF CallReady, TypeOK, Mode
  <2>2. QED
    BY <1>2, <1>3, <1>4, <1>6, <2>1
<1>7. CASE j = k /\ CallReady(k, "repair") /\ Waiting(k)
  <2>1. /\ ready'[k]["in_sequence"] = ready[k]["in_sequence"]
        /\ ready'[k]["repair"] = ready[k]["repair"] + 1
        /\ ready'[k]["peek"] = ready[k]["peek"]
    BY <1>1, <1>7 DEF CallReady, TypeOK, Mode
  <2>2. QED
    BY <1>2, <1>3, <1>4, <1>7, <2>1
<1>8. QED
  BY <1>5, <1>6, <1>7

\* Deleting that object from the tree restores the invariant.
LEMMA PassStep ==
    ASSUME TypeOK, ProgressInv, NEW k \in Sent, Follows(k),
           \/ CallReady(k, "in_sequence") /\ ~Waiting(k)
           \/ CallReady(k, "repair") /\ Waiting(k),
           DeleteObject(k), SetNext(<<k[1], k[2] + 1>>),
           UNCHANGED <<final_group_id, final_object_id>>
    PROVE  /\ TreeOK' /\ NextPointOK' /\ CallsOK'
           /\ ~is_finished
<1>1. k \in Key /\ k[1] \in Nat /\ k[2] \in Nat
  BY KeyShape DEF Sent
<1>2. /\ \A j \in Key : Before(j, <<k[1], k[2] + 1>>) <=> Before(j, NextPoint) \/ j = k
      /\ k[1] \in Group /\ k[2] + 1 <= NbObjects[k[1]]
      /\ ~Before(<<k[1], k[2] + 1>>, StartPoint)
      /\ NextPoint # FinalPoint
  BY Advance DEF ProgressInv
<1>3. next_group_id' = k[1] /\ next_object_id' = k[2] + 1
      /\ NextPoint' = <<k[1], k[2] + 1>>
  BY DEF SetNext, NextPoint
<1>4. object_tree' = object_tree \ {k} /\ \A j \in Key : j # k => object'[j] = object[j]
  BY <1>1 DEF DeleteObject, TypeOK
<1>5. TreeOK'
  <2> SUFFICES ASSUME NEW j \in object_tree'
               PROVE  j \in Sent /\ ObjectOK(j, object[j])' /\ ~Before(j, NextPoint')
    BY DEF TreeOK
  <2>1. j \in object_tree /\ j \in Key /\ j # k /\ object'[j] = object[j]
    BY <1>4 DEF TypeOK
  <2>2. j \in Sent /\ ObjectOK(j, object[j]) /\ ~Before(j, NextPoint)
    BY <2>1 DEF ProgressInv, TreeOK
  <2>3. ObjectOK(j, object[j])'
    BY <2>1, <2>2 DEF ObjectOK, CanReassemble
  <2>4. QED
    BY <1>2, <1>3, <2>1, <2>2, <2>3
<1>6. NextPointOK'
  BY <1>2, <1>3 DEF NextPointOK
<1>7. CallsOK'
  <2> DEFINE W == {j \in Key : Waiting(j) /\ j # k}
  <2>1. CallsAgree(ready', k[1], k[2] + 1, W)
    BY DeliverStep
  <2>2. \A j \in Key : Waiting(j)' <=> j \in W
    BY <1>4 DEF Waiting
  <2>3. QED
    BY <1>3, <2>1, <2>2 DEF CallsAgree, CallsOK, InOrderCalls, AnyOrderCalls, Passed
<1>8. ~is_finished
  BY <1>2 DEF ProgressInv, FinalOK
<1>9. QED
  BY <1>5, <1>6, <1>7, <1>8

\* The final point is reached only at the end of the last group, although the
\* test compares the coordinates one by one.
LEMMA FinalReached ==
    ASSUME NEW g \in Group, NEW o \in Nat, o <= NbObjects[g],
           ProgressInv, ReachedFinal(<<g, o>>)
    PROVE  <<g, o>> = FinalPoint
<1>1. final_group_id = LastGroup /\ final_object_id = NbObjects[LastGroup]
  BY FinalShape DEF ProgressInv, FinalOK, ReachedFinal
<1>2. g >= LastGroup /\ o >= NbObjects[LastGroup]
  BY <1>1 DEF ReachedFinal
<1>3. g = LastGroup
  BY <1>2, FinalShape DEF Group
<1>4. QED
  BY <1>2, <1>3, FinalShape

LEMMA SequenceStep ==
    ASSUME TypeOK, TypeOK', ProgressInv, NEW k \in Sent, NEW f \in Fragments(k),
           InputInSequence(k, f)
    PROVE  /\ pc' = "update" => ProgressInv'
           /\ pc' \in {"update", "failed"}
           /\ DeliveryInv'
<1> DEFINE obj == Stored(k, f)
           W == {j \in Key : Waiting(j) /\ j # k}
<1>1. /\ k \in Key /\ k[1] \in Nat /\ k[2] \in Nat
      /\ obj \in ObjectRecord /\ ObjectOK(k, obj)
      /\ ~Waiting(k) /\ CanReassemble(obj)
  BY InputFacts DEF InputInSequence
<1>2. Follows(k)
  <2>1. EntersGroup(k, obj) \/ k = NextPoint
    BY DEF InputInSequence, NextPointAt
  <2>2. QED
    BY <1>1, <2>1, EntersGroupFollows DEF Follows
<1>3. CallReady(k, "in_sequence")
  BY <1>1 DEF InputInSequence
<1>4. UNCHANGED <<final_group_id, final_object_id, is_finished>> /\ pc' \in {"update", "failed"}
  BY DEF InputInSequence, UnchangedFinal
<1>5. CallsAgree(ready', k[1], k[2] + 1, W)
  BY <1>1, <1>2, <1>3, DeliverStep
<1>6. ~is_finished
  BY <1>2, Advance DEF ProgressInv, FinalOK
<1>7. ASSUME pc' = "update" PROVE ProgressInv'
  <2>1. DeleteObject(k) /\ SetNext(<<k[1], k[2] + 1>>)
    BY <1>7 DEF InputInSequence
  <2>2. TreeOK' /\ NextPointOK' /\ CallsOK'
    BY <1>1, <1>2, <1>3, <1>4, <2>1, PassStep
  <2>3. FinalOK'
    BY <1>4, <1>6 DEF ProgressInv, FinalOK
  <2>4. QED
    BY <2>2, <2>3 DEF ProgressInv
<1>8. DeliveryInv'
  <2> HIDE DEF W, obj
  <2>1. ready' \in [Key -> [Mode -> Nat]] /\ k[1] \in Nat /\ k[2] + 1 \in Nat
    BY <1>1 DEF TypeOK
  <2>2. CallsDeliver(ready') /\ ~is_finished'
    BY <1>4, <1>5, <1>6, <2>1, CallsGiveDelivery
  <2>3. QED
    BY <2>2 DEF CallsDeliver, DeliveryInv, AtMostOnce, InOrderPrefix,
                RepairWasPeeked, FinishedMeansAll, InOrderCalls, AnyOrderCalls
<1>9. QED
  BY <1>4, <1>7, <1>8

LEMMA UpdateDeliverStep ==
    ASSUME TypeOK, ProgressInv, UpdateDeliver
    PROVE  ProgressInv' /\ pc' \in {"update", "failed"}
<1>1. PICK k \in object_tree :
        /\ InOrder(k)
        /\ CallReady(k, "repair")
        /\ DeleteObject(k)
        /\ SetNext(<<k[1], k[2] + 1>>)
        /\ \E ret \in ReadyReturns :
            /\ pc' = IF ret = 0 THEN "update" ELSE "failed"
            /\ is_finished' =
                 (is_finished \/ (ret # 0 /\ ReachedFinal(<<k[1], k[2] + 1>>)))
  BY DEF UpdateDeliver
<1>2. k \in Sent /\ k \in Key /\ k[1] \in Nat /\ k[2] \in Nat
  BY KeyShape DEF ProgressInv, TreeOK, Sent
<1>3. Follows(k) /\ Waiting(k)
  BY <1>1, InOrderFollows DEF InOrder, Waiting
<1>4. UNCHANGED <<final_group_id, final_object_id>>
  BY DEF UpdateDeliver
<1>5. TreeOK' /\ NextPointOK' /\ CallsOK' /\ ~is_finished
  BY <1>1, <1>2, <1>3, <1>4, PassStep
<1>6. is_finished' => ReachedFinal(<<k[1], k[2] + 1>>)
  BY <1>1, <1>5
<1>7. is_finished' => NextPoint' = FinalPoint
  <2>1. k[1] \in Group /\ k[2] + 1 <= NbObjects[k[1]] /\ k[2] + 1 \in Nat
    BY <1>2, KeyShape
  <2>2. NextPoint' = <<k[1], k[2] + 1>>
    BY <1>1 DEF SetNext, NextPoint
  <2>3. ReachedFinal(<<k[1], k[2] + 1>>) => <<k[1], k[2] + 1>> = FinalPoint
    BY <2>1, FinalReached
  <2>4. QED
    BY <1>6, <2>2, <2>3
<1>8. FinalOK'
  BY <1>4, <1>7 DEF ProgressInv, FinalOK
<1>9. QED
  BY <1>1, <1>5, <1>8 DEF ProgressInv

LEMMA UpdateDoneStep ==
    ASSUME TypeOK, ProgressInv, UpdateDone
    PROVE  /\ ProgressInv' /\ NoStall'
           /\ (final_group_id' > 0 \/ final_object_id' > 0) /\ NextPoint' = FinalPoint
                => is_finished'
<1>1. /\ ~\E k \in object_tree : InOrder(k)
      /\ is_finished' = (is_finished \/ ReachedFinal(NextPoint))
      /\ UNCHANGED <<object_tree, object, next_group_id, next_object_id,
                     final_group_id, final_object_id, ready>>
  BY DEF UpdateDone
<1>2. TreeOK' /\ NextPointOK' /\ CallsOK'
  BY <1>1 DEF ProgressInv, TreeOK, ObjectOK, CanReassemble, NextPointOK, CallsOK,
              InOrderCalls, AnyOrderCalls, Passed, Waiting, NextPoint
<1>3. NoStall'
  BY <1>1 DEF NoStall, InOrder, NextPoint, NextGroupStart
<1>4. FinalOK'
  <2>1. ReachedFinal(NextPoint) => NextPoint = FinalPoint
    BY FinalReached DEF NextPoint, TypeOK, ProgressInv, NextPointOK
  <2>2. is_finished' => NextPoint' = FinalPoint
    BY <1>1, <2>1 DEF ProgressInv, FinalOK, NextPoint
  <2>3. QED
    BY <1>1, <2>2 DEF ProgressInv, FinalOK
<1>5. (final_group_id' > 0 \/ final_object_id' > 0) /\ NextPoint' = FinalPoint
        => is_finished'
  <2> SUFFICES ASSUME final_group_id > 0 \/ final_object_id > 0, NextPoint = FinalPoint
               PROVE  ReachedFinal(NextPoint)
    BY <1>1 DEF NextPoint
  <2>1. final_group_id = LastGroup /\ final_object_id = NbObjects[LastGroup]
    BY FinalShape DEF ProgressInv, FinalOK
  <2>2. NextPoint[1] = LastGroup /\ NextPoint[2] = NbObjects[LastGroup]
    BY FinalShape
  <2>3. QED
    BY <2>1, <2>2, FinalShape DEF ReachedFinal
<1>6. QED
  BY <1>2, <1>3, <1>4, <1>5 DEF ProgressInv

LEMMA LearnStartStep ==
    ASSUME TypeOK, ProgressInv, LearnStartPoint
    PROVE  ProgressInv'
<1>1. /\ Before(NextPoint, StartPoint)
      /\ next_group_id' = StartPoint[1] /\ next_object_id' = StartPoint[2]
      /\ UNCHANGED <<object_tree, object, ready>>
      /\ UNCHANGED <<final_group_id, final_object_id, is_finished>>
  BY DEF LearnStartPoint, SetNext, UnchangedFinal
<1>2. NextPoint = <<0, 0>>
  BY <1>1 DEF ProgressInv, NextPointOK
<1>3. NextPoint' = StartPoint
  BY <1>1, StartShape DEF NextPoint
<1>4. /\ \A k \in Sent : k \in Key /\ ~Before(k, StartPoint)
      /\ \A k \in Sent : ~Before(k, NextPoint)
  BY <1>2, KeyShape DEF Sent, Before
<1>5. TreeOK'
  BY <1>1, <1>3, <1>4 DEF ProgressInv, TreeOK, ObjectOK, CanReassemble
<1>6. NextPointOK'
  <2>1. StartPoint[1] \in Group /\ StartPoint[2] <= NbObjects[StartPoint[1]]
    BY StartShape, KeyShape
  <2>2. ~Before(StartPoint, StartPoint)
    BY StartShape DEF Before
  <2>3. QED
    BY <1>1, <1>3, <2>1, <2>2 DEF NextPointOK
<1>7. CallsOK'
  <2>1. \A k \in Key : (Passed(k)' <=> Passed(k)) /\ (Waiting(k)' <=> Waiting(k))
    BY <1>1, <1>3, <1>4 DEF Passed, Waiting
  <2>2. QED
    BY <1>1, <2>1 DEF ProgressInv, CallsOK, InOrderCalls, AnyOrderCalls
<1>8. FinalOK'
  <2>1. ~is_finished
    BY <1>2, FinalShape DEF ProgressInv, FinalOK
  <2>2. QED
    BY <1>1, <2>1 DEF ProgressInv, FinalOK
<1>9. QED
  BY <1>5, <1>6, <1>7, <1>8 DEF ProgressInv

LEMMA LearnFinalStep ==
    ASSUME TypeOK, ProgressInv, NoStall, LearnFinalObjectId
    PROVE  /\ ProgressInv' /\ NoStall'
           /\ NextPoint' = FinalPoint => is_finished'
<1>1. /\ final_group_id' = FinalPoint[1] /\ final_object_id' = FinalPoint[2]
      /\ is_finished' = (is_finished \/ ~Before(NextPoint, FinalPoint))
      /\ UNCHANGED <<object_tree, object, next_group_id, next_object_id, pc, ready>>
  BY DEF LearnFinalObjectId
<1>2. TreeOK' /\ NextPointOK' /\ CallsOK'
  BY <1>1 DEF ProgressInv, TreeOK, ObjectOK, CanReassemble, NextPointOK, CallsOK,
              InOrderCalls, AnyOrderCalls, Passed, Waiting, NextPoint
<1>3. NoStall'
  BY <1>1 DEF NoStall, InOrder, NextPoint, NextGroupStart
<1>4. ~Before(NextPoint, FinalPoint) <=> NextPoint = FinalPoint
  <2>1. /\ next_group_id \in Nat /\ next_object_id \in Nat
        /\ next_group_id <= LastGroup
        /\ next_object_id <= NbObjects[next_group_id]
    BY DEF TypeOK, ProgressInv, NextPointOK, Group
  <2>2. QED
    BY <2>1, FinalShape DEF Before, NextPoint
<1>5. FinalOK' /\ (NextPoint' = FinalPoint => is_finished')
  BY <1>1, <1>4 DEF ProgressInv, FinalOK, NextPoint
<1>6. QED
  BY <1>2, <1>3, <1>5 DEF ProgressInv

----------------------------------------------------------------------------
(* The invariant and the properties that follow from it.                   *)

LEMMA InvInit == Init => IInv
<1> SUFFICES ASSUME Init PROVE IInv
  OBVIOUS
<1>1. TypeOK
  BY TypeInit
<1>2. NextPoint = <<0, 0>> /\ object_tree = {} /\ ~is_finished
  BY DEF Init, NextPoint
<1>3. CallsOK
  <2>1. \A k \in Key : ~Passed(k) /\ ~Waiting(k)
    BY <1>2, KeyShape DEF Passed, Waiting, Before
  <2>2. \A k \in Key : /\ ready[k]["in_sequence"] = 0 /\ ready[k]["peek"] = 0
                       /\ ready[k]["repair"] = 0
    BY DEF Init, Mode
  <2>3. QED
    BY <2>1, <2>2 DEF CallsOK, InOrderCalls, AnyOrderCalls
<1>4. NextPointOK
  BY <1>2, MediaAssumption DEF NextPointOK, Init, Group
<1>5. ProgressInv
  BY <1>2, <1>3, <1>4 DEF ProgressInv, TreeOK, FinalOK, Init
<1>6. DeliveryInv
  BY <1>1, <1>5, ProgressGivesDelivery
<1>7. QED
  BY <1>1, <1>2, <1>5, <1>6 DEF IInv, NoStall, Init

LEMMA InvStep == IInv /\ [Next]_vars => IInv'
<1> SUFFICES ASSUME IInv, [Next]_vars PROVE IInv'
  OBVIOUS
<1>1. TypeOK /\ TypeOK' /\ DeliveryInv /\ NoStall
  BY TypeStep DEF IInv
<1>2. TypeOK' /\ ProgressInv' => DeliveryInv'
  BY ProgressGivesDelivery, PTL
<1>3. UNCHANGED <<ready, is_finished>> => DeliveryInv'
  BY <1>1 DEF DeliveryInv, AtMostOnce, InOrderPrefix, RepairWasPeeked,
              FinishedMeansAll, InOrderCalls, AnyOrderCalls
<1>4. ASSUME NEW k \in Sent, NEW f \in Fragments(k), Input(k, f) PROVE IInv'
  <2>1. CASE pc # "idle"
    BY <1>4, <2>1 DEF Input, InputIgnored, InputRejected, InputPartial,
                      InputRepeated, InputPeek, InputInSequence
  <2>2. CASE pc = "idle"
    <3>1. ProgressInv
      BY <2>2 DEF IInv
    <3>2. CASE InputIgnored(k, f)
      BY <1>1, <2>2, <3>1, <3>2
      DEF InputIgnored, vars, IInv, DeliveryInv, AtMostOnce, InOrderPrefix,
          RepairWasPeeked, FinishedMeansAll, InOrderCalls, AnyOrderCalls, NoStall,
          InOrder, NextPoint, NextGroupStart, ProgressInv, TreeOK, ObjectOK,
          CanReassemble, NextPointOK, CallsOK, FinalOK, Passed, Waiting
    <3>3. CASE InputRejected(k, f)
      <4>1. pc' = "failed" /\ UNCHANGED <<ready, is_finished>>
        BY <3>3 DEF InputRejected, UnchangedFinal
      <4>2. QED
        BY <1>1, <1>3, <4>1 DEF IInv, NoStall
    <3>4. CASE InputPartial(k, f)
      <4>1. ProgressInv' /\ NoStall'
        BY <1>1, <3>1, <3>4, PartialStep
      <4>2. UNCHANGED <<next_group_id, next_object_id, final_group_id,
                        final_object_id, is_finished, pc>>
        BY <3>4 DEF InputPartial, UnchangedFinal
      <4>3. QED
        BY <1>1, <1>2, <4>1, <4>2 DEF IInv, NextPoint
    <3>5. CASE InputRepeated(k, f)
      <4>1. ProgressInv' /\ NoStall' /\ UNCHANGED <<next_group_id, next_object_id>>
        BY <1>1, <3>1, <3>5, RepeatedStep
      <4>2. UNCHANGED <<final_group_id, final_object_id, is_finished, pc>>
        BY <3>5 DEF InputRepeated, UnchangedFinal
      <4>3. QED
        BY <1>1, <1>2, <4>1, <4>2 DEF IInv, NextPoint
    <3>6. CASE InputPeek(k, f)
      <4>1. ProgressInv' /\ NoStall'
        BY <1>1, <3>1, <3>6, PeekStep
      <4>2. UNCHANGED <<next_group_id, next_object_id, final_group_id,
                        final_object_id, is_finished>>
        BY <3>6 DEF InputPeek, UnchangedFinal
      <4>3. QED
        BY <1>1, <1>2, <2>2, <4>1, <4>2 DEF IInv, NextPoint
    <3>7. CASE InputInSequence(k, f)
      <4>1. /\ pc' = "update" => ProgressInv'
            /\ pc' \in {"update", "failed"} /\ DeliveryInv'
        BY <1>1, <3>1, <3>7, SequenceStep
      <4>2. QED
        BY <1>1, <4>1 DEF IInv, NoStall
    <3>8. QED
      BY <1>4, <3>2, <3>3, <3>4, <3>5, <3>6, <3>7 DEF Input
  <2>3. QED
    BY <2>1, <2>2
<1>5. CASE UpdateDeliver
  <2>1. ProgressInv
    BY <1>5 DEF IInv, UpdateDeliver
  <2>2. ProgressInv' /\ pc' \in {"update", "failed"}
    BY <1>1, <1>5, <2>1, UpdateDeliverStep
  <2>3. QED
    BY <1>1, <1>2, <2>2 DEF IInv, NoStall
<1>6. CASE UpdateDone
  <2>1. ProgressInv
    BY <1>6 DEF IInv, UpdateDone
  <2>2. /\ ProgressInv' /\ NoStall'
        /\ (final_group_id' > 0 \/ final_object_id' > 0) /\ NextPoint' = FinalPoint
             => is_finished'
    BY <1>1, <1>6, <2>1, UpdateDoneStep
  <2>3. QED
    BY <1>1, <1>2, <2>2 DEF IInv
<1>7. CASE LearnStartPoint
  <2>1. ProgressInv /\ pc' = "update"
    BY <1>7 DEF IInv, LearnStartPoint
  <2>2. ProgressInv'
    BY <1>1, <1>7, <2>1, LearnStartStep
  <2>3. QED
    BY <1>1, <1>2, <2>1, <2>2 DEF IInv, NoStall
<1>8. CASE LearnFinalObjectId
  <2>1. ProgressInv
    BY <1>8 DEF IInv, LearnFinalObjectId
  <2>2. ProgressInv' /\ NoStall' /\ (NextPoint' = FinalPoint => is_finished')
    BY <1>1, <1>8, <2>1, LearnFinalStep
  <2>3. QED
    BY <1>1, <1>2, <2>2 DEF IInv
<1>9. CASE Release
  <2>1. pc' = "closed" /\ ~is_finished' /\ UNCHANGED ready
    BY <1>9 DEF Release
  <2>2. DeliveryInv'
    BY <1>1, <2>1 DEF DeliveryInv, AtMostOnce, InOrderPrefix, RepairWasPeeked,
                      FinishedMeansAll, InOrderCalls, AnyOrderCalls
  <2>3. QED
    BY <1>1, <2>1, <2>2 DEF IInv, NoStall
<1>10. CASE UNCHANGED vars
  BY <1>1, <1>10
  DEF vars, IInv, DeliveryInv, AtMostOnce, InOrderPrefix,
      RepairWasPeeked, FinishedMeansAll, InOrderCalls, AnyOrderCalls, NoStall,
      InOrder, NextPoint, NextGroupStart, ProgressInv, TreeOK, ObjectOK,
      CanReassemble, NextPointOK, CallsOK, FinalOK, Passed, Waiting
<1>11. QED
  BY <1>4, <1>5, <1>6, <1>7, <1>8, <1>9, <1>10 DEF Next, InputAny

\* The inductive invariant holds in every state of lib/reassembly.c: as long
\* as no error occurred, the tree, the next point and the calls agree.
THEOREM InvariantHolds == Spec => []IInv
<1>1. QED
  BY InvInit, InvStep, PTL DEF Spec

\* No consumer of quicrq_reassembly_input is handed an object twice, whatever
\* the network repeats, cuts and reorders, for every media.
THEOREM NeverTwice == Spec => []AtMostOnce
<1>1. IInv => AtMostOnce
  BY DEF IInv, DeliveryInv
<1>2. QED
  BY <1>1, InvariantHolds, PTL

\* Objects reach an in-order consumer in order and without a gap.
THEOREM NoGap == Spec => []InOrderPrefix
<1>1. IInv => InOrderPrefix
  BY DEF IInv, DeliveryInv
<1>2. QED
  BY <1>1, InvariantHolds, PTL

\* What is repaired was peeked: a consumer that takes objects in any order
\* misses none by ignoring the repairs.
THEOREM RepairFollowsPeek == Spec => []RepairWasPeeked
<1>1. IInv => RepairWasPeeked
  BY DEF IInv, DeliveryInv
<1>2. QED
  BY <1>1, InvariantHolds, PTL

\* Between two calls, no object in order waits in the tree.
THEOREM NeverStalled == Spec => []NoStall
<1>1. IInv => NoStall
  BY DEF IInv
<1>2. QED
  BY <1>1, InvariantHolds, PTL

\* The reassembly reports the end of the media only after every object.
THEOREM FinishedIsComplete == Spec => []FinishedMeansAll
<1>1. IInv => FinishedMeansAll
  BY DEF IInv, DeliveryInv
<1>2. QED
  BY <1>1, InvariantHolds, PTL

\* ... and does not fail to report it.
THEOREM CompleteIsFinished == Spec => []AllMeansFinished
<1>1. IInv => AllMeansFinished
  <2> SUFFICES ASSUME IInv, pc = "idle", final_group_id > 0 \/ final_object_id > 0,
                      \A k \in Sent : InOrderCalls(k) = 1
               PROVE  is_finished
    BY DEF AllMeansFinished
  <2> DEFINE last == <<LastGroup, NbObjects[LastGroup] - 1>>
  <2>1. TypeOK /\ ProgressInv
    BY DEF IInv
  <2>2. last \in Sent /\ last \in Key /\ LastGroup \in Nat /\ NbObjects[LastGroup] \in Nat
    BY FinalShape DEF Sent
  <2>3. Before(last, NextPoint)
    BY <2>1, <2>2 DEF ProgressInv, CallsOK, Passed
  <2>4. NextPoint = FinalPoint
    <3>1. next_group_id \in Nat /\ next_object_id \in Nat /\ next_group_id <= LastGroup
          /\ next_object_id <= NbObjects[next_group_id]
      BY <2>1 DEF TypeOK, ProgressInv, NextPointOK, Group
    <3>2. next_group_id = LastGroup /\ next_object_id = NbObjects[LastGroup]
      BY <2>2, <2>3, <3>1 DEF Before, NextPoint
    <3>3. QED
      BY <3>2, FinalShape DEF NextPoint
  <2>5. QED
    BY <2>4 DEF IInv
<1>2. QED
  BY <1>1, InvariantHolds, PTL

----------------------------------------------------------------------------
(***************************************************************************)
(* The reassembly of lib/reassembly.c implements ObjectDelivery: proof of  *)
(* the refinement that Reassembly states as ImplementsDelivery.            *)
(***************************************************************************)
\* The status of the refinement mapping.
StatusSeen == IF pc \in {"failed", "closed"} THEN "closed"
              ELSE IF is_finished THEN "finished" ELSE "open"

\* A step that makes no call leaves what was seen and ordered alone.
LEMMA NoCallNoChange ==
    ASSUME UNCHANGED ready
    PROVE  SeenObjects' = SeenObjects /\ OrderedObjects' = OrderedObjects
  BY DEF SeenObjects, OrderedObjects, AnyOrderCalls, InOrderCalls

\* The effect of one call on what was seen and ordered.
LEMMA CallChanges ==
    ASSUME ready \in [Key -> [Mode -> Nat]], NEW k \in Sent, NEW m \in Mode,
           CallReady(k, m)
    PROVE  /\ SeenObjects' = IF m \in {"in_sequence", "peek"}
                             THEN SeenObjects \cup {k} ELSE SeenObjects
           /\ OrderedObjects' = IF m \in {"in_sequence", "repair"}
                                THEN OrderedObjects \cup {k} ELSE OrderedObjects
<1>1. k \in Key
  BY DEF Sent
<1>2. \A j \in Key, n \in Mode :
         ready'[j][n] = IF j = k /\ n = m THEN ready[j][n] + 1 ELSE ready[j][n]
  BY <1>1 DEF CallReady
<1>3. \A j \in Key, n \in Mode : ready[j][n] \in Nat
  OBVIOUS
<1>4. ASSUME NEW j \in Sent
      PROVE  /\ AnyOrderCalls(j)' > 0 <=>
                  AnyOrderCalls(j) > 0 \/ (j = k /\ m \in {"in_sequence", "peek"})
             /\ InOrderCalls(j)' > 0 <=>
                  InOrderCalls(j) > 0 \/ (j = k /\ m \in {"in_sequence", "repair"})
  <2>1. j \in Key
    BY DEF Sent
  <2>2. /\ ready[j]["in_sequence"] \in Nat /\ ready[j]["peek"] \in Nat
        /\ ready[j]["repair"] \in Nat
    BY <1>3, <2>1 DEF Mode
  <2>3. \A n \in Mode :
         ready'[j][n] = IF j = k /\ n = m THEN ready[j][n] + 1 ELSE ready[j][n]
    BY <1>2, <2>1
  <2>4. /\ ready'[j]["in_sequence"] = IF j = k /\ m = "in_sequence"
             THEN ready[j]["in_sequence"] + 1 ELSE ready[j]["in_sequence"]
        /\ ready'[j]["peek"] = IF j = k /\ m = "peek"
             THEN ready[j]["peek"] + 1 ELSE ready[j]["peek"]
        /\ ready'[j]["repair"] = IF j = k /\ m = "repair"
             THEN ready[j]["repair"] + 1 ELSE ready[j]["repair"]
    BY <2>3 DEF Mode
  <2>5. QED
    BY <2>2, <2>4 DEF AnyOrderCalls, InOrderCalls, Mode
<1>5. QED
  BY <1>4 DEF SeenObjects, OrderedObjects

\* What is seen and ordered, by the calls that the invariant accounts for.
LEMMA CallsTell ==
    ASSUME CallsOK
    PROVE  /\ SeenObjects = {k \in Sent : Passed(k) \/ Waiting(k)}
           /\ OrderedObjects = {k \in Sent : Passed(k)}
  BY DEF CallsOK, SeenObjects, OrderedObjects, Sent

\* The objects handed in order are those before the object that follows.
LEMMA FollowsIsTurn ==
    ASSUME TypeOK, ProgressInv, NEW k \in Sent, Follows(k)
    PROVE  /\ OrderedObjects = {j \in Sent : Before(j, k)}
           /\ ~is_finished
<1>1. /\ \A j \in Key : Before(j, <<k[1], k[2] + 1>>) <=> Before(j, NextPoint) \/ j = k
      /\ ~Before(k, NextPoint) /\ NextPoint # FinalPoint
  BY Advance DEF ProgressInv
<1>2. OrderedObjects = {j \in Sent : Passed(j)}
  BY CallsTell DEF ProgressInv
<1>3. ASSUME NEW j \in Sent PROVE Before(j, k) <=> Passed(j)
  <2>1. j \in Key /\ k \in Key
    BY DEF Sent
  <2>2. /\ j = <<j[1], j[2]>> /\ k = <<k[1], k[2]>>
        /\ j[1] \in Nat /\ j[2] \in Nat /\ k[1] \in Nat /\ k[2] \in Nat
    BY <2>1, KeyShape
  <2>3. Before(j, k) <=> Before(j, <<k[1], k[2] + 1>>) /\ j # k
    BY <2>2 DEF Before
  <2>4. QED
    BY <1>1, <2>1, <2>3 DEF Passed
<1>4. QED
  BY <1>1, <1>2, <1>3 DEF ProgressInv, FinalOK

----------------------------------------------------------------------------
(* A call of ready_fn, with what the consumer may conclude from its mode:  *)
(* only a "repair" repeats an object, and all but a "peek" come in turn.   *)
Handing(k, mode) ==
    /\ StatusSeen = "open" /\ StatusSeen' \in {"open", "closed"}
    /\ CallReady(k, mode)
    /\ k \in SeenObjects <=> mode = "repair"
    /\ mode # "peek" => OrderedObjects = {j \in Sent : Before(j, k)}

----------------------------------------------------------------------------
(* The kinds of steps, under the mapping.                                  *)

AbstractHand ==
    /\ StatusSeen = "open"
    /\ \E k \in Sent :
         \/ /\ k \notin SeenObjects
            /\ SeenObjects' = SeenObjects \cup {k}
            /\ OrderedObjects' = OrderedObjects
         \/ /\ k \notin SeenObjects
            /\ k \notin OrderedObjects
            /\ \A j \in Sent : Before(j, k) => j \in OrderedObjects
            /\ SeenObjects' = SeenObjects \cup {k}
            /\ OrderedObjects' = OrderedObjects \cup {k}
         \/ /\ k \in SeenObjects
            /\ k \notin OrderedObjects
            /\ \A j \in Sent : Before(j, k) => j \in OrderedObjects
            /\ OrderedObjects' = OrderedObjects \cup {k}
            /\ SeenObjects' = SeenObjects
    /\ StatusSeen' \in {"open", "closed"}

AbstractFinish ==
    /\ StatusSeen = "open" /\ OrderedObjects = Sent /\ StatusSeen' = "finished"
    /\ SeenObjects' = SeenObjects /\ OrderedObjects' = OrderedObjects

AbstractQuiet ==
    /\ StatusSeen' = StatusSeen \/ StatusSeen' = "closed"
    /\ SeenObjects' = SeenObjects /\ OrderedObjects' = OrderedObjects

\* They are the steps of ObjectDelivery.
LEMMA AbstractSteps ==
    AbstractHand \/ AbstractFinish \/ AbstractQuiet
      => [Delivery!Next]_(Delivery!vars)
<1>1. AbstractHand => Delivery!Hand
  BY DEF AbstractHand, StatusSeen, Delivery!Hand,
         Delivery!HandAhead, Delivery!HandInTurn, Delivery!HandAgain, Delivery!Turn
<1>2. AbstractFinish => Delivery!Finish
  BY DEF AbstractFinish, StatusSeen, Delivery!Finish
<1>3. AbstractQuiet => Delivery!Close \/ UNCHANGED Delivery!vars
  BY DEF AbstractQuiet, StatusSeen, Delivery!Close, Delivery!vars
<1>4. QED
  BY <1>1, <1>2, <1>3 DEF Delivery!Next

\* A call hands an object as ObjectDelivery allows it.
LEMMA HandingIsHand ==
    ASSUME TypeOK, NEW k \in Sent, NEW mode \in Mode, Handing(k, mode)
    PROVE  AbstractHand
<1>1. /\ SeenObjects' = IF mode \in {"in_sequence", "peek"}
                        THEN SeenObjects \cup {k} ELSE SeenObjects
      /\ OrderedObjects' = IF mode \in {"in_sequence", "repair"}
                           THEN OrderedObjects \cup {k} ELSE OrderedObjects
  BY CallChanges DEF TypeOK, Handing
<1>2. k \notin {j \in Sent : Before(j, k)}
  <2>1. k[1] \in Nat /\ k[2] \in Nat
    BY KeyShape DEF Sent
  <2>2. QED
    BY <2>1 DEF Before
<1>3. CASE mode = "peek"
  BY <1>1, <1>3 DEF Handing, AbstractHand
<1>4. CASE mode = "in_sequence"
  BY <1>1, <1>2, <1>4 DEF Handing, AbstractHand
<1>5. CASE mode = "repair"
  BY <1>1, <1>2, <1>5 DEF Handing, AbstractHand
<1>6. QED
  BY <1>3, <1>4, <1>5 DEF Mode

----------------------------------------------------------------------------
(* One lemma per kind of step of the reassembly.                           *)

\* A step that makes no call, and changes the status at most to "closed".
LEMMA QuietStep ==
    ASSUME UNCHANGED ready,
           pc' \in {"failed", "closed"} \/ UNCHANGED is_finished,
           pc \in {"idle", "update"} \/ pc' \in {"failed", "closed"}
    PROVE  AbstractQuiet
<1>1. SeenObjects' = SeenObjects /\ OrderedObjects' = OrderedObjects
  BY NoCallNoChange
<1>2. StatusSeen' = StatusSeen \/ StatusSeen' = "closed"
  BY DEF StatusSeen
<1>3. QED
  BY <1>1, <1>2 DEF AbstractQuiet

\* A step that makes no call and finds that the final point is reached.
LEMMA FinishStep ==
    ASSUME UNCHANGED ready, is_finished' \in BOOLEAN, FinishedMeansAll',
           is_finished => is_finished', pc \in {"idle", "update"},
           pc' \in {"idle", "update"}
    PROVE  AbstractFinish \/ AbstractQuiet
<1>1. SeenObjects' = SeenObjects /\ OrderedObjects' = OrderedObjects
  BY NoCallNoChange
<1>2. CASE is_finished' /\ ~is_finished
  <2>1. \A k \in Sent : InOrderCalls(k) = 1
    BY <1>2 DEF FinishedMeansAll, InOrderCalls
  <2>2. OrderedObjects = Sent
    BY <2>1 DEF OrderedObjects
  <2>3. StatusSeen = "open" /\ StatusSeen' = "finished"
    BY <1>2 DEF StatusSeen
  <2>4. QED
    BY <1>1, <2>2, <2>3 DEF AbstractFinish
<1>3. CASE is_finished' <=> is_finished
  <2>1. StatusSeen' = StatusSeen
    BY <1>3 DEF StatusSeen
  <2>2. QED
    BY <1>1, <2>1 DEF AbstractQuiet
<1>4. QED
  BY <1>2, <1>3

\* quicrq_reassembly_input hands an object ahead of its turn.
LEMMA PeekHands ==
    ASSUME TypeOK, ProgressInv, NEW k \in Sent, NEW f \in Fragments(k),
           InputPeek(k, f)
    PROVE  Handing(k, "peek")
<1> DEFINE obj == Stored(k, f)
<1>1. ~Waiting(k) /\ CanReassemble(obj)
  BY InputFacts DEF InputPeek
<1>2. /\ pc = "idle" /\ ~Before(k, NextPoint)
      /\ CallReady(k, "peek") /\ pc' \in {"idle", "failed"}
      /\ UNCHANGED is_finished
  BY <1>1 DEF InputPeek, UnchangedFinal
<1>3. k \notin SeenObjects
  BY <1>1, <1>2, CallsTell DEF ProgressInv, Passed
<1>4. ~is_finished
  <2>1. k \in Key /\ k[1] \in Group /\ k[1] \in Nat /\ k[2] \in Nat
           /\ k[2] < NbObjects[k[1]] /\ NbObjects[k[1]] \in Nat
    BY KeyShape DEF Sent
  <2>2. Before(k, FinalPoint)
    BY <2>1, FinalShape DEF Before, Group
  <2>3. QED
    BY <1>2, <2>2 DEF ProgressInv, FinalOK
<1>5. StatusSeen = "open" /\ StatusSeen' \in {"open", "closed"}
  BY <1>2, <1>4 DEF StatusSeen
<1>6. QED
  BY <1>2, <1>3, <1>5 DEF Handing

\* ... or in its turn.
LEMMA SequenceHands ==
    ASSUME TypeOK, ProgressInv, NEW k \in Sent, NEW f \in Fragments(k),
           InputInSequence(k, f)
    PROVE  Handing(k, "in_sequence")
<1> DEFINE obj == Stored(k, f)
<1>1. /\ k \in Key /\ obj \in ObjectRecord /\ ObjectOK(k, obj)
      /\ ~Waiting(k) /\ CanReassemble(obj)
  BY InputFacts DEF InputInSequence
<1>2. Follows(k)
  <2>1. EntersGroup(k, obj) \/ k = NextPoint
    BY DEF InputInSequence, NextPointAt
  <2>2. QED
    BY <1>1, <2>1, EntersGroupFollows DEF Follows
<1>3. /\ pc = "idle" /\ ~Before(k, NextPoint)
      /\ CallReady(k, "in_sequence") /\ pc' \in {"update", "failed"}
      /\ UNCHANGED is_finished
  BY <1>1 DEF InputInSequence, UnchangedFinal
<1>4. OrderedObjects = {j \in Sent : Before(j, k)} /\ ~is_finished
  BY <1>2, FollowsIsTurn
<1>5. k \notin SeenObjects
  BY <1>1, <1>3, CallsTell DEF ProgressInv, Passed
<1>6. StatusSeen = "open" /\ StatusSeen' \in {"open", "closed"}
  BY <1>3, <1>4 DEF StatusSeen
<1>7. QED
  BY <1>3, <1>4, <1>5, <1>6 DEF Handing

\* The loop of quicrq_reassembly_update_start_point hands in its turn an
\* object that was handed before.
LEMMA UpdateHands ==
    ASSUME TypeOK, ProgressInv, UpdateDeliver
    PROVE  \E k \in Sent : Handing(k, "repair")
<1>1. PICK k \in object_tree :
        /\ InOrder(k)
        /\ CallReady(k, "repair")
        /\ \E ret \in ReadyReturns :
            /\ pc' = IF ret = 0 THEN "update" ELSE "failed"
            /\ is_finished' =
                 (is_finished \/ (ret # 0 /\ ReachedFinal(<<k[1], k[2] + 1>>)))
  BY DEF UpdateDeliver
<1>2. k \in Sent
  BY DEF ProgressInv, TreeOK
<1>3. Follows(k) /\ Waiting(k)
  BY <1>1, InOrderFollows DEF InOrder, Waiting
<1>4. OrderedObjects = {j \in Sent : Before(j, k)} /\ ~is_finished
  BY <1>2, <1>3, FollowsIsTurn
<1>5. k \in SeenObjects
  BY <1>2, <1>3, CallsTell DEF ProgressInv
<1>6. StatusSeen = "open" /\ StatusSeen' \in {"open", "closed"}
  <2>1. pc = "update"
    BY DEF UpdateDeliver
  <2>2. pc' = "failed" \/ (pc' = "update" /\ ~is_finished')
    BY <1>1, <1>4
  <2>3. QED
    BY <1>4, <2>1, <2>2 DEF StatusSeen
<1>7. QED
  BY <1>1, <1>2, <1>4, <1>5, <1>6 DEF Handing

----------------------------------------------------------------------------
LEMMA DeliveryInit == Init => Delivery!Init
<1> SUFFICES ASSUME Init PROVE Delivery!Init
  OBVIOUS
<1>1. \A k \in Sent : AnyOrderCalls(k) = 0 /\ InOrderCalls(k) = 0
  BY DEF Init, Sent, AnyOrderCalls, InOrderCalls, Mode
<1>2. pc = "idle" /\ ~is_finished
  BY DEF Init
<1>3. QED
  BY <1>1, <1>2 DEF Delivery!Init, SeenObjects, OrderedObjects

\* Every step makes one call, as Handing describes it, or none.
LEMMA StepCalls ==
    ASSUME IInv, IInv', [Next]_vars
    PROVE  \/ \E k \in Sent, mode \in Mode : Handing(k, mode)
           \/ UNCHANGED ready /\ (AbstractFinish \/ AbstractQuiet)
<1> DEFINE Goal == \/ \E k \in Sent, mode \in Mode : Handing(k, mode)
                   \/ UNCHANGED ready /\ (AbstractFinish \/ AbstractQuiet)
<1>1. /\ TypeOK /\ TypeOK' /\ FinishedMeansAll'
      /\ pc \in {"idle", "update"} => ProgressInv
  BY DEF IInv, DeliveryInv
<1>2. is_finished \in BOOLEAN /\ is_finished' \in BOOLEAN
  BY <1>1 DEF TypeOK
<1>3. ASSUME NEW k \in Sent, NEW f \in Fragments(k), Input(k, f)
      PROVE  Goal
  <2>1. CASE InputPeek(k, f)
    BY <1>1, <2>1, PeekHands DEF InputPeek, Mode
  <2>2. CASE InputInSequence(k, f)
    BY <1>1, <2>2, SequenceHands DEF InputInSequence, Mode
  <2>3. CASE InputRejected(k, f)
    <3>1. UNCHANGED ready /\ pc' = "failed"
      BY <2>3 DEF InputRejected
    <3>2. QED
      BY <3>1, QuietStep
  <2>4. CASE InputIgnored(k, f) \/ InputPartial(k, f) \/ InputRepeated(k, f)
    <3>1. UNCHANGED <<ready, pc, is_finished>> /\ pc = "idle"
      BY <2>4 DEF InputIgnored, InputPartial, InputRepeated, UnchangedFinal, vars
    <3>2. QED
      BY <3>1, QuietStep
  <2>5. QED
    BY <1>3, <2>1, <2>2, <2>3, <2>4 DEF Input
<1>4. CASE UpdateDeliver
  BY <1>1, <1>4, UpdateHands DEF UpdateDeliver, Mode
<1>5. CASE UpdateDone
  <2>1. /\ UNCHANGED ready /\ pc = "update" /\ pc' = "idle"
        /\ is_finished => is_finished'
    BY <1>5 DEF UpdateDone
  <2>2. QED
    BY <1>1, <1>2, <2>1, FinishStep
<1>6. CASE LearnStartPoint
  <2>1. UNCHANGED <<ready, is_finished>> /\ pc = "idle"
    BY <1>6 DEF LearnStartPoint, UnchangedFinal
  <2>2. QED
    BY <2>1, QuietStep
<1>7. CASE LearnFinalObjectId
  <2>1. /\ UNCHANGED <<ready, pc>> /\ pc = "idle"
        /\ is_finished => is_finished'
    BY <1>7 DEF LearnFinalObjectId
  <2>2. QED
    BY <1>1, <1>2, <2>1, FinishStep
<1>8. CASE Release
  <2>1. UNCHANGED ready /\ pc' = "closed"
    BY <1>8 DEF Release
  <2>2. QED
    BY <2>1, QuietStep
<1>9. CASE UNCHANGED vars
  <2>1. UNCHANGED <<ready, pc, is_finished>>
    BY <1>9 DEF vars
  <2>2. SeenObjects' = SeenObjects /\ OrderedObjects' = OrderedObjects
    BY <2>1, NoCallNoChange
  <2>3. QED
    BY <2>1, <2>2 DEF AbstractQuiet, StatusSeen
<1>10. QED
  BY <1>3, <1>4, <1>5, <1>6, <1>7, <1>8, <1>9 DEF Next, InputAny

LEMMA DeliveryStep ==
    IInv /\ IInv' /\ [Next]_vars => [Delivery!Next]_(Delivery!vars)
<1> SUFFICES ASSUME IInv, IInv', [Next]_vars
             PROVE  AbstractHand \/ AbstractFinish \/ AbstractQuiet
  BY AbstractSteps
<1>1. QED
  BY StepCalls, HandingIsHand DEF IInv

\* The reassembly of lib/reassembly.c implements the delivery a consumer is
\* promised, for every media and every network: each object is handed once as
\* soon as it is there and once in its turn, one object a step, and the end is
\* reported from a state where all were handed in order.
THEOREM RefinesDelivery == Spec => ImplementsDelivery
<1>1. Init /\ [][Next]_vars /\ []IInv => Delivery!Init /\ [][Delivery!Next]_(Delivery!vars)
  BY DeliveryInit, DeliveryStep, PTL
<1>2. QED
  BY <1>1, InvariantHolds, PTL DEF Spec, ImplementsDelivery, Delivery!Spec
=============================================================================
