----------------------------- MODULE Reassembly -----------------------------
(***************************************************************************)
(* Reassembly of media objects from fragments (lib/reassembly.c).          *)
(*                                                                         *)
(* The media is a sequence of groups, each a sequence of objects.  Every   *)
(* object is cut in fragments that the network may lose, repeat, reorder   *)
(* or cut again at other offsets.  The context keeps a tree of the objects *)
(* under reassembly and the key of the next object expected in order, and  *)
(* hands every complete object to ready_fn in one of three modes:          *)
(* "in_sequence" (it is the next object), "peek" (it is ahead of the next  *)
(* object and stays in the tree), "repair" (peeked before, now in order).  *)
(*                                                                         *)
(* The packets of an object are abstracted to the set of byte offsets they *)
(* hold; module PacketList models the list itself and shows that its       *)
(* insertion computes that set.  Payload, flags and queue delays are left  *)
(* out.  The loop of quicrq_reassembly_update_start_point calls ready_fn   *)
(* once per turn, so each turn is a step; while the loop runs (pc =        *)
(* "update") no other operation is enabled.                                *)
(***************************************************************************)
EXTENDS Media, FiniteSets

CONSTANT OtherLengths  \* other lengths announced for a placeholder when the
                       \* sender repeats it (see quicrq_datagram_ack_init)

ASSUME PlaceholderAssumption ==
    /\ OtherLengths \in [Key -> SUBSET (Nat \ {0})]
    /\ \A k \in Key : OtherLengths[k] # {} => ObjectLength[k] = 0

\* What the network can deliver of object k: any piece of it, any number of
\* times, or the repeat of a placeholder under another length.
Fragments(k) ==
    {f \in [offset : 0..ObjectLength[k], data_length : 0..ObjectLength[k],
            object_length : {ObjectLength[k]}] :
        /\ f.offset + f.data_length <= f.object_length
        /\ f.data_length = 0 => f.object_length = 0}
    \cup
    [offset : {0}, data_length : {0}, object_length : OtherLengths[k]]

VARIABLES
    object_tree,     \* keys of the objects under reassembly
    object,          \* their records
    next_group_id,   \* key of the next object expected in order
    next_object_id,
    final_group_id,  \* final point, <<0, 0>> while it is not known
    final_object_id,
    is_finished,
    pc,              \* "idle", "update" while the loop of update_start_point
                     \* runs, "failed" after an error, "closed" once released
    ready            \* history: number of ready_fn calls per key and mode

vars == <<object_tree, object, next_group_id, next_object_id, final_group_id,
          final_object_id, is_finished, pc, ready>>

Mode == {"in_sequence", "peek", "repair"}

NextPoint == <<next_group_id, next_object_id>>

\* A record of the tree, as calloc'ed by quicrq_reassembly_object_create.
NewObject == [object_length |-> 0, nb_objects_previous_group |-> 0,
              is_last_received |-> FALSE, bytes |-> {}, reassembled |-> FALSE]

ObjectRecord ==
    [object_length : Nat, nb_objects_previous_group : Nat,
     is_last_received : BOOLEAN, bytes : SUBSET Nat, reassembled : BOOLEAN]

\* Type invariant of the reassembly context.
TypeOK ==
    /\ object_tree \in SUBSET Key
    /\ object \in [Key -> ObjectRecord]
    /\ next_group_id \in Nat /\ next_object_id \in Nat
    /\ final_group_id \in Nat /\ final_object_id \in Nat
    /\ is_finished \in BOOLEAN
    /\ pc \in {"idle", "update", "failed", "closed"}
    /\ ready \in [Key -> [Mode -> Nat]]

Init ==
    /\ object_tree = {}
    /\ object = [k \in Key |-> NewObject]
    /\ next_group_id = 0 /\ next_object_id = 0
    /\ final_group_id = 0 /\ final_object_id = 0
    /\ is_finished = FALSE
    /\ pc = "idle"
    /\ ready = [k \in Key |-> [m \in Mode |-> 0]]

----------------------------------------------------------------------------
(* Steps of quicrq_reassembly_input, as operators on the record of key k.  *)

\* The record found in the tree, or the one created for the fragment.
FoundOrCreated(k, f) ==
    IF k \in object_tree THEN object[k]
    ELSE [NewObject EXCEPT !.object_length = f.object_length]

\* The record once the fragment's header is read.
HeaderRead(k, f) ==
    LET obj == FoundOrCreated(k, f)
    IN [obj EXCEPT
          !.nb_objects_previous_group =
              IF k[2] = 0 /\ f.offset = 0 THEN NbPrevious(k) ELSE @,
          !.is_last_received =
              @ \/ f.offset + f.data_length >= obj.object_length]

\* The fragment's end and announced length agree with the record.
LengthAgrees(k, f) ==
    LET obj == FoundOrCreated(k, f)
        end == f.offset + f.data_length
    IN IF end >= obj.object_length THEN end = obj.object_length
       ELSE f.object_length = obj.object_length

\* The record with the fragment's bytes added.
Stored(k, f) ==
    [HeaderRead(k, f) EXCEPT !.bytes = @ \cup Bytes(f.offset, f.data_length)]

\* All bytes are there, by their count.
IsComplete(obj) ==
    /\ obj.is_last_received
    /\ Cardinality(obj.bytes) >= obj.object_length

\* The checks of quicrq_reassembly_object_reassemble: no hole, no excess.
CanReassemble(obj) == obj.bytes = Bytes(0, obj.object_length)

\* Mutant of EntersGroup: the count of the current group is not compared.
EntersGroupEarly(k, obj) == k[1] = next_group_id + 1 /\ k[2] = 0

\* k is the first object of the next group and the current group is done.
EntersGroup(k, obj) ==
    /\ k[1] = next_group_id + 1
    /\ k[2] = 0
    /\ obj.nb_objects_previous_group <= next_object_id

\* The next point after that test.
NextPointAt(k, obj) == IF EntersGroup(k, obj) THEN k ELSE NextPoint

\* Mutant of CallReady: objects ahead of the next one are kept back.
CallReadyInOrderOnly(k, mode) ==
    ready' = [ready EXCEPT ![k][mode] = IF mode = "peek" THEN @ ELSE @ + 1]

\* ready_fn is called for k; the application decides what it returns.
CallReady(k, mode) == ready' = [ready EXCEPT ![k][mode] = @ + 1]

ReadyReturns == {0, -1}

\* Mutant of SetNext: off by one.
SetNextLow(point) == next_group_id' = point[1] /\ next_object_id' = point[2] - 1

SetNext(point) == next_group_id' = point[1] /\ next_object_id' = point[2]

SetObject(k, obj) ==
    /\ object_tree' = object_tree \cup {k}
    /\ object' = [object EXCEPT ![k] = obj]

DeleteObject(k) ==
    /\ object_tree' = object_tree \ {k}
    /\ object' = [object EXCEPT ![k] = NewObject]

UnchangedFinal == UNCHANGED <<final_group_id, final_object_id, is_finished>>

----------------------------------------------------------------------------
(* quicrq_reassembly_input, one action per way out of it.                  *)

\* The object was delivered already: nothing to do.
InputIgnored(k, f) ==
    /\ pc = "idle"
    /\ Before(k, NextPoint)
    /\ UNCHANGED vars

\* The announced length contradicts the record: error, the connection ends.
InputRejected(k, f) ==
    /\ pc = "idle"
    /\ ~Before(k, NextPoint)
    /\ ~LengthAgrees(k, f)
    /\ SetObject(k, HeaderRead(k, f))
    /\ pc' = "failed"
    /\ UNCHANGED <<next_group_id, next_object_id, ready>>
    /\ UnchangedFinal

\* The object is still incomplete.
InputPartial(k, f) ==
    /\ pc = "idle"
    /\ ~Before(k, NextPoint)
    /\ LengthAgrees(k, f)
    /\ ~IsComplete(Stored(k, f))
    /\ SetObject(k, Stored(k, f))
    /\ UNCHANGED <<next_group_id, next_object_id, pc, ready>>
    /\ UnchangedFinal

\* The object was complete and peeked before: it is not delivered again.
InputRepeated(k, f) ==
    /\ pc = "idle"
    /\ ~Before(k, NextPoint)
    /\ LengthAgrees(k, f)
    /\ IsComplete(Stored(k, f))
    /\ Stored(k, f).reassembled
    /\ SetObject(k, Stored(k, f))
    /\ SetNext(NextPointAt(k, Stored(k, f)))
    /\ UNCHANGED <<pc, ready>>
    /\ UnchangedFinal

\* Mutant of InputPeek: the test of the reassembled buffer is missing.
InputPeekAgain(k, f) ==
    /\ pc = "idle"
    /\ ~Before(k, NextPoint)
    /\ LengthAgrees(k, f)
    /\ IsComplete(Stored(k, f))
    /\ NextPointAt(k, Stored(k, f)) # k
    /\ SetObject(k, [Stored(k, f) EXCEPT !.reassembled = TRUE])
    /\ CallReady(k, "peek")
    /\ UNCHANGED <<next_group_id, next_object_id, pc>>
    /\ UnchangedFinal

\* The fragment completes an object ahead of the next one.
InputPeek(k, f) ==
    /\ pc = "idle"
    /\ ~Before(k, NextPoint)
    /\ LengthAgrees(k, f)
    /\ LET obj == Stored(k, f) IN
       /\ IsComplete(obj)
       /\ ~obj.reassembled
       /\ NextPointAt(k, obj) # k
       /\ SetObject(k, [obj EXCEPT !.reassembled = CanReassemble(obj)])
       /\ IF CanReassemble(obj)
          THEN /\ CallReady(k, "peek")
               /\ \E ret \in ReadyReturns :
                    pc' = IF ret = 0 THEN "idle" ELSE "failed"
          ELSE pc' = "failed" /\ UNCHANGED ready
    /\ UNCHANGED <<next_group_id, next_object_id>>
    /\ UnchangedFinal

\* Mutant of InputInSequence: the objects that wait behind are not looked at.
InputInSequenceAlone(k, f) ==
    /\ pc = "idle"
    /\ ~Before(k, NextPoint)
    /\ LengthAgrees(k, f)
    /\ IsComplete(Stored(k, f))
    /\ ~Stored(k, f).reassembled
    /\ NextPointAt(k, Stored(k, f)) = k
    /\ CallReady(k, "in_sequence")
    /\ DeleteObject(k)
    /\ SetNext(<<k[1], k[2] + 1>>)
    /\ UNCHANGED pc
    /\ UnchangedFinal

\* The fragment completes the next object: deliver it, delete it, move to
\* the next object and start the loop of update_start_point.
InputInSequence(k, f) ==
    /\ pc = "idle"
    /\ ~Before(k, NextPoint)
    /\ LengthAgrees(k, f)
    /\ LET obj == Stored(k, f) IN
       /\ IsComplete(obj)
       /\ ~obj.reassembled
       /\ NextPointAt(k, obj) = k
       /\ \/ /\ CanReassemble(obj)
             /\ CallReady(k, "in_sequence")
             /\ DeleteObject(k)
             /\ SetNext(<<k[1], k[2] + 1>>)
             /\ pc' = "update"
          \/ /\ SetObject(k, [obj EXCEPT !.reassembled = CanReassemble(obj)])
             /\ IF CanReassemble(obj) THEN CallReady(k, "in_sequence")
                ELSE UNCHANGED ready
             /\ SetNext(k)
             /\ pc' = "failed"
    /\ UnchangedFinal

Input(k, f) ==
    \/ InputIgnored(k, f)
    \/ InputRejected(k, f)
    \/ InputPartial(k, f)
    \/ InputRepeated(k, f)
    \/ InputPeek(k, f)
    \/ InputInSequence(k, f)

----------------------------------------------------------------------------
(* quicrq_reassembly_update_start_point: one turn of its loop, its end.    *)

NextGroupStart == <<next_group_id + 1, 0>>

\* The object in order, if it is in the tree and reassembled: the one at the
\* next point, or the first of the next group when the current one is done.
InOrder(k) ==
    /\ k \in object_tree
    /\ object[k].reassembled
    /\ \/ k = NextPoint
       \/ /\ NextPoint \notin object_tree
          /\ k = NextGroupStart
          /\ object[k].nb_objects_previous_group = next_object_id

\* Mutant of ReachedFinal: only the group is compared.
ReachedFinalGroup(point) ==
    /\ final_group_id > 0 \/ final_object_id > 0
    /\ point[1] >= final_group_id

\* The test at the end of the loop.
ReachedFinal(point) ==
    /\ final_group_id > 0 \/ final_object_id > 0
    /\ point[1] >= final_group_id
    /\ point[2] >= final_object_id

\* Deliver the object in order; an error of ready_fn ends the loop, with the
\* object deleted and the next point past it all the same.
UpdateDeliver ==
    /\ pc = "update"
    /\ \E k \in object_tree :
        /\ InOrder(k)
        /\ CallReady(k, "repair")
        /\ DeleteObject(k)
        /\ SetNext(<<k[1], k[2] + 1>>)
        /\ \E ret \in ReadyReturns :
            /\ pc' = IF ret = 0 THEN "update" ELSE "failed"
            /\ is_finished' =
                 (is_finished \/ (ret # 0 /\ ReachedFinal(<<k[1], k[2] + 1>>)))
    /\ UNCHANGED <<final_group_id, final_object_id>>

\* No object in order is left.
UpdateDone ==
    /\ pc = "update"
    /\ ~\E k \in object_tree : InOrder(k)
    /\ is_finished' = (is_finished \/ ReachedFinal(NextPoint))
    /\ pc' = "idle"
    /\ UNCHANGED <<object_tree, object, next_group_id, next_object_id,
                   final_group_id, final_object_id, ready>>

----------------------------------------------------------------------------
\* Mutant of LearnStartPoint: the objects received early are not looked at.
LearnStartPointAlone ==
    /\ pc = "idle"
    /\ Before(NextPoint, StartPoint)
    /\ SetNext(StartPoint)
    /\ UNCHANGED <<object_tree, object, pc, ready>>
    /\ UnchangedFinal

\* quicrq_reassembly_learn_start_point: only ever moves forward.
LearnStartPoint ==
    /\ pc = "idle"
    /\ Before(NextPoint, StartPoint)
    /\ SetNext(StartPoint)
    /\ pc' = "update"
    /\ UNCHANGED <<object_tree, object, ready>>
    /\ UnchangedFinal

\* Mutant of LearnFinalObjectId: the point is stored and not compared.
LearnFinalLater ==
    /\ pc = "idle"
    /\ final_group_id' = FinalPoint[1]
    /\ final_object_id' = FinalPoint[2]
    /\ UNCHANGED <<object_tree, object, next_group_id, next_object_id,
                   is_finished, pc, ready>>

\* quicrq_reassembly_learn_final_object_id.
LearnFinalObjectId ==
    /\ pc = "idle"
    /\ \/ final_group_id = 0 /\ final_object_id = 0
       \/ final_group_id = FinalPoint[1] /\ final_object_id = FinalPoint[2]
    /\ final_group_id' = FinalPoint[1]
    /\ final_object_id' = FinalPoint[2]
    /\ is_finished' = (is_finished \/ ~Before(NextPoint, FinalPoint))
    /\ UNCHANGED <<object_tree, object, next_group_id, next_object_id, pc, ready>>

\* quicrq_reassembly_release: the objects are freed, the context wiped.
Release ==
    /\ pc \in {"idle", "failed"}
    /\ object_tree' = {}
    /\ object' = [k \in Key |-> NewObject]
    /\ SetNext(<<0, 0>>)
    /\ final_group_id' = 0 /\ final_object_id' = 0
    /\ is_finished' = FALSE
    /\ pc' = "closed"
    /\ UNCHANGED ready

----------------------------------------------------------------------------
InputAny == \E k \in Sent : \E f \in Fragments(k) : Input(k, f)

Next ==
    \/ InputAny
    \/ UpdateDeliver
    \/ UpdateDone
    \/ LearnStartPoint
    \/ LearnFinalObjectId
    \/ Release

Spec == Init /\ [][Next]_vars

\* The transport gets every byte of every object through in the end
\* (retransmission by the QUIC stack, repeat of lost datagrams), and the
\* callbacks run to their end.
ArrivalOf(k, b) ==
    \E f \in Fragments(k) :
        /\ f.object_length = ObjectLength[k]
        /\ b \in Bytes(f.offset, f.data_length) \/ f.data_length = 0
        /\ Input(k, f)

Fairness ==
    /\ \A k \in Sent : \A b \in 0..ObjectLength[k] : WF_vars(ArrivalOf(k, b))
    /\ WF_vars(UpdateDeliver) /\ WF_vars(UpdateDone)
    /\ WF_vars(LearnStartPoint) /\ WF_vars(LearnFinalObjectId)

FairSpec == Spec /\ Fairness

----------------------------------------------------------------------------
(* Properties.                                                             *)

\* Calls that a consumer subscribed "in order" takes, and those that a
\* consumer subscribed "out of order" takes.
InOrderCalls(k) == ready[k]["in_sequence"] + ready[k]["repair"]
AnyOrderCalls(k) == ready[k]["in_sequence"] + ready[k]["peek"]

\* The objects that the one and the other were handed so far.
OrderedObjects == {k \in Sent : InOrderCalls(k) > 0}
SeenObjects == {k \in Sent : AnyOrderCalls(k) > 0}

\* However the fragments are repeated, cut and reordered, neither kind of
\* consumer is handed an object twice (the reassembled test of
\* quicrq_reassembly_input and the deletions of the update loop).
AtMostOnce ==
    \A k \in Key : InOrderCalls(k) <= 1 /\ AnyOrderCalls(k) <= 1

\* Objects are handed in order without a gap: when one was handed "in
\* sequence" or as a "repair", so was every earlier object from the start
\* point on, across group boundaries.
InOrderPrefix ==
    \A j, k \in Sent :
        Before(j, k) /\ InOrderCalls(k) > 0 => InOrderCalls(j) > 0

\* A consumer that ignores repairs misses nothing: what is repaired was
\* peeked before, even when the start point was learned after the peek.
RepairWasPeeked ==
    \A k \in Key : ready[k]["repair"] <= ready[k]["peek"]

\* When a call returns, no object that could be delivered in order is left
\* waiting in the tree, the first of the next group included.
NoStall == pc = "idle" => ~\E k \in object_tree : InOrder(k)

\* is_finished, which makes the stream close, is set only once every object
\* sent was delivered in order (the two tests of the final point differ: one
\* is lexicographic, the other compares the coordinates).
FinishedMeansAll ==
    is_finished => \A k \in Sent : InOrderCalls(k) = 1

\* ... and it is set as soon as that is the case and the final point known.
AllMeansFinished ==
    /\ pc = "idle"
    /\ final_group_id > 0 \/ final_object_id > 0
    /\ \A k \in Sent : InOrderCalls(k) = 1
    => is_finished

----------------------------------------------------------------------------
(* The inductive invariant behind these properties.                        *)

\* The objects handed in order are those before the next point ...
Passed(k) == k \in Sent /\ Before(k, NextPoint)

\* ... and those handed ahead of their turn wait in the tree.
Waiting(k) == k \in object_tree /\ object[k].reassembled

\* A record holds bytes of the object, and the count of the previous group
\* once its first byte is there.
ObjectOK(k, obj) ==
    /\ obj.object_length \in {ObjectLength[k]} \cup OtherLengths[k]
    /\ obj.bytes \subseteq Bytes(0, obj.object_length)
    /\ obj.reassembled => obj.is_last_received /\ CanReassemble(obj)
    /\ k[2] = 0 /\ (obj.object_length = 0 \/ 0 \in obj.bytes)
        => obj.nb_objects_previous_group = NbPrevious(k)

TreeOK ==
    \A k \in object_tree :
        k \in Sent /\ ObjectOK(k, object[k]) /\ ~Before(k, NextPoint)

\* The next point is at an object or at the end of a group, and it is still
\* at its initial value or past the start point.
NextPointOK ==
    /\ next_group_id \in Group
    /\ next_object_id <= NbObjects[next_group_id]
    /\ NextPoint = <<0, 0>> \/ ~Before(NextPoint, StartPoint)

CallsOK ==
    \A k \in Key :
        /\ InOrderCalls(k) = IF Passed(k) THEN 1 ELSE 0
        /\ AnyOrderCalls(k) = IF Passed(k) \/ Waiting(k) THEN 1 ELSE 0

FinalOK ==
    /\ \/ final_group_id = 0 /\ final_object_id = 0
       \/ final_group_id = FinalPoint[1] /\ final_object_id = FinalPoint[2]
    /\ is_finished => NextPoint = FinalPoint

ProgressInv == TreeOK /\ NextPointOK /\ CallsOK /\ FinalOK

\* The properties that outlive an error or the release of the context.
DeliveryInv ==
    AtMostOnce /\ InOrderPrefix /\ RepairWasPeeked /\ FinishedMeansAll

\* Inductive invariant of the reassembly (lib/reassembly.c): the calls made
\* so far, the next point and the tree agree as long as no error occurred.
IInv ==
    /\ TypeOK
    /\ pc \in {"idle", "update"} => ProgressInv
    /\ DeliveryInv
    /\ NoStall
    /\ pc = "idle" /\ (final_group_id > 0 \/ final_object_id > 0)
         /\ NextPoint = FinalPoint => is_finished

----------------------------------------------------------------------------
\* The reassembly implements the abstract delivery: an object is seen when it
\* is handed "in sequence" or as a "peek", ordered when it is handed "in
\* sequence" or as a "repair".
Delivery == INSTANCE ObjectDelivery WITH
    Objects <- Sent,
    Precedes <- Before,
    seen <- SeenObjects,
    ordered <- OrderedObjects,
    status <- IF pc \in {"failed", "closed"} THEN "closed"
              ELSE IF is_finished THEN "finished" ELSE "open"

\* Every step of the reassembly hands at most one object, as ObjectDelivery
\* allows it, and finishes only where ObjectDelivery may finish.
ImplementsDelivery == Delivery!Spec

\* When the transport gets every byte through, the reassembly finishes,
\* unless the application or a contradictory length ends it.
EventuallyFinished == <>(is_finished \/ pc \in {"failed", "closed"})
=============================================================================
