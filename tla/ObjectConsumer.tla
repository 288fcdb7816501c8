--------------------------- MODULE ObjectConsumer ---------------------------
(***************************************************************************)
(* The bridge between the reassembly of a media stream and an application  *)
(* that subscribed to its objects (lib/object_consumer.c).  The bridge is  *)
(* the ready_fn of the reassembly context: each step of Reassembly that    *)
(* calls ready_fn runs the bridge on that call, within the same step.      *)
(***************************************************************************)
EXTENDS Reassembly, Sequences, Functions

Order == {"out_of_order", "in_order", "skip_to_group_ahead"}

VARIABLES
    order_required,    \* the order that the application asked for
    bridge_group_id,   \* the next object that the bridge expects
    bridge_object_id,
    start_known,       \* the stream context has the start point
    delivered          \* history: calls of object_stream_consumer_fn

bridge_vars == <<order_required, bridge_group_id, bridge_object_id, start_known, delivered>>

consumer_vars == <<vars, bridge_vars>>

\* quicrq_subscribe_object_stream.
ConsumerInit ==
    /\ Init
    /\ order_required \in Order
    /\ bridge_group_id = 0 /\ bridge_object_id = 0
    /\ start_known = FALSE
    /\ delivered = <<>>

BridgePoint == <<bridge_group_id, bridge_object_id>>

\* start_group_id, start_object_id of the stream context.
StreamStart == IF start_known THEN StartPoint ELSE <<0, 0>>

\* quicrq_reassembly_get_object_count, in the tree as the callback finds it.
ObjectCount(g) ==
    IF <<g + 1, 0>> \in object_tree'
    THEN object'[<<g + 1, 0>>].nb_objects_previous_group ELSE 0

\* Number of objects of group g to stand in for, from object first on.
ObjectLimit(g, first) ==
    IF ObjectCount(g) > 0 THEN ObjectCount(g)
    ELSE IF first > 0 THEN first ELSE 1

\* k starts a group ahead of the one that the bridge is in.
StartsGroupAhead(k) == k[1] > bridge_group_id /\ k[2] = 0

\* The placeholders delivered before a jump to k.
Dropped(k) ==
    LET from == IF BridgePoint = <<0, 0>> THEN StreamStart ELSE BridgePoint
        First(g) == IF g = from[1] THEN from[2] ELSE 0
    IN UNION {{g} \X (First(g)..(ObjectLimit(g, First(g)) - 1)) :
                g \in from[1]..(k[1] - 1)}

\* Distinct keys as a sequence, in order: the i-th has i - 1 others before it.
InKeyOrder(S) ==
    [i \in 1..Cardinality(S) |->
        CHOOSE d \in S : Cardinality({e \in S : Before(e, d)}) = i - 1]

Late(k) == Before(k, BridgePoint)

\* A jump: the object opens a group ahead, whatever is missing before it.
Jumps(k, mode) ==
    /\ order_required = "skip_to_group_ahead"
    /\ mode = "peek"
    /\ StartsGroupAhead(k)

\* Mutant of Accepts: repairs are passed on as they are.
AcceptsRepairs(k, mode) ==
    \/ order_required = "out_of_order"
    \/ order_required = "in_order" /\ mode # "peek"
    \/ order_required = "skip_to_group_ahead" /\ (mode # "peek" \/ Jumps(k, mode))

\* Mutant of Accepts: repairs are taken for repeats.
AcceptsNoRepair(k, mode) ==
    \/ order_required = "out_of_order" /\ mode # "repair"
    \/ order_required # "out_of_order" /\ mode = "in_sequence"

\* Mutant of Accepts: every object is passed on when it is complete.
AcceptsAll(k, mode) == mode # "repair"

\* The call is passed on to the application.
Accepts(k, mode) ==
    \/ order_required = "out_of_order" /\ mode # "repair"
    \/ order_required = "in_order" /\ mode # "peek"
    \/ /\ order_required = "skip_to_group_ahead"
       /\ ~Late(k)
       /\ mode # "peek" \/ Jumps(k, mode) \/ k = BridgePoint

\* quicrq_media_object_bridge_ready.
BridgeReady(k, mode) ==
    LET dropped == IF Jumps(k, mode) THEN Dropped(k) ELSE {}
        Entry(key, placeholder) == [key |-> key, placeholder |-> placeholder]
        standins == [i \in 1..Cardinality(dropped) |->
                        Entry(InKeyOrder(dropped)[i], TRUE)]
    IN IF Accepts(k, mode)
       THEN /\ delivered' = delivered \o standins \o <<Entry(k, FALSE)>>
            /\ bridge_group_id' = k[1]
            /\ bridge_object_id' = k[2] + 1
       ELSE /\ pc' # "failed"  \* an ignored object is no error
            /\ UNCHANGED <<delivered, bridge_group_id, bridge_object_id>>

\* The call made by the reassembly in this step, if any, reaches the bridge.
BridgeStep ==
    \/ /\ ready' = ready
       /\ UNCHANGED <<delivered, bridge_group_id, bridge_object_id>>
    \/ \E k \in Key, mode \in Mode :
        /\ ready'[k][mode] # ready[k][mode]
        /\ BridgeReady(k, mode)

\* quicrq_media_object_bridge_fn: data, final point, start point and close,
\* each with the loop that follows it.
ConsumerNext ==
    /\ \/ /\ \/ InputAny
             \/ UpdateDeliver
             \/ UpdateDone
             \/ LearnFinalObjectId
             \/ Release
          /\ UNCHANGED start_known
       \/ LearnStartPoint /\ start_known' = TRUE
    /\ BridgeStep
    /\ UNCHANGED order_required

ConsumerSpec == ConsumerInit /\ [][ConsumerNext]_consumer_vars

\* With the fairness of the reassembly: the bridge only answers its calls.
ConsumerFairSpec == ConsumerSpec /\ Fairness

----------------------------------------------------------------------------
(* Properties.                                                             *)

\* The entries of objects delivered themselves.
Themselves(S) == {[key |-> k, placeholder |-> FALSE] : k \in S}

Keys(s) == {s[i].key : i \in DOMAIN s}

\* The bridge never calls the application twice for an object, placeholders
\* included, whichever order it asked for.
DeliveredOnce ==
    \A i, j \in DOMAIN delivered :
        delivered[i].key = delivered[j].key => i = j

\* The application that asked for order sees the objects in increasing
\* order, also when it skips to the group ahead while the reassembly goes on
\* repairing the groups behind.
DeliveredInOrder ==
    order_required # "out_of_order" =>
        \A i, j \in DOMAIN delivered :
            i < j => Before(delivered[i].key, delivered[j].key)

\* Without skipping, the application has received every object itself when
\* the stream finishes, and no placeholder.
DeliveredAll ==
    is_finished /\ order_required # "skip_to_group_ahead" =>
        Range(delivered) = Themselves(Sent)

\* Inductive invariant of the bridge (lib/object_consumer.c): what the
\* application was handed, told from the calls of the reassembly (no skip) or
\* from the bridge's own next point (skip).
BridgeInv ==
    /\ order_required \in Order
    /\ bridge_group_id \in Nat /\ bridge_object_id \in Nat
    /\ start_known \in BOOLEAN
    /\ delivered \in Seq([key : Nat \X Nat, placeholder : BOOLEAN])
    /\ DeliveredOnce /\ DeliveredInOrder
    /\ order_required = "out_of_order" => Range(delivered) = Themselves(SeenObjects)
    /\ order_required = "in_order" => Range(delivered) = Themselves(OrderedObjects)
    /\ order_required = "skip_to_group_ahead" =>
         \A i \in DOMAIN delivered : Before(delivered[i].key, BridgePoint)

\* With skipping, every object is there when the stream finishes, itself or
\* as a placeholder.
SkippedAreAnnounced ==
    is_finished /\ pc = "idle" /\ order_required = "skip_to_group_ahead" =>
        Sent \subseteq Keys(delivered)
=============================================================================
