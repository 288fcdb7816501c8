---------------------------- MODULE MediaSource ----------------------------
(***************************************************************************)
(* A published media as its readers see it: the fragment cache             *)
(* (lib/fragment.c) with its two orders of access, the order of arrival    *)
(* and the order of the media, and the context of one stream that reads    *)
(* it.  How overlapping fragments are merged is the matter of              *)
(* FragmentCache; here each piece of an object comes once, in any order.   *)
(* The publishers of the four transport modes extend this module.          *)
(***************************************************************************)
EXTENDS Media, Sequences, SequencesExt, FiniteSets, FiniteSetsExt

CONSTANTS Pieces,      \* for each object, the [offset, data_length] it comes in
          Modes,       \* the transport modes of the reader
          Intents,     \* the intents with which the reader may subscribe, for each mode
          RealTime,    \* the modes in which the media is real time
          Purged,      \* of these, the ones in which the source is a relay's, whose cache
                       \* is purged, and not a local one
          Congestions  \* the congestion control modes of the sender

\* quicrq_transport_mode_enum.
TransportMode == {"single_stream", "datagram", "warp", "rush"}

\* subscribe_intent of a REQUEST, with the group_id and object_id that it
\* carries for a start point.
Intent == [intent : {"start_point", "current_group", "next_group"}, point : Nat \X Nat]

ASSUME SourceAssumption ==
    /\ \A k \in Key :
        /\ UNION {Bytes(p.offset, p.data_length) : p \in Pieces[k]} = Bytes(0, ObjectLength[k])
        /\ \E p \in Pieces[k] : p.offset = 0
    /\ \A k \in Key : \A p \in Pieces[k] :
        /\ p.offset \in Nat /\ p.data_length \in Nat
        /\ p.offset + p.data_length <= ObjectLength[k]
        /\ p.data_length = 0 => ObjectLength[k] = 0
        /\ \A q \in Pieces[k] :
             p # q => \/ p.offset + p.data_length <= q.offset /\ p.data_length > 0
                      \/ q.offset + q.data_length <= p.offset /\ q.data_length > 0
    /\ Modes \subseteq TransportMode
    /\ Intents \in [Modes -> SUBSET Intent]
    /\ Purged \subseteq RealTime /\ RealTime \subseteq TransportMode
    /\ Congestions \subseteq {"none", "group", "delay"}

Origin == <<0, 0>>
NextObject(k) == <<k[1], k[2] + 1>>
NextGroup(k) == <<k[1] + 1, 0>>

\* quicrq_cached_fragment_t.  Every fragment carries object_length and flags
\* (0xff for a placeholder) of its object, the one at offset 0 also
\* nb_objects_previous_group.
Fragment ==
    UNION {{[key |-> k, offset |-> p.offset, data_length |-> p.data_length] : p \in Pieces[k]} :
             k \in Key}
NoFragment == [key |-> Origin, offset |-> -1, data_length |-> 0]

VARIABLES
    fragments,     \* fragment_tree: the fragments in the cache
    in_order,      \* first_fragment .. last_fragment: the same by rank of arrival
    arrived,       \* the fragments accepted so far, deleted ones included
    first_point,   \* first_group_id, first_object_id
    final_known,   \* final_group_id, final_object_id are set
    mode,          \* transport_mode of the reader's stream
    congestion,    \* congestion_control_mode
    intent_point,  \* intent_group, intent_object of the REQUEST, <<>> before it
    start_point,   \* start_group_id, start_object_id of the stream
    stream_final,  \* final_group_id, final_object_id of the stream are set
    woken,         \* history: the source called the stream after the REQUEST,
                   \* and after what is sent before the media
    dangling,      \* current_fragment points to a deleted fragment
    received,      \* history: the fragments passed to the consumer
    repeated       \* history: some object, or part of one, was passed twice

source_vars == <<fragments, in_order, arrived, first_point, final_known>>
stream_vars == <<mode, congestion, intent_point, start_point, stream_final, woken, dangling>>
consumer_vars == <<received, repeated>>

SourceInit ==
    /\ fragments = {} /\ in_order = <<>> /\ arrived = {}
    /\ first_point = Origin
    /\ final_known = FALSE
    /\ mode \in Modes /\ congestion \in Congestions
    /\ intent_point = <<>>
    /\ start_point = Origin
    /\ stream_final = FALSE
    /\ woken = FALSE /\ dangling = FALSE
    /\ received = {} /\ repeated = FALSE

subscribed == intent_point # <<>>

\* The datagram header has nb_objects_previous_group at offset 0 only.
CarriedPrevious(k, offset) == IF offset = 0 THEN NbPrevious(k) ELSE 0

----------------------------------------------------------------------------
(* Lookups.  c is the set of the cached fragments.                         *)

\* quicrq_fragment_cache_get_fragment.
get_fragment(c, k, offset) ==
    LET found == {f \in c : f.key = k /\ f.offset = offset}
    IN IF found = {} THEN NoFragment ELSE CHOOSE f \in found : TRUE

Cached(c, k, offset) == get_fragment(c, k, offset) # NoFragment

\* quicrq_fragment_get_object_count: the number of objects of group g, 0 as
\* long as the next group has not begun to arrive.
get_object_count(c, g) ==
    IF Cached(c, <<g + 1, 0>>, 0) THEN NbPrevious(<<g + 1, 0>>) ELSE 0

\* quicrq_fragment_object_copy_available_data: number of bytes of k that
\* follow the offset without a hole.
copy_available_data(c, k, offset) ==
    LET held == UNION {Bytes(f.offset, f.data_length) : f \in {g \in c : g.key = k}}
        end == CHOOSE e \in 0..ObjectLength[k] : Bytes(0, e) \subseteq held /\ e \notin held
    IN Max({0, end - offset})

\* highest_group_id, highest_object_id after the arrivals a.
Highest(a) ==
    LET points == {f.key : f \in a} \cup {Origin}
    IN CHOOSE p \in points : \A q \in points : ~Before(p, q)

\* next_group_id: the group up to which the objects came without a gap.
next_group_id ==
    LET Entered(g) ==
            /\ \A f \in Fragment : f.key[1] < g => f \in arrived
            /\ \E f \in arrived : f.key = <<g, 0>> /\ f.offset = 0
    IN Max({0} \cup {g \in Group : Entered(g)})

\* quicrq_compute_group_mode_congestion: objects of a group are dropped once
\* a later one is being received.  The size of the backlog is left open.
GroupCongestion(k) == congestion = "group" /\ k[1] < next_group_id

----------------------------------------------------------------------------
(* Operations of the source, without their effect on the reader.           *)

\* The list with f linked at its end.
Linked(list, f) ==
    LET last == Max(DOMAIN list \cup {0})
    IN [i \in DOMAIN list \cup {last + 1} |-> IF i \in DOMAIN list THEN list[i] ELSE f]

\* quicrq_fragment_propose_to_cache and quicrq_fragment_add_to_cache.  The
\* list in order of arrival is kept where it is read, in datagram mode.
AddToCache(f) ==
    /\ f \notin arrived
    /\ ~Before(f.key, first_point)
    /\ fragments' = fragments \cup {f}
    /\ in_order' = IF mode = "datagram" THEN Linked(in_order, f) ELSE in_order
    /\ arrived' = arrived \cup {f}
    /\ UNCHANGED <<first_point, final_known>>

\* quicrq_fragment_cache_learn_end_point.
LearnEndPoint ==
    /\ ~final_known
    /\ final_known' = TRUE
    /\ UNCHANGED <<fragments, in_order, arrived, first_point>>

\* Mutant of PurgeToGob: the deleted fragments stay in the list in order of arrival.
PurgeToGobUnlinked(read_groups) ==
    LET kept_group_id == Min({next_group_id} \cup read_groups)
    IN /\ fragments' = {f \in fragments : f.key[1] >= kept_group_id}
       /\ UNCHANGED <<in_order, first_point, arrived, final_known>>

\* quicrq_fragment_cache_media_purge_to_gob: read_groups holds the group of
\* the first object in the list of each reader that has one.
PurgeToGob(read_groups) ==
    LET kept_group_id == Min({next_group_id} \cup read_groups)
        kept == {f \in fragments : f.key[1] >= kept_group_id}
        keys == {f.key : f \in kept}
    IN /\ fragments' = kept
       /\ in_order' = Restrict(in_order, {i \in DOMAIN in_order : in_order[i] \in kept})
       /\ first_point' = IF kept = {} THEN first_point
                         ELSE CHOOSE k \in keys : \A j \in keys : ~Before(j, k)
       /\ UNCHANGED <<arrived, final_known>>

----------------------------------------------------------------------------
(* The reader's stream.                                                    *)

\* The start asked for by the intent.
IntentPoint(i) ==
    CASE i.intent = "current_group" -> <<next_group_id, 0>>
      [] i.intent = "next_group" -> <<next_group_id + 1, 0>>
      [] i.intent = "start_point" -> i.point

\* The first object to read: quicrq_fragment_publisher_subscribe starts at
\* the first point of the cache, an intent overrides it.  (The override of
\* an intent that cannot be met compares with next_group_id of the stream,
\* still 0, and never applies.)
ReadPoint(i) == IF IntentPoint(i) = Origin THEN first_point ELSE IntentPoint(i)

\* The REQUEST message, for the fields that all modes use.  The wake-up of
\* quicrq_wakeup_media_stream copies the final point of the cache.
Request(i) ==
    /\ ~subscribed
    /\ intent_point' = IntentPoint(i)
    /\ start_point' = ReadPoint(i)
    /\ stream_final' = (mode # "single_stream" /\ final_known)
    /\ UNCHANGED <<mode, congestion, woken, dangling>>

\* quicrq_wakeup_media_stream, as quicrq_source_wakeup calls it.
WakeStream ==
    /\ woken' = subscribed
    /\ stream_final' = (stream_final \/ (subscribed /\ mode # "single_stream" /\ final_known'))
    /\ UNCHANGED <<mode, congestion, intent_point, start_point, dangling>>

\* What the consumer is passed: the labels of the message, and where the
\* bytes were copied from.
Passed(k, offset, nb_previous, source, source_offset, object_length, data_length) ==
    [key |-> k, offset |-> offset, nb_previous |-> nb_previous, source |-> source,
     source_offset |-> source_offset, object_length |-> object_length,
     data_length |-> data_length]

\* The place holder of an object that is dropped.
PlaceHolder(k, nb_previous, source) == Passed(k, 0, nb_previous, source, 0, 0, 0)

\* Two messages carry the same byte, or one says that the object is empty.
Overlaps(m, n) ==
    /\ m.key = n.key
    /\ \/ Bytes(m.offset, m.data_length) \cap Bytes(n.offset, n.data_length) # {}
       \/ m.data_length = 0 \/ n.data_length = 0

Consume(m) ==
    /\ received' = received \cup {m}
    /\ repeated' = (repeated \/ \E n \in received : Overlaps(m, n))
=============================================================================
