------------------------- MODULE DatagramPublisher -------------------------
(***************************************************************************)
(* Datagram mode: the fragments are sent in the order of their arrival     *)
(* (quicrq_fragment_datagram_publisher_fn, lib/fragment.c).  The publisher *)
(* keeps a list of the objects sent in part, or sent ahead of a gap, which *)
(* it prunes from the front, and which holds back the purge of the cache.  *)
(* Loss and repeat of datagrams are the matter of DatagramAck.             *)
(***************************************************************************)
EXTENDS MediaSource

VARIABLES
    current_fragment,
    is_current_fragment_sent,
    length_sent,
    objects,             \* publisher_object_tree: the objects in the list
    is_active_datagram,
    starved,             \* history: made inactive by a packet without room
    began_at             \* history: the first object that was sent

datagram_vars == <<current_fragment, is_current_fragment_sent, length_sent, objects,
                   is_active_datagram, starved, began_at>>

\* quicrq_fragment_publisher_object_state_t.
ObjectState ==
    [bytes_sent : Nat, nb_objects_previous_group : Nat, is_dropped : BOOLEAN, is_sent : BOOLEAN]
NewObjectState ==
    [bytes_sent |-> 0, nb_objects_previous_group |-> 0, is_dropped |-> FALSE, is_sent |-> FALSE]

DatagramInit ==
    /\ current_fragment = NoFragment
    /\ is_current_fragment_sent = FALSE
    /\ length_sent = 0
    /\ objects = <<>>
    /\ is_active_datagram = FALSE /\ starved = FALSE
    /\ began_at = Origin

\* quicrq_wakeup_media_stream in datagram mode.
DatagramWakeUp ==
    /\ is_active_datagram' = TRUE
    /\ starved' = FALSE
    /\ UNCHANGED <<current_fragment, is_current_fragment_sent, length_sent, objects, began_at>>

Listed == DOMAIN objects
IsFirst(k, keys) == k \in keys /\ \A j \in keys : ~Before(j, k)
FirstListed == CHOOSE k \in Listed : IsFirst(k, Listed)

----------------------------------------------------------------------------
\* The fragment belongs to an object that was dropped, or that comes before
\* the first one of the list: it is passed over.
PassedOver(f) ==
    IF f.key \in Listed
    THEN objects[f.key].is_dropped \/ Before(f.key, start_point)
    ELSE Listed # {} /\ Before(f.key, FirstListed)

\* Mutant of Ahead: the search starts at the current fragment, not after it.
AheadFromCurrent ==
    IF current_fragment = NoFragment
    THEN {i \in DOMAIN in_order : ~Before(in_order[i].key, start_point)}
    ELSE {i \in DOMAIN in_order : \E j \in DOMAIN in_order : j <= i /\ in_order[j] = current_fragment}

\* The positions of the list, in order of arrival, to look at next.
Ahead ==
    IF current_fragment = NoFragment
    THEN {i \in DOMAIN in_order : ~Before(in_order[i].key, start_point)}
    ELSE {i \in DOMAIN in_order :
            \E j \in DOMAIN in_order : j < i /\ in_order[j] = current_fragment}

\* quicrq_fragment_datagram_publisher_check_fragment: the fragment to send
\* and whether it is sent already.
check_fragment ==
    LET ahead == IF current_fragment = NoFragment THEN Ahead
                 ELSE {i \in Ahead : ~PassedOver(in_order[i])}
        At(f, sent, length) ==
            [fragment |-> f, sent |-> sent, length_sent |-> length]
    IN IF current_fragment # NoFragment /\ ~is_current_fragment_sent
       THEN At(current_fragment, FALSE, length_sent)
       ELSE IF ahead # {} THEN At(in_order[Min(ahead)], FALSE, 0)
       ELSE IF Ahead # {} THEN At(in_order[Max(DOMAIN in_order)], TRUE, 0)
       ELSE At(current_fragment, is_current_fragment_sent, length_sent)

\* quicrq_evaluate_datagram_congestion, for the first fragment of an object
\* that is not the first of all.
MayDrop(f) ==
    /\ current_fragment # NoFragment /\ is_current_fragment_sent
    /\ f.key \notin Listed
    /\ f.key[2] # 0 /\ f.data_length > 0
    /\ GroupCongestion(f.key) \/ congestion = "delay"

\* The object that follows k in the media is in the list o, and known to.
FollowedIn(k, o) ==
    \/ NextObject(k) \in DOMAIN o
    \/ /\ NextGroup(k) \in DOMAIN o
       /\ o[NextGroup(k)].nb_objects_previous_group = k[2] + 1

\* Mutant of object_prune: the objects are removed across a gap.
object_prune_gap(o) ==
    LET keys == DOMAIN o
        Pruned(k) == \A j \in keys : ~Before(k, j) => o[j].is_sent /\ \E i \in keys : Before(j, i)
    IN [k \in {k \in keys : ~Pruned(k)} |-> o[k]]

\* quicrq_fragment_datagram_publisher_object_prune: the objects are removed
\* from the front of the list o, as long as they are sent and followed.
object_prune(o) ==
    LET keys == DOMAIN o
        Pruned(k) == \A j \in keys :
            ~Before(k, j) => o[j].is_sent /\ FollowedIn(j, o)
    IN [k \in {k \in keys : ~Pruned(k)} |-> o[k]]

\* quicrq_fragment_datagram_publisher_object_update, after n bytes of the
\* fragment f were sent, or its object was dropped.
object_update(f, dropped, n) ==
    LET old == IF f.key \in Listed THEN objects[f.key] ELSE NewObjectState
        bytes_sent == old.bytes_sent + n
        is_sent == ~dropped /\ bytes_sent >= ObjectLength[f.key]
        nb == CarriedPrevious(f.key, f.offset)
        new == [bytes_sent |-> bytes_sent, is_dropped |-> dropped, is_sent |-> is_sent,
                nb_objects_previous_group |->
                    IF nb > 0 THEN nb ELSE old.nb_objects_previous_group]
        updated == [j \in Listed \cup {f.key} |-> IF j = f.key THEN new ELSE objects[j]]
    IN IF is_sent THEN object_prune(updated) ELSE updated

Sending ==
    /\ mode = "datagram" /\ subscribed /\ ~dangling
    /\ is_active_datagram

\* quicrq_fragment_datagram_publisher_send_fragment, n bytes or a place
\* holder.
SendDatagram(n, drop) ==
    LET next == check_fragment
        f == next.fragment
        sent == f.offset + next.length_sent
    IN /\ Sending
       /\ f # NoFragment /\ ~next.sent
       /\ \/ drop /\ n = 0 /\ MayDrop(f)
          \/ ~drop /\ n \in (IF f.data_length = 0 THEN {0} ELSE 1..(f.data_length - next.length_sent))
       /\ Consume(IF drop THEN PlaceHolder(f.key, CarriedPrevious(f.key, f.offset), f.key)
                  ELSE Passed(f.key, sent, CarriedPrevious(f.key, sent), f.key, sent,
                              ObjectLength[f.key], n))
       /\ current_fragment' = f
       /\ length_sent' = next.length_sent + n
       /\ is_current_fragment_sent' = (drop \/ next.length_sent + n >= f.data_length)
       /\ objects' = object_update(f, drop, n)
       /\ began_at' = IF Listed = {} THEN f.key ELSE began_at
       /\ UNCHANGED <<is_active_datagram, starved, source_vars, stream_vars>>

\* Nothing to send, or no room for the header in the packet: the stream is
\* made inactive until the source wakes it up.  When everything is sent the
\* final point is passed on, if the wake-up has not done so.
DatagramIdle(no_room) ==
    LET next == check_fragment
    IN /\ Sending
       /\ no_room = (next.fragment # NoFragment /\ ~next.sent)
       /\ current_fragment' = next.fragment
       /\ is_current_fragment_sent' = next.sent
       /\ length_sent' = next.length_sent
       /\ is_active_datagram' = FALSE
       /\ starved' = no_room
       /\ stream_final' = (stream_final \/ (final_known /\ next.fragment # NoFragment /\ ~no_room))
       /\ UNCHANGED <<objects, began_at, source_vars, consumer_vars,
                      mode, congestion, intent_point, start_point, woken, dangling>>

DatagramPublisherNext ==
    \/ \E n \in 0..Max({f.data_length : f \in Fragment}), drop \in BOOLEAN : SendDatagram(n, drop)
    \/ \E no_room \in BOOLEAN : DatagramIdle(no_room)
=============================================================================
