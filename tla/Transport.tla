----------------------------- MODULE Transport -----------------------------
(***************************************************************************)
(* A source and one reader in any of the four transport modes: fragments   *)
(* arrive in any order, before and after the reader subscribes, the source *)
(* wakes the reader up, the publisher of the mode sends, and the cache of  *)
(* a real time media is purged in between.                                 *)
(***************************************************************************)
EXTENDS StreamPublisher, DatagramPublisher, UniStreams

vars == <<source_vars, stream_vars, consumer_vars, publisher_vars, datagram_vars, uni_vars>>

TransportInit == SourceInit /\ PublisherInit /\ DatagramInit /\ UniInit

\* quicrq_source_wakeup, for the one reader.
WakeUp ==
    \/ /\ ~subscribed \/ control = "deleted"
       /\ UNCHANGED <<publisher_vars, datagram_vars, uni_vars>>
    \/ /\ subscribed /\ control = "open"
       /\ \/ /\ mode = "single_stream"
             /\ StreamWakeUp
             /\ UNCHANGED <<datagram_vars, uni_vars>>
          \/ /\ mode = "datagram"
             /\ DatagramWakeUp
             /\ UNCHANGED <<publisher_vars, uni_vars>>
          \/ /\ OnUniStreams
             /\ UniWakeUp
             /\ UNCHANGED <<publisher_vars, datagram_vars>>

\* A fragment reaches the source (quicrq_relay_datagram_receive_data_cb, or
\* the object source).
Arrive(f) ==
    /\ AddToCache(f)
    /\ WakeStream /\ WakeUp
    /\ UNCHANGED consumer_vars

\* The source learns the end of the media.
LearnEnd ==
    /\ LearnEndPoint
    /\ WakeStream /\ WakeUp
    /\ UNCHANGED consumer_vars

\* The REQUEST of the reader.  The wake-up comes before is_sender is set: it
\* creates no unidirectional stream.
Subscribe(i) ==
    /\ Request(i)
    /\ \/ /\ mode = "single_stream"
          /\ StreamRequest(i)
          /\ UNCHANGED datagram_vars
       \/ /\ mode = "datagram"
          /\ DatagramWakeUp
          /\ UNCHANGED publisher_vars
       \/ /\ OnUniStreams
          /\ UNCHANGED <<publisher_vars, datagram_vars>>
    /\ UNCHANGED <<source_vars, consumer_vars, uni_vars>>

\* quicrq_manage_relay_cache on the real time cache of a relay.  Only a
\* datagram reader has a list of objects; current_fragment may be among those
\* deleted.
Purge ==
    LET pointed == IF mode = "datagram" THEN current_fragment ELSE reader.fragment
    IN /\ mode \in Purged
       /\ PurgeToGob(IF Listed = {} THEN {} ELSE {FirstListed[1]})
       /\ <<fragments, first_point>>' # <<fragments, first_point>>
       /\ dangling' = (dangling \/ (pointed # NoFragment /\ pointed \notin fragments'))
       /\ UNCHANGED <<mode, congestion, intent_point, start_point, stream_final, woken>>
       /\ UNCHANGED <<consumer_vars, publisher_vars, datagram_vars, uni_vars>>

\* What the media, the subscription and the streams do by themselves.
Progress ==
    \/ \E f \in Fragment : Arrive(f)
    \/ LearnEnd
    \/ \E i \in Intents[mode] : Subscribe(i)
    \/ StreamPublisherNext /\ UNCHANGED <<datagram_vars, uni_vars>>
    \/ DatagramPublisherNext /\ UNCHANGED <<publisher_vars, uni_vars>>
    \/ \E s \in DOMAIN uni : UniStreamStep(s) /\ UNCHANGED <<publisher_vars, datagram_vars>>

\* The control stream ends when the receiver wants it to.
ControlEnds == (SenderDeletes \/ PeerDeletes) /\ UNCHANGED <<publisher_vars, datagram_vars>>

TransportNext == Progress \/ Purge \/ ControlEnds

TransportSpec == TransportInit /\ [][TransportNext]_vars

----------------------------------------------------------------------------
(* Properties.                                                             *)

MessageType ==
    [key : Nat \X Nat, offset : Nat, nb_previous : Nat, source : Key, source_offset : Nat,
     object_length : Nat, data_length : Nat]

\* The fields of the contexts of lib/quicrq_internal.h and
\* lib/quicrq_fragment.h hold values of their types.
TransportTypeOK ==
    /\ fragments \subseteq arrived /\ arrived \subseteq Fragment
    /\ mode = "datagram" => Range(in_order) = fragments
    /\ first_point \in {Origin} \cup Key
    /\ start_point \in Nat \X Nat
    /\ received \subseteq MessageType
    /\ reader.fragment \in Fragment \cup {NoFragment}
    /\ send_state \in SendState
    /\ current_fragment \in Fragment \cup {NoFragment}
    /\ Listed \subseteq Key /\ \A k \in Listed : objects[k] \in ObjectState
    /\ DOMAIN uni \subseteq Key /\ DOMAIN wire = DOMAIN uni /\ DOMAIN peer_uni = DOMAIN uni

\* Every message says what it carries: the bytes are those of the object and
\* offset on the label, the length is that of the object (0 when it is
\* dropped), and the first object of a group tells the size of the previous
\* one.  The single stream counts groups and objects on its own, warp and
\* rush receivers rebuild them from the headers of the stream.
TrueFragments ==
    \A m \in received :
        /\ m.source = m.key
        /\ m.source_offset = m.offset
        /\ m.object_length = IF m.data_length = 0 THEN 0 ELSE ObjectLength[m.key]
        /\ (m.key[2] = 0 /\ m.offset = 0 /\ start_point[1] < m.key[1])
               => m.nb_previous = NbPrevious(m.key)

IsLastFragment(m) == m.offset + m.data_length >= m.object_length

\* Message n comes right after message m in the media.
ComesAfter(n, m) ==
    \/ n.key = m.key /\ ~IsLastFragment(m) /\ n.offset = m.offset + m.data_length
    \/ n.key \in {NextObject(m.key), NextGroup(m.key)} /\ IsLastFragment(m) /\ n.offset = 0

\* The messages of a single stream are in order, as doc/protocol.md requires:
\* each continues the object of the previous one, or starts the next object
\* or the next group after a last fragment.
StreamInOrder ==
    [][\/ last_sent = NoMessage
       \/ last_sent' = last_sent
       \/ ComesAfter(last_sent', last_sent)]_vars

\* No byte is passed to the consumer twice, and no object is both dropped and
\* sent, whatever the order of arrival and the purges: the list of objects of
\* the datagram publisher sees to it.  No wake-up opens a second stream for an
\* object of a rush media or a group of a warp media that has one.
SentOnce == ~repeated /\ ~opened_twice

\* The object was passed to the consumer, or a place holder for it.
Complete(k) ==
    LET of == {m \in received : m.key = k}
    IN \/ \E m \in of : m.data_length = 0
       \/ /\ of # {}
          /\ UNION {Bytes(m.offset, m.data_length) : m \in of} = Bytes(0, ObjectLength[k])

Carries(s, k) == k[1] = s[1] /\ (mode = "rush" => k = s)

\* An end is announced only when nothing is missing: the final point of a
\* single stream is that of the media and all objects from the start went
\* before it; the FIN of a warp or rush stream comes after every object of
\* the group, or after the object.
ClosedMeansSent ==
    /\ announced # NoMessage =>
        /\ announced = FinalPoint
        /\ \A k \in Key : Before(k, start_point) \/ Complete(k)
    /\ \A s \in DOMAIN peer_uni, k \in Key :
        peer_uni[s].receive_state = "closed" /\ Carries(s, k) => Complete(k)

\* The receiver understands what the sender writes on a warp or rush stream:
\* no callback fails, however the streams are interleaved, except on streams
\* that outlive the control stream.
NoUniStreamError == uni_error => peer_control = "deleted"

\* A purge of the cache spares what a datagram reader has still to send: from
\* the first object that it sent on, only objects that it sent or dropped are
\* deleted.
PurgeSparesDatagrams ==
    \A f \in arrived \ fragments :
        (mode = "datagram" /\ Listed # {} /\ ~Before(f.key, began_at)) => Complete(f.key)

\* The same for a single stream, which keeps no list of objects:
\* lib/quicrq_fragment.h says of the purge that what is kept goes down to the
\* "lowest of current read point for any reader".
PurgeSparesStreams ==
    \A f \in arrived \ fragments :
        (mode = "single_stream" /\ subscribed /\ ~Before(f.key, start_point)) => Complete(f.key)

----------------------------------------------------------------------------
(* Liveness.  The media arrives in full and the reader subscribes; picoquic *)
(* calls an active stream back until it is made inactive, and delivers     *)
(* what is sent on a stream.                                               *)

TransportFairSpec == TransportSpec /\ WF_vars(Progress)

\* The source has not called the reader since it is ready for it: a warp or
\* rush reader since the REQUEST, whose own wake-up comes before is_sender is
\* set; a single stream since START_POINT was sent, and the poll that sent it
\* made the stream inactive.
NotCalled ==
    \/ OnUniStreams /\ ~woken
    \/ send_state = "ready" /\ ~woken

\* The other cases in which the code leaves the reader without what it asked
\* for: the pointer into the cache was freed; the last datagram found no room
\* for its header; the control stream was closed; the stream starts at an
\* object that has no bytes, for which the probe waits.
Abandoned ==
    \/ dangling \/ starved \/ control = "deleted"
    \/ send_state = "ready" /\ start_point \in Key /\ ObjectLength[start_point] = 0

\* ... and those in which it leaves out an object: the index of the rush
\* streams was past it when its group was entered; the datagram reader had
\* begun with a later one.
LeftOut(k) ==
    \/ Before(k, start_point) \/ Before(k, began_at)
    \/ k \in passed_by

\* Every object ends up at the consumer, in each mode and for each order of
\* arrival, subscription and purge, once the source has called the reader and
\* but for the cases above: no stream stays inactive with something to send.
EventuallyServed ==
    <>[](NotCalled \/ Abandoned \/ \A k \in Key : LeftOut(k) \/ Complete(k))

\* Every object from the start point on ends up at the consumer, whenever the
\* last of the media reached the source: doc/Relay_Architecture.md says of an
\* arrival that it marks "every stream waiting for the media" as ready.
StreamServed ==
    <>[](\A k \in Key : Before(k, start_point) \/ Complete(k))

----------------------------------------------------------------------------
(* The inductive invariant of the warp and rush streams: the messages in   *)
(* flight take the receiver, one by one, to the place of the sender.       *)

UniContext ==
    [send_state : {"open", "header_sent", "object_data", "closed"},
     object : Nat, offset : Nat, length : Nat, active : BOOLEAN, last : Nat]
PeerContext ==
    [receive_state : {"none", "open", "warp_header", "object_header", "object_data", "closed"},
     object : Nat, offset : Nat, length : Nat, nb_previous : Nat]

\* The objects of the stream end before this one.
EndOf(s) == IF mode = "rush" THEN s[2] + 1 ELSE NbObjects[s[1]]

\* A place on a stream.
Place(phase, object, offset) == [phase |-> phase, object |-> object, offset |-> offset]
AtOpening(s) == Place("open", s[2], 0)
AtHeader(object) == Place("header", object, 0)
AtData(object, offset) == Place("data", object, offset)
AtEnd == Place("closed", 0, 0)

SenderPlace(s) ==
    LET u == uni[s]
    IN CASE u.send_state = "open" -> AtOpening(s)
         [] u.send_state = "header_sent" -> AtHeader(u.object)
         [] u.send_state = "object_data" -> AtData(u.object, u.offset)
         [] u.send_state = "closed" -> AtEnd

\* On a rush stream the receiver's context counts from 0.
PeerPlace(s) ==
    LET p == peer_uni[s]
    IN CASE p.receive_state \in {"none", "open"} -> AtOpening(s)
         [] p.receive_state = "warp_header" -> AtHeader(s[2])
         [] p.receive_state = "object_header" ->
                AtHeader(IF mode = "rush" THEN s[2] + 1 ELSE p.object)
         [] p.receive_state = "object_data" -> AtData(p.object, p.offset)
         [] p.receive_state = "closed" -> AtEnd

\* The message m of stream s continues from place a, ...
Continues(s, a, m) ==
    CASE m.type = "warp_header" -> a = AtOpening(s)
      [] m.type = "object_header" -> a = AtHeader(m.object)
      [] m.type = "data" -> a = AtData(m.source[2], m.offset)
      [] m.type = "fin" -> a.phase = "header" /\ a.object >= EndOf(s)

\* ... to this one.
After(s, m) ==
    CASE m.type = "warp_header" -> AtHeader(s[2])
      [] m.type = "object_header" ->
            IF m.length = 0 THEN AtHeader(m.object + 1) ELSE AtData(m.object, 0)
      [] m.type = "data" ->
            IF m.offset + m.length < ObjectLength[m.source]
            THEN AtData(m.source[2], m.offset + m.length) ELSE AtHeader(m.source[2] + 1)
      [] m.type = "fin" -> AtEnd

InStep(s) ==
    LET w == wire[s]
    IN /\ w = <<>> => PeerPlace(s) = SenderPlace(s)
       /\ w # <<>> => Continues(s, PeerPlace(s), w[1]) /\ After(s, w[Len(w)]) = SenderPlace(s)
       /\ \A i \in 1..(Len(w) - 1) : Continues(s, After(s, w[i]), w[i + 1])

\* The messages say what the objects are.
HeaderMessage(s) ==
    {m \in [type : {"object_header"}, object : Nat, nb_previous : Nat, length : Nat] :
        LET k == <<s[1], m.object>>
        IN /\ k \in Key /\ Carries(s, k)
           /\ m.nb_previous = NbPrevious(k) /\ m.length \in {0, ObjectLength[k]}}
DataMessage(s) ==
    {m \in [type : {"data"}, source : Key, offset : Nat, length : Nat \ {0}] :
        Carries(s, m.source) /\ m.offset + m.length <= ObjectLength[m.source]}
WireMessage(s) ==
    [type : {"warp_header", "fin"}] \cup HeaderMessage(s) \cup DataMessage(s)

SenderOK(s) ==
    LET u == uni[s]
    IN /\ u \in UniContext
       /\ u.last \in {0, EndOf(s)} /\ u.object <= EndOf(s)
       /\ mode = "rush" => u.last # 0 /\ u.object >= s[2]
       /\ u.send_state = "open" => u.object = s[2]
       /\ u.send_state = "object_data" =>
            /\ Current(s) \in Key /\ Carries(s, Current(s))
            /\ u.length = ObjectLength[Current(s)] /\ u.offset < u.length
       /\ u.send_state # "object_data" => u.offset = 0

PeerOK(s) ==
    LET p == peer_uni[s]
        k == <<s[1], p.object>>
    IN /\ p \in PeerContext
       /\ p.receive_state \in {"none", "open", "warp_header"} => p.object = 0
       /\ p.receive_state = "object_data" =>
            /\ k \in Key /\ Carries(s, k)
            /\ p.length = ObjectLength[k] /\ p.offset < p.length
            /\ p.nb_previous = NbPrevious(k)
       /\ p.receive_state # "object_data" => p.offset = 0
       /\ p.receive_state = "closed" => wire[s] = <<>> /\ uni[s].send_state = "closed"

StreamsOK ==
    /\ DOMAIN uni \subseteq Key /\ DOMAIN wire = DOMAIN uni /\ DOMAIN peer_uni = DOMAIN uni
    /\ \A s \in DOMAIN uni :
        /\ OnUniStreams /\ (mode = "warp" => s[2] = 0)
        /\ SenderOK(s) /\ PeerOK(s) /\ wire[s] \in Seq(WireMessage(s))

ControlOK ==
    /\ peer_control \in {"open", "deleted"}
    /\ peer_control = "open" => ~uni_error /\ \A s \in DOMAIN uni : InStep(s)
    /\ peer_control = "deleted" =>
        /\ control = "deleted"
        /\ \A s \in DOMAIN uni : peer_uni[s].receive_state \in {"none", "open", "closed"}

\* The receiver at place a has got past message m.
Past(a, m) ==
    \/ a.phase = "closed"
    \/ a.phase \in {"header", "data"} /\ m.key[2] < a.object
    \/ /\ a.phase = "data" /\ m.key[2] = a.object
       /\ m.data_length > 0 /\ m.offset + m.data_length <= a.offset

\* ... and object k, or what comes before that place, was passed on.
Filled(a, k) ==
    /\ a.phase = "closed" => Complete(k)
    /\ a.phase \in {"header", "data"} /\ k[2] < a.object => Complete(k)
    /\ a.phase = "data" /\ k[2] = a.object =>
        UNION {Bytes(m.offset, m.data_length) : m \in {n \in received : n.key = k}}
            = Bytes(0, a.offset)

\* What was passed to the consumer is what the receiver is past of.
UniReceivedOK ==
    OnUniStreams =>
        /\ ~repeated
        /\ \A m \in received :
            /\ m \in MessageType /\ m.key \in Key
            /\ m.source = m.key /\ m.source_offset = m.offset
            /\ m.object_length = IF m.data_length = 0 THEN 0 ELSE ObjectLength[m.key]
            /\ m.nb_previous = NbPrevious(m.key)
        /\ peer_control = "open" => \A m \in received :
            /\ \E s \in DOMAIN uni : Carries(s, m.key)
            /\ \A s \in DOMAIN uni : Carries(s, m.key) => Past(PeerPlace(s), m)
        /\ \A s \in DOMAIN uni, k \in Key : Carries(s, k) => Filled(PeerPlace(s), k)

\* The streams are those before the next group, or the next object of it.
OpenedOK ==
    \A s \in DOMAIN uni :
        \/ s[1] < next_warp_group
        \/ mode = "rush" /\ s[1] = next_warp_group /\ s[2] < next_rush_object

UniInv ==
    /\ fragments \subseteq Fragment /\ arrived \subseteq Fragment
    /\ mode \in TransportMode
    /\ next_warp_group \in Nat /\ next_rush_object \in Nat
    /\ mode = "rush" => next_warp_group <= Highest(arrived)[1]
    /\ StreamsOK /\ ControlOK /\ UniReceivedOK

\* No group or object has got a second one.
OpenedInv == ~opened_twice /\ OpenedOK

----------------------------------------------------------------------------
(* The inductive invariant of the single stream: the numbers that the      *)
(* stream counts are those of the objects that the reader is at, and what  *)
(* was sent is what lies before them.                                      *)

\* The two cases in which they are not: the stream numbers from 0/0 although
\* the cache, and with it the reader, starts later; or it numbers from a start
\* point past the end of its group, and the probe moves on to the next group.
Misnumbered ==
    /\ mode = "single_stream"
    /\ \/ intent_point = Origin /\ start_point # Origin
       \/ /\ start_point[1] \in Group \ {LastGroup}
          /\ start_point[2] >= NbObjects[start_point[1]]

\* What keeps a media out of both: the cache is not purged under a single
\* stream, and no REQUEST for one names an object past the end of a group that
\* is not the last.
NumberingKept ==
    "single_stream" \in Modes =>
        /\ "single_stream" \notin Purged
        /\ \A i \in Intents["single_stream"] :
             (i.intent = "start_point" /\ i.point[1] \in Group \ {LastGroup})
                 => i.point[2] < NbObjects[i.point[1]]

\* Then the cache of a single stream starts at 0/0.
Numbered == mode = "single_stream" => first_point = Origin /\ ~Misnumbered

StreamReader ==
    [current : Nat \X Nat, offset : Nat, fragment : Fragment \cup {NoFragment},
     length_sent : Nat, skipped : BOOLEAN]

ReaderOK ==
    /\ reader \in StreamReader /\ send_state \in SendState
    /\ reader.fragment = NoFragment => reader.length_sent = 0
    /\ reader.fragment # NoFragment =>
        /\ reader.fragment.key = reader.current /\ reader.fragment.offset = reader.offset
        /\ reader.length_sent = 0 \/ reader.length_sent < reader.fragment.data_length
    /\ reader.skipped => reader.current \in Key /\ reader.offset = 0 /\ reader.length_sent = 0
    /\ send_state = "single_stream" =>
        reader.current[1] \in Group /\ reader.current[2] <= NbObjects[reader.current[1]]
    /\ send_state \in {"start_point", "cache_policy", "ready"} =>
        /\ reader.offset = 0 /\ reader.length_sent = 0 /\ ~reader.skipped
        /\ Misnumbered \/ reader.current = start_point

\* The object that the reader goes on with.
ReadingPoint == IF reader.skipped THEN NextObject(reader.current) ELSE reader.current

\* The next message comes after m.
FollowsMessage(m) ==
    IF IsLastFragment(m) THEN next_point = NextObject(m.key) /\ next_offset = 0
    ELSE next_point = m.key /\ next_offset = m.offset + m.data_length /\ next_offset > 0

LabelsOK ==
    /\ next_point \in Nat \X Nat
    /\ next_offset = reader.offset + reader.length_sent
    /\ Misnumbered \/ next_point = ReadingPoint
    /\ Misnumbered \/ (next_point[2] = 0 /\ next_offset = 0 => next_point[1] <= start_point[1])
    /\ last_sent = NoMessage \/ (last_sent \in MessageType /\ FollowsMessage(last_sent))

\* The bytes of the object that were passed to the consumer.
PassedBytes(k) ==
    UNION {Bytes(m.offset, m.data_length) : m \in {n \in received : n.key = k}}

TrueMessage(m) ==
    /\ m.source = m.key /\ m.source_offset = m.offset
    /\ m.object_length = IF m.data_length = 0 THEN 0 ELSE ObjectLength[m.key]
    /\ (m.key[2] = 0 /\ m.offset = 0 /\ start_point[1] < m.key[1])
           => m.nb_previous = NbPrevious(m.key)

\* The message is before the next one.
Behind(m) ==
    \/ Before(m.key, next_point)
    \/ m.key = next_point /\ m.data_length > 0 /\ m.offset + m.data_length <= next_offset

StreamReceivedOK ==
    /\ ~repeated
    /\ \A m \in received : m \in MessageType /\ Behind(m) /\ (Misnumbered \/ TrueMessage(m))
    /\ Misnumbered \/ \A k \in Key : Before(k, start_point) \/
        /\ Before(k, next_point) => Complete(k)
        /\ k = next_point => PassedBytes(k) = Bytes(0, next_offset)

AnnouncedOK ==
    \/ announced = NoMessage
    \/ /\ send_state = "finished"
       /\ Misnumbered \/ (announced = FinalPoint /\ next_point = FinalPoint)

StreamInv ==
    /\ fragments \subseteq Fragment /\ first_point \in Key /\ start_point \in Nat \X Nat
    /\ mode \in Modes /\ congestion \in Congestions
    /\ mode # "single_stream" => /\ last_sent = NoMessage /\ announced = NoMessage
                                 /\ reader.fragment = NoFragment /\ send_state = "initial"
    /\ mode = "single_stream" =>
        /\ ~subscribed => /\ send_state = "initial" /\ next_offset = 0
                           /\ received = {} /\ last_sent = NoMessage /\ announced = NoMessage
        /\ ReaderOK /\ LabelsOK /\ StreamReceivedOK /\ AnnouncedOK

----------------------------------------------------------------------------
(* The inductive invariant of the datagram publisher: the fragments that   *)
(* come after the current one were not sent, nor was any that has still to *)
(* arrive, and the list of objects tells what was.                         *)

\* What was deleted from the cache comes before the first point, for good.
CacheOK ==
    /\ fragments \subseteq arrived /\ arrived \subseteq Fragment /\ first_point \in Key
    /\ \A f \in fragments : ~Before(f.key, first_point)
    /\ \A f \in arrived \ fragments : Before(f.key, first_point) /\ f.key[1] < next_group_id

ListOK ==
    /\ IsFiniteSet(arrived) /\ DOMAIN in_order \subseteq 1..Cardinality(arrived)
    /\ Range(in_order) = fragments
    /\ \A i, j \in DOMAIN in_order : in_order[i] = in_order[j] => i = j

\* The object is dropped.
Dropped(k) == k \in Listed /\ objects[k].is_dropped

\* Nothing of the fragment was sent, except that its object was dropped.
Untouched(f) ==
    \A m \in received : m.key = f.key =>
        /\ m.data_length = 0 => Dropped(f.key)
        /\ Bytes(m.offset, m.data_length) \cap Bytes(f.offset, f.data_length) = {}

\* What is left to send of fragment f, after n bytes, was not sent, and the
\* object is one that the publisher has not passed.
ToSend(f, n) ==
    /\ n = 0 \/ n < f.data_length
    /\ ~Dropped(f.key)
    /\ f.key \notin Listed => Listed = {} \/ ~Before(f.key, FirstListed)
    /\ \A m \in received : m.key = f.key =>
        /\ m.data_length > 0
        /\ Bytes(m.offset, m.data_length)
             \cap Bytes(f.offset + n, f.data_length - n) = {}

CurrentOK ==
    /\ current_fragment \in Fragment \cup {NoFragment} /\ length_sent \in Nat
    /\ current_fragment = NoFragment => ~is_current_fragment_sent /\ length_sent = 0 /\ Listed = {}
    /\ current_fragment # NoFragment =>
        /\ dangling \/ current_fragment \in fragments
        /\ is_current_fragment_sent => Listed # {}
        /\ ~is_current_fragment_sent => ToSend(current_fragment, length_sent)

UnsentOK ==
    /\ \A f \in Fragment \ arrived : Untouched(f)
    /\ dangling \/ \A i \in DOMAIN in_order :
        (\E j \in DOMAIN in_order : j < i /\ in_order[j] = current_fragment)
            => Untouched(in_order[i])

ObjectsOK ==
    /\ Listed \subseteq Key /\ began_at \in Nat \X Nat
    /\ \A k \in Listed :
        /\ objects[k] \in ObjectState
        /\ objects[k].nb_objects_previous_group \in {0, NbPrevious(k)}
        /\ objects[k].is_dropped => ~objects[k].is_sent
        /\ ~objects[k].is_dropped => objects[k].bytes_sent = Cardinality(PassedBytes(k))
        /\ objects[k].is_sent => Complete(k)
    /\ Listed = {} => received = {}
    /\ Listed # {} => \A k \in Key :
        Before(k, FirstListed) => Before(k, began_at) \/ Complete(k)

DatagramReceivedOK ==
    /\ ~repeated
    /\ \A m \in received :
        /\ m \in MessageType /\ m.key \in Key
        /\ m.source = m.key /\ m.source_offset = m.offset
        /\ m.object_length = IF m.data_length = 0 THEN 0 ELSE ObjectLength[m.key]
        /\ m.key[2] = 0 /\ m.offset = 0 => m.nb_previous = NbPrevious(m.key)
        /\ m.offset + m.data_length <= ObjectLength[m.key]
        /\ m.key \in Listed \/ Before(m.key, FirstListed)

DatagramInv ==
    /\ CacheOK
    /\ mode # "datagram" => current_fragment = NoFragment /\ Listed = {}
    /\ mode = "datagram" =>
        ListOK /\ CurrentOK /\ UnsentOK /\ ObjectsOK /\ DatagramReceivedOK /\ PurgeSparesDatagrams
=============================================================================
