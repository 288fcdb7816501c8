----------------------------- MODULE UniStreams -----------------------------
(***************************************************************************)
(* Warp and rush mode: the media is sent on unidirectional streams, one    *)
(* per group (warp) or one per object (rush).  The sender's contexts are   *)
(* created by the wake-ups of the source (lib/proto.c), filled from the    *)
(* cache and closed by lib/quicrq.c; the receiver finds the control stream *)
(* by the media id in the header of the stream and passes the objects on.  *)
(* A stream is identified by the first object that it carries; that no     *)
(* second one is opened for it is what opened_twice is for.  Streams are   *)
(* reliable and independent of each other and of the control stream; of    *)
(* the latter only the end is modelled here.                               *)
(***************************************************************************)
EXTENDS MediaSource

CONSTANT MaxInFlight   \* bound: messages in flight on the streams
ASSUME MaxInFlightAssumption == MaxInFlight \in Nat \ {0}

VARIABLES
    uni,               \* the sender's contexts: stream -> quicrq_uni_stream_ctx_t
    next_warp_group,   \* next_warp_group_id
    next_rush_object,  \* next_rush_object_id
    opened_twice,      \* history: an object, or group, was given a second stream
    passed_by,         \* history: the objects that a stale next_rush_object_id hides
    wire,              \* stream -> messages in flight
    peer_uni,          \* the receiver's contexts
    control,           \* the sender's control stream context
    peer_control,      \* the receiver's control stream context
    uni_error          \* a callback of the receiver returned an error

uni_vars == <<uni, next_warp_group, next_rush_object, opened_twice, passed_by, wire, peer_uni,
              control, peer_control, uni_error>>

OnUniStreams == mode \in {"warp", "rush"}

UniInit ==
    /\ uni = <<>> /\ wire = <<>> /\ peer_uni = <<>>
    /\ next_warp_group = 0 /\ next_rush_object = 0
    /\ opened_twice = FALSE /\ passed_by = {}
    /\ control = "open" /\ peer_control = "open"
    /\ uni_error = FALSE

----------------------------------------------------------------------------
(* Wake-up: c is the set of the cached fragments, h the highest point.     *)

\* Mutant of NewUniStream: the stream is not marked active when it is created.
NewUniStreamIdle(s) ==
    [send_state |-> "open", object |-> s[2], offset |-> 0, length |-> 0, active |-> FALSE,
     last |-> IF mode = "rush" THEN s[2] + 1 ELSE 0]

\* quicrq_create_uni_stream_context; in rush mode the last object is known.
NewUniStream(s) ==
    [send_state |-> "open", object |-> s[2], offset |-> 0, length |-> 0, active |-> TRUE,
     last |-> IF mode = "rush" THEN s[2] + 1 ELSE 0]

\* The receiver's context.
NewPeer == [receive_state |-> "open", object |-> 0, offset |-> 0, length |-> 0, nb_previous |-> 0]
NoPeer == [NewPeer EXCEPT !.receive_state = "none"]

\* The contexts in use are marked active, those of new streams added.
Woken(streams) ==
    /\ opened_twice' = (opened_twice \/ streams \cap DOMAIN uni # {})
    /\ uni' = [s \in DOMAIN uni \cup streams |->
                 IF s \notin DOMAIN uni THEN NewUniStream(s)
                 ELSE [uni[s] EXCEPT !.active = (uni[s].send_state # "closed")]]
    /\ wire' = [s \in DOMAIN uni' |-> IF s \in DOMAIN uni THEN wire[s] ELSE <<>>]
    /\ peer_uni' = [s \in DOMAIN uni' |-> IF s \in DOMAIN uni THEN peer_uni[s] ELSE NoPeer]

\* quicrq_wakeup_media_uni_stream: a stream for each group not seen before.
WarpWakeUp(h) ==
    /\ Woken({<<g, 0>> : g \in next_warp_group..h[1]})
    /\ next_warp_group' = Max({next_warp_group, h[1] + 1})
    /\ UNCHANGED <<next_rush_object, passed_by>>

\* quicrq_wakeup_media_rush_stream: a stream for each object, up to the first
\* group whose size is not known.  Entering a group without creating a
\* stream leaves next_rush_object_id at the size of an earlier group.
RushWakeUp(c, h) ==
    LET Count(g) == IF g < h[1] THEN get_object_count(c, g) ELSE h[2] + 1
        entered == {g \in next_warp_group..h[1] :
                      \A i \in next_warp_group..(g - 1) : Count(i) > 0}
        First(g) == IF g > next_warp_group THEN 0 ELSE next_rush_object
        created == {g \in entered : First(g) < Count(g)}
    IN /\ Woken(UNION {{g} \X (First(g)..(Count(g) - 1)) : g \in created})
       /\ next_warp_group' = Max(entered)
       /\ next_rush_object' = IF created = {} THEN next_rush_object ELSE Count(Max(created))
       /\ passed_by' =
            IF next_warp_group' = next_warp_group \/ next_warp_group' \in created THEN passed_by
            ELSE passed_by \cup ({next_warp_group'} \X (0..(next_rush_object' - 1)))

\* quicrq_wakeup_media_stream in these modes.
UniWakeUp ==
    /\ \/ mode = "warp" /\ WarpWakeUp(Highest(arrived'))
       \/ mode = "rush" /\ RushWakeUp(fragments', Highest(arrived'))
    /\ UNCHANGED <<control, peer_control, uni_error>>

----------------------------------------------------------------------------
(* Sender.                                                                 *)

InFlight == MapThenSumSet(LAMBDA s : Len(wire[s]), DOMAIN wire)

Prepared(s) ==
    /\ OnUniStreams /\ control = "open" /\ ~uni_error
    /\ s \in DOMAIN uni /\ uni[s].active
    /\ InFlight < MaxInFlight

Current(s) == <<s[1], uni[s].object>>

\* Mutant of LastObject: the final object id is taken whatever the group.
LastObjectAnyGroup(s) ==
    IF uni[s].last > 0 THEN uni[s].last
    ELSE IF stream_final THEN FinalPoint[2]
    ELSE get_object_count(fragments, s[1])

\* last_object_id, looked up as long as it is 0.
LastObject(s) ==
    IF uni[s].last > 0 THEN uni[s].last
    ELSE IF stream_final /\ FinalPoint[1] = s[1] THEN FinalPoint[2]
    ELSE get_object_count(fragments, s[1])

AllSent(s) == LastObject(s) > 0 /\ uni[s].object >= LastObject(s)

\* quicrq_evaluate_warp_congestion.  (It is passed flags that are always 0.)
WarpSkips(k) == GroupCongestion(k) \/ (congestion = "delay" /\ k[2] > 0)

Write(s, message, context) ==
    /\ wire' = [wire EXCEPT ![s] = Append(@, message)]
    /\ uni' = [uni EXCEPT ![s] = context]
    /\ UNCHANGED <<next_warp_group, next_rush_object, opened_twice, passed_by, peer_uni, control,
                   peer_control, uni_error, source_vars, stream_vars, consumer_vars>>

\* quicrq_prepare_warp_header.
SendWarpHeader(s) ==
    /\ Prepared(s) /\ uni[s].send_state = "open"
    /\ Write(s, [type |-> "warp_header"], [uni[s] EXCEPT !.send_state = "header_sent"])

\* quicrq_prepare_warp_object_header: the header of the next object, or of a
\* place holder.
SendObjectHeader(s, skip) ==
    LET k == Current(s)
        length == IF skip THEN 0 ELSE ObjectLength[k]
        context == [uni[s] EXCEPT !.last = LastObject(s), !.length = length]
    IN /\ Prepared(s) /\ uni[s].send_state = "header_sent"
       /\ ~AllSent(s)
       /\ Cached(fragments, k, 0)
       /\ skip => WarpSkips(k)
       /\ Write(s, [type |-> "object_header", object |-> k[2], nb_previous |-> NbPrevious(k),
                    length |-> length],
                IF length = 0 THEN [context EXCEPT !.object = @ + 1]
                ELSE [context EXCEPT !.send_state = "object_data"])

\* quicrq_prepare_to_send_on_unistream: n bytes of the object.
SendObjectData(s, n) ==
    LET offset == uni[s].offset
        context == IF offset + n < uni[s].length THEN [uni[s] EXCEPT !.offset = offset + n]
                   ELSE [uni[s] EXCEPT !.offset = 0, !.object = @ + 1,
                                       !.send_state = "header_sent"]
    IN /\ Prepared(s) /\ uni[s].send_state = "object_data"
       /\ n \in 1..copy_available_data(fragments, Current(s), offset)
       /\ Write(s, [type |-> "data", source |-> Current(s), offset |-> offset, length |-> n],
                context)

\* ... the end of the stream, whose context is deleted,
SendStreamFin(s) ==
    /\ Prepared(s) /\ uni[s].send_state = "header_sent"
    /\ AllSent(s)
    /\ Write(s, [type |-> "fin"], [uni[s] EXCEPT !.send_state = "closed", !.active = FALSE])

\* ... or nothing yet.  Without a next object, quicrq_fragment_notify_final_-
\* to_control passes the final point on.
UniStreamIdle(s) ==
    /\ Prepared(s)
    /\ \/ /\ uni[s].send_state = "header_sent" /\ ~AllSent(s)
          /\ ~Cached(fragments, Current(s), 0)
          /\ stream_final' = (stream_final \/ final_known)
          /\ uni' = [uni EXCEPT ![s].active = FALSE, ![s].last = LastObject(s)]
       \/ /\ uni[s].send_state = "object_data"
          /\ copy_available_data(fragments, Current(s), uni[s].offset) = 0
          /\ uni' = [uni EXCEPT ![s].active = FALSE]
          /\ UNCHANGED stream_final
    /\ UNCHANGED <<next_warp_group, next_rush_object, opened_twice, passed_by, wire, peer_uni,
                   control, peer_control, uni_error, mode, congestion, intent_point, start_point, woken, dangling,
                   source_vars, consumer_vars>>

----------------------------------------------------------------------------
(* Receiver: quicrq_receive_warp_or_rush_stream_data, for the context p.   *)

Fails == uni_error' = TRUE /\ UNCHANGED <<peer_uni, consumer_vars>>

Becomes(s, p) ==
    /\ peer_uni' = [peer_uni EXCEPT ![s] = p]
    /\ UNCHANGED <<uni_error, consumer_vars>>

Passes(s, p, m) ==
    /\ peer_uni' = [peer_uni EXCEPT ![s] = p]
    /\ Consume(m)
    /\ UNCHANGED uni_error

\* WARP_HEADER: the control stream of the media id is looked up.
ReceiveWarpHeader(s, p) ==
    IF p.receive_state = "open" /\ peer_control # "deleted"
    THEN Becomes(s, [p EXCEPT !.receive_state = "warp_header"])
    ELSE Fails

\* Mutant of Predicted: the prediction is made as on a warp stream.
PredictedInSequence(m) == m.object

\* The object id that the context predicts: 0 in rush mode.
Predicted(m) == IF mode = "rush" THEN 0 ELSE m.object

\* OBJECT_HEADER; an object without bytes is passed on at once.
ReceiveObjectHeader(s, p, m) ==
    LET k == <<s[1], m.object>>
    IN CASE \/ p.receive_state \notin {"warp_header", "object_header"}
            \/ p.object # Predicted(m) -> Fails
         [] OTHER ->
            IF m.length > 0
            THEN Becomes(s, [receive_state |-> "object_data", object |-> m.object, offset |-> 0,
                             length |-> m.length, nb_previous |-> m.nb_previous])
            ELSE Passes(s, [p EXCEPT !.receive_state = "object_header", !.object = @ + 1],
                        PlaceHolder(k, m.nb_previous, k))

\* Bytes of an object; to a context that has lost its state they look like
\* the beginning of a message.
ReceiveObjectData(s, p, m) ==
    LET end == p.offset + m.length
    IN \/ p.receive_state # "object_data" /\ Fails
       \/ p.receive_state = "open" /\ Becomes(s, p)
       \/ /\ p.receive_state = "object_data"
          /\ Passes(s, IF end < p.length THEN [p EXCEPT !.offset = end]
                       ELSE [p EXCEPT !.receive_state = "object_header", !.object = @ + 1,
                                      !.offset = 0],
                    Passed(<<s[1], p.object>>, p.offset, p.nb_previous, m.source, m.offset,
                           p.length, m.length))

\* The FIN bit: the context is deleted by way of the control stream context,
\* which a new context does not have.
ReceiveStreamFin(s, p) ==
    IF p.receive_state = "open" THEN Fails
    ELSE Becomes(s, [p EXCEPT !.receive_state = "closed"])

\* quicrq_callback: the context is created when the stream has none.
ReceiveOnUniStream(s) ==
    /\ ~uni_error
    /\ s \in DOMAIN wire /\ wire[s] # <<>>
    /\ LET m == Head(wire[s])
           p == IF peer_uni[s].receive_state = "none" THEN NewPeer ELSE peer_uni[s]
       IN CASE m.type = "warp_header" -> ReceiveWarpHeader(s, p)
            [] m.type = "object_header" -> ReceiveObjectHeader(s, p, m)
            [] m.type = "data" -> ReceiveObjectData(s, p, m)
            [] m.type = "fin" -> ReceiveStreamFin(s, p)
    /\ wire' = [wire EXCEPT ![s] = Tail(@)]
    /\ UNCHANGED <<uni, next_warp_group, next_rush_object, opened_twice, passed_by, control,
                   peer_control, source_vars, stream_vars>>

----------------------------------------------------------------------------
(* The end of the control stream.                                          *)

ControlUnchanged ==
    UNCHANGED <<next_warp_group, next_rush_object, opened_twice, passed_by, wire, uni_error,
                source_vars, stream_vars, consumer_vars>>

\* The receiver has sent the FIN of the control stream, being finished
\* (quicrq_cnx_handle_consumer_finished) or not (quicrq_cnx_abandon_stream),
\* which changes nothing for the streams.  The sender then deletes its
\* context, and with it those of the streams that are not closed, which are
\* reset, and sends its own FIN.
SenderDeletes ==
    /\ OnUniStreams /\ subscribed /\ ~uni_error
    /\ control = "open"
    /\ control' = "deleted"
    /\ uni' = [s \in DOMAIN uni |-> [uni[s] EXCEPT !.active = FALSE]]
    /\ ControlUnchanged /\ UNCHANGED <<peer_uni, peer_control>>

\* The receiver deletes its context on that FIN, with those of the streams
\* that are still open.
PeerDeletes ==
    /\ peer_control = "open" /\ control = "deleted" /\ ~uni_error
    /\ peer_control' = "deleted"
    /\ peer_uni' = [s \in DOMAIN peer_uni |->
                      IF peer_uni[s].receive_state = "closed" THEN peer_uni[s] ELSE NoPeer]
    /\ ControlUnchanged /\ UNCHANGED <<uni, control>>

UniStreamStep(s) ==
    \/ SendWarpHeader(s)
    \/ \E skip \in BOOLEAN : SendObjectHeader(s, skip)
    \/ \E n \in 1..Max({f.data_length : f \in Fragment}) : SendObjectData(s, n)
    \/ SendStreamFin(s)
    \/ UniStreamIdle(s)
    \/ ReceiveOnUniStream(s)
=============================================================================
