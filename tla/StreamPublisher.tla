-------------------------- MODULE StreamPublisher --------------------------
(***************************************************************************)
(* Single stream mode: the media is read from the cache in media order     *)
(* (quicrq_fragment_publisher_fn) and written on the control stream, with  *)
(* group and object numbers that the stream context counts by itself       *)
(* (quicrq_prepare_to_send_media_to_stream).                               *)
(***************************************************************************)
EXTENDS MediaSource

VARIABLES
    reader,       \* quicrq_fragment_publisher_context_t
    next_point,   \* next_group_id, next_object_id of the stream context
    next_offset,  \* next_object_offset
    send_state,
    active,       \* the stream is marked active
    last_sent,    \* history: the last fragment message of the stream
    announced     \* history: the final point sent in FIN_DATAGRAM

publisher_vars == <<reader, next_point, next_offset, send_state, active, last_sent, announced>>

NoMessage == <<>>

\* quicrq_stream_sending_state_enum, as far as a sender of single stream data
\* uses it; cache_policy is ready with that message to send.
SendState ==
    {"initial", "start_point", "cache_policy", "ready", "single_stream", "finished"}

ReaderAt(k) ==
    [current |-> k, offset |-> 0, fragment |-> NoFragment, length_sent |-> 0, skipped |-> FALSE]

PublisherInit ==
    /\ reader = ReaderAt(Origin)
    /\ next_point = Origin /\ next_offset = 0
    /\ send_state = "initial"
    /\ active = FALSE
    /\ last_sent = NoMessage /\ announced = NoMessage

\* REQUEST for a single stream.  With a start point, START_POINT is to be
\* sent first.
StreamRequest(i) ==
    /\ reader' = ReaderAt(ReadPoint(i))
    /\ next_point' = IntentPoint(i)
    /\ send_state' = IF IntentPoint(i) = Origin THEN "single_stream" ELSE "start_point"
    /\ active' = TRUE
    /\ UNCHANGED <<next_offset, last_sent, announced>>

\* quicrq_wakeup_media_stream for a single stream: a stream that is active
\* already, to send START_POINT, takes no notice.
StreamWakeUp ==
    /\ active' = (send_state # "finished")
    /\ UNCHANGED <<reader, next_point, next_offset, send_state, last_sent, announced>>

\* The poll sends what comes before the media: afterwards the stream is
\* ready, and active only if there is more of it.
SendPreamble(state, next) ==
    /\ mode = "single_stream" /\ send_state = state /\ active
    /\ send_state' = next
    /\ active' = (next # "ready")
    /\ woken' = FALSE
    /\ UNCHANGED <<reader, next_point, next_offset, last_sent, announced, source_vars, mode,
                   congestion, intent_point, start_point, stream_final, dangling, consumer_vars>>

\* START_POINT, prepared by quicrq_prepare_start_point, is sent.
SendStartPoint ==
    SendPreamble("start_point", IF mode \in RealTime THEN "cache_policy" ELSE "ready")

\* The stream was ready with CACHE_POLICY to send.
SendCachePolicy == SendPreamble("cache_policy", "ready")

----------------------------------------------------------------------------
Reached(k) == final_known /\ ~Before(k, FinalPoint)

\* get_data of quicrq_fragment_publisher_fn, up to the copy of the data: the
\* reader r moves to the object that follows a skipped one, or to the next
\* group when the current one is read to its end.
GetData(r) ==
    LET k == IF r.skipped THEN NextObject(r.current) ELSE r.current
        offset == IF r.skipped THEN 0 ELSE r.offset
        first == NextGroup(r.current)
        At(key, o) == [r EXCEPT !.current = key, !.offset = o, !.skipped = FALSE,
                                !.fragment = get_fragment(fragments, key, o)]
        Result(moved, is_new_group, finished) ==
            [reader |-> moved, is_new_group |-> is_new_group, finished |-> finished]
    IN CASE Reached(r.current) -> Result(r, FALSE, TRUE)
         [] ~Reached(r.current) /\ r.fragment # NoFragment /\ ~r.skipped ->
                Result(r, FALSE, FALSE)
         [] OTHER ->
                IF Cached(fragments, k, offset) THEN Result(At(k, offset), FALSE, FALSE)
                ELSE IF /\ offset = 0
                        /\ Cached(fragments, first, 0)
                        /\ k[2] >= NbPrevious(first)
                     THEN Result(At(first, 0), TRUE, FALSE)
                     ELSE Result([r EXCEPT !.fragment = NoFragment], FALSE, Reached(k))

\* ... and the copy of n bytes.
CopyData(r, n) ==
    LET fragment_end == r.length_sent + n = r.fragment.data_length
        next == r.offset + r.fragment.data_length
        object_end == next >= ObjectLength[r.fragment.key]
    IN IF ~fragment_end THEN [r EXCEPT !.length_sent = @ + n]
       ELSE [r EXCEPT !.length_sent = 0, !.fragment = NoFragment,
                      !.current = IF object_end THEN NextObject(@) ELSE @,
                      !.offset = IF object_end THEN 0 ELSE next]

\* Mutant of ShouldSkip: the object may be skipped in the middle.
ShouldSkipMidObject(r) ==
    /\ r.fragment.data_length > r.length_sent
    /\ r.fragment.key[2] # 0 /\ next_point[2] # 0
    /\ GroupCongestion(r.current)

\* quicrq_evaluate_stream_congestion and the conditions of its call.  In
\* delay mode the congestion of the connection decides, at any time.
ShouldSkip(r) ==
    /\ r.fragment.data_length > r.length_sent
    /\ r.fragment.key[2] # 0 /\ next_point[2] # 0
    /\ \/ GroupCongestion(r.current) /\ r.offset = 0 /\ r.length_sent = 0
       \/ congestion = "delay"

\* The number of bytes that may be sent of what the reader is at.  (A
\* fragment shorter than length_sent makes size_t wrap: nothing is said.)
Available(r) == r.fragment.data_length - r.length_sent
Sendable(r) ==
    IF r.fragment.data_length = 0 /\ r.length_sent = 0 THEN {0} ELSE 1..Available(r)

\* Mutant of Label: the object number is not reset at a new group.
LabelKeepsObject(got) ==
    IF got.is_new_group
    THEN [key |-> <<next_point[1] + 1, next_point[2]>>, offset |-> 0, nb_previous |-> next_point[2]]
    ELSE [key |-> next_point, offset |-> next_offset, nb_previous |-> 0]

\* The labels of the next message.
Label(got) ==
    IF got.is_new_group
    THEN [key |-> NextGroup(next_point), offset |-> 0, nb_previous |-> next_point[2]]
    ELSE [key |-> next_point, offset |-> next_offset, nb_previous |-> 0]

Prepares ==
    /\ mode = "single_stream" /\ ~dangling
    /\ send_state = "single_stream" /\ active

SendMessage(m) ==
    /\ Consume(m)
    /\ last_sent' = m
    /\ UNCHANGED <<send_state, active, announced, source_vars, stream_vars>>

\* A place holder is sent for the object, which is skipped.
SkipObject ==
    LET got == GetData(reader)
        label == Label(got)
    IN /\ Prepares
       /\ ~got.finished /\ got.reader.fragment # NoFragment
       /\ ShouldSkip(got.reader)
       /\ SendMessage(PlaceHolder(label.key, label.nb_previous, got.reader.current))
       /\ next_point' = NextObject(label.key)
       /\ next_offset' = 0
       /\ reader' = [got.reader EXCEPT !.skipped = TRUE]

\* A fragment of n bytes is sent.
SendFragment(n) ==
    LET got == GetData(reader)
        r == got.reader
        label == Label(got)
        object_length == ObjectLength[r.fragment.key]
        object_end == label.offset + n >= object_length
    IN /\ Prepares
       /\ ~got.finished /\ r.fragment # NoFragment
       /\ n \in Sendable(r)
       /\ SendMessage(Passed(label.key, label.offset, label.nb_previous, r.fragment.key,
                             r.fragment.offset + r.length_sent, object_length, n))
       /\ next_point' = IF object_end THEN NextObject(label.key) ELSE label.key
       /\ next_offset' = IF object_end THEN 0 ELSE label.offset + n
       /\ reader' = CopyData(r, n)

\* Nothing to send, or the end of the media: FIN_DATAGRAM with the FIN bit.
SendNothing ==
    LET got == GetData(reader)
        label == Label(got)
    IN /\ Prepares
       /\ \/ got.finished
          \/ got.reader.fragment = NoFragment
          \/ Available(got.reader) = 0 /\ got.reader.length_sent > 0
       /\ reader' = got.reader
       /\ next_point' = label.key
       /\ next_offset' = label.offset
       /\ send_state' = IF got.finished THEN "finished" ELSE send_state
       /\ announced' = IF got.finished THEN label.key ELSE announced
       /\ active' = FALSE
       /\ UNCHANGED <<last_sent, source_vars, stream_vars, consumer_vars>>

\* quicrq_fragment_is_ready_to_send, once the start point was sent: the
\* stream turns to sending when the first bytes are there.  That the reader
\* may have moved to the next group is not told to the stream, which numbers
\* on from the start point.
ProbeReady ==
    /\ mode = "single_stream" /\ send_state = "ready" /\ active /\ ~dangling
    /\ LET got == GetData(reader)
       IN /\ reader' = got.reader
          /\ IF ~got.finished /\ Available(got.reader) > 0
             THEN send_state' = "single_stream" /\ active' = TRUE
             ELSE send_state' = send_state /\ active' = FALSE
    /\ UNCHANGED <<next_point, next_offset, last_sent, announced,
                   source_vars, stream_vars, consumer_vars>>

StreamPublisherNext ==
    \/ SendStartPoint
    \/ SendCachePolicy
    \/ SkipObject
    \/ \E n \in 0..Max({f.data_length : f \in Fragment}) : SendFragment(n)
    \/ SendNothing
    \/ ProbeReady
=============================================================================
