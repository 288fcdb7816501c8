--------------------------- MODULE ControlStream ---------------------------
(***************************************************************************)
(* The control stream of one media: a bidirectional QUIC stream opened by  *)
(* the client with REQUEST or POST, on which the sender of the media       *)
(* announces start point, cache policy and final point, and which both     *)
(* ends close with FIN (lib/quicrq.c, lib/proto.c).  This is the datagram  *)
(* mode: the objects travel apart from the control stream.  Warp and rush  *)
(* exchange the same messages; the single stream mode, where the objects   *)
(* share the stream, and the subscription to patterns are left out.        *)
(*                                                                         *)
(* Points are object ids within one group; 0 is the code's "unknown".      *)
(* picoquic polls a stream that was marked active until it has sent FIN;   *)
(* each poll says whether the stream stays active.  It offers 17 bytes at  *)
(* least, so that only the messages with an url are sent in parts.  What   *)
(* it carries is reliable and in order on a stream; objects are repaired   *)
(* (module DatagramAck) and come late, twice and in any order.             *)
(***************************************************************************)
EXTENDS Naturals, Sequences

CONSTANTS Origins,      \* ids that the first object of the media may have
          Intents,      \* start points that a REQUEST may ask for, 0 for none
          Policies,     \* may the source be set to real time? subset of BOOLEAN
          MaxStart,     \* bound: the largest of those ids and start points
          MaxObjects    \* bound: objects that the source publishes

ASSUME ControlAssumption ==
    /\ MaxStart \in Nat /\ MaxObjects \in Nat
    /\ Origins \subseteq 0..MaxStart /\ Intents \subseteq 0..MaxStart
    /\ Policies \subseteq BOOLEAN

Ends == {"client", "server"}
Peer(e) == IF e = "client" THEN "server" ELSE "client"

VARIABLES
    kind,       \* what the client opened the stream for: "none", "request", "post"
    ctx,        \* the stream context of each end
    quic,       \* picoquic's view of the stream at each end: polled? FIN given?
    wire,       \* bytes sent by each end and not yet received
    src,        \* the source of the media and its cache, at the sending end
    rcv,        \* the consumer of the media, at the receiving end
    air,        \* objects sent, which may arrive at any time
    closed_with,\* history: close_reason when the context was deleted
    failure     \* "none", or why a callback returned -1

vars == <<kind, ctx, quic, wire, src, rcv, air, closed_with, failure>>

SendStates == {"ready", "initial", "final_point", "start_point", "cache_policy",
               "fin", "no_more"}
ReceiveStates == {"initial", "confirmation", "fragment", "done"}
MessageTypes == {"REQUEST", "POST", "ACCEPT", "START_POINT", "FIN_DATAGRAM",
                 "CACHE_POLICY"}
Points == 0..(MaxStart + MaxObjects)

Message(type, point, policy) == [type |-> type, point |-> point, policy |-> policy]
NoMessage == Message("REQUEST", 0, FALSE)
Messages == [type : MessageTypes, point : Points, policy : BOOLEAN]

\* What a callback gives to picoquic: part of a message, its end, or FIN.
Chunk(msg, whole) == [msg |-> msg, whole |-> whole, fin |-> FALSE]
Fin == [msg |-> NoMessage, whole |-> FALSE, fin |-> TRUE]

\* A stream context as quicrq_create_stream_context leaves it.  message_sent is
\* the message under way and left the parts of it still to be sent.
NewStream ==
    [alive |-> TRUE, send_state |-> "ready", receive_state |-> "initial",
     is_sender |-> FALSE, media_source |-> FALSE, media_id |-> FALSE,
     start |-> 0, is_start_sent |-> FALSE,
     final |-> 0, is_final_sent |-> FALSE,
     is_cache_real_time |-> FALSE, is_cache_policy_sent |-> FALSE,
     is_local_finished |-> FALSE, is_peer_finished |-> FALSE,
     close_reason |-> "unknown", message_sent |-> NoMessage, left |-> 0]

NoStream == [NewStream EXCEPT !.alive = FALSE]

StreamContexts ==
    [alive : BOOLEAN, send_state : SendStates, receive_state : ReceiveStates,
     is_sender : BOOLEAN, media_source : BOOLEAN, media_id : BOOLEAN,
     start : Points, is_start_sent : BOOLEAN,
     final : Points, is_final_sent : BOOLEAN,
     is_cache_real_time : BOOLEAN, is_cache_policy_sent : BOOLEAN,
     is_local_finished : BOOLEAN, is_peer_finished : BOOLEAN,
     close_reason : {"unknown", "finished", "remote_application", "quic_connection"},
     message_sent : Messages, left : 0..2]

\* Type invariant of the stream contexts and of what is between them.
ControlTypeOK ==
    /\ kind \in {"none", "request", "post"}
    /\ ctx \in [Ends -> StreamContexts]
    /\ quic \in [Ends -> [open : BOOLEAN, active : BOOLEAN, fin : BOOLEAN]]
    /\ \A e \in Ends : \A i \in DOMAIN wire[e] :
            wire[e][i].msg \in Messages /\ wire[e][i].whole \in BOOLEAN
    /\ src \in [origin : Origins, start : Points, cached : 0..MaxObjects,
                final : Points, ended : BOOLEAN, is_cache_real_time : BOOLEAN,
                from : Points]
    /\ rcv \in [objects : SUBSET Points, final : Points, complete : BOOLEAN]
    /\ air \subseteq Points
    /\ failure \in {"none", "no_source", "protocol"}

\* The source may know where its media starts, or be a relay that has yet to
\* learn it (start = 0); likewise the policy.
ControlInit ==
    /\ kind = "none"
    /\ ctx = [e \in Ends |-> NoStream]
    /\ quic = [e \in Ends |-> [open |-> TRUE, active |-> FALSE, fin |-> FALSE]]
    /\ wire = [e \in Ends |-> <<>>]
    /\ \E o \in Origins, p \in Policies : \E s \in {0, o} :
            src = [origin |-> o, start |-> s, cached |-> 0, final |-> 0,
                   ended |-> FALSE, is_cache_real_time |-> p, from |-> 0]
    /\ rcv = [objects |-> {}, final |-> 0, complete |-> FALSE]
    /\ air = {}
    /\ closed_with = [e \in Ends |-> "none"]
    /\ failure = "none"

Sender == IF kind = "request" THEN "server" ELSE "client"
Receiver == Peer(Sender)

Objects == src.origin..(src.origin + src.cached - 1)

-----------------------------------------------------------------------------
(* Helpers of the handlers.                                                *)

\* picoquic_mark_active_stream: without effect once FIN was given.
Marked(q, on) == [q EXCEPT !.active = on /\ ~q.fin]

StartPending(s) == s.start # 0 /\ ~s.is_start_sent
PolicyPending(s) == s.is_cache_real_time /\ ~s.is_cache_policy_sent
FinalPending(s) == s.final # 0 /\ ~s.is_final_sent

\* A message in the buffer, with the state in which it is sent.
Queue(s, state, msg) ==
    [s EXCEPT !.send_state = state, !.message_sent = msg,
              !.left = IF msg.type \in {"REQUEST", "POST"} THEN 2 ELSE 1]

WithReason(s, reason) ==
    IF s.close_reason = "unknown" THEN [s EXCEPT !.close_reason = reason] ELSE s

\* quicrq_wakeup_media_stream: copy the final point of the source, then poll the
\* stream if it has something to announce.
WakeupCopied(s, source) ==
    IF ~s.is_final_sent /\ s.media_source /\ source.final # 0
    THEN [s EXCEPT !.final = source.final] ELSE s

WakeupMarked_TestFirst(s, q, source) ==
    IF StartPending(s) \/ PolicyPending(s) \/ FinalPending(s)
    THEN Marked(q, TRUE) ELSE q

WakeupMarked(s, q, source) ==
    LET t == WakeupCopied(s, source)
    IN  IF StartPending(t) \/ PolicyPending(t) \/ FinalPending(t)
        THEN Marked(q, TRUE) ELSE q

\* quicrq_source_wakeup: wake the stream that is subscribed to the source, if any.
SourceWakeup(source) ==
    LET e == Sender IN
    IF ctx[e].media_source
    THEN /\ ctx' = [ctx EXCEPT ![e] = WakeupCopied(@, source)]
         /\ quic' = [quic EXCEPT ![e] = WakeupMarked(ctx[e], @, source)]
    ELSE UNCHANGED <<ctx, quic>>

\* quicrq_subscribe_local_media, which also reads the start point of the cache.
Subscribed(s) ==
    [s EXCEPT !.media_source = TRUE, !.start = src.start,
              !.is_cache_real_time = src.is_cache_real_time]

\* quicrq_delete_stream_ctx of end e, whose context is s.
Delete(e, s) ==
    /\ ctx' = [ctx EXCEPT ![e] = NoStream]
    /\ quic' = [quic EXCEPT ![e] = [@ EXCEPT !.active = FALSE, !.fin = TRUE]]
    /\ closed_with' = [closed_with EXCEPT ![e] = s.close_reason]

\* The consumer has all objects between the start and the final point.
Finished_NoObjects(s, r) == r.final # 0

Finished(s, r) ==
    /\ r.final # 0
    /\ \A k \in Points : s.start <= k /\ k < r.final => k \in r.objects

\* quicrq_cnx_handle_consumer_finished, after the consumer of context s of end e
\* became r and picoquic's view q.
ConsumerCalled(e, s, q, r) ==
    IF Finished(s, r)
    THEN /\ ctx' = [ctx EXCEPT ![e] = WithReason([s EXCEPT !.send_state = "fin"], "finished")]
         /\ quic' = [quic EXCEPT ![e] = Marked(q, TRUE)]
         /\ rcv' = [r EXCEPT !.complete = TRUE]
    ELSE /\ ctx' = [ctx EXCEPT ![e] = s]
         /\ quic' = [quic EXCEPT ![e] = q]
         /\ rcv' = r


-----------------------------------------------------------------------------
(* Calls of the application and of the source.                             *)

\* quicrq_cnx_subscribe_media_ex, with the start point that the intent asks for.
SubscribeMedia(intent) ==
    /\ kind = "none" /\ quic["client"].open
    /\ kind' = "request"
    /\ ctx' = [ctx EXCEPT !["client"] =
                [Queue(NewStream, "initial", Message("REQUEST", intent, FALSE))
                    EXCEPT !.receive_state = "fragment", !.media_id = TRUE]]
    /\ quic' = [quic EXCEPT !["client"] = Marked(@, TRUE)]
    /\ UNCHANGED <<wire, src, rcv, air, closed_with, failure>>

\* quicrq_cnx_post_media: start point and policy, as far as known, go with POST.
PostMedia ==
    /\ kind = "none" /\ quic["client"].open
    /\ kind' = "post"
    /\ LET s == Subscribed(NewStream) IN
       ctx' = [ctx EXCEPT !["client"] =
                [Queue(s, "initial", Message("POST", s.start, s.is_cache_real_time))
                    EXCEPT !.is_sender = TRUE, !.receive_state = "confirmation",
                           !.is_start_sent = (s.start # 0),
                           !.is_cache_policy_sent = s.is_cache_real_time]]
    /\ src' = [src EXCEPT !.from = src.start]
    /\ quic' = [quic EXCEPT !["client"] = Marked(@, TRUE)]
    /\ UNCHANGED <<wire, rcv, air, closed_with, failure>>

\* quicrq_cnx_abandon_stream, as the relay calls it for a media that it receives.
Abandon ==
    /\ kind # "none" /\ ctx[Receiver].alive
    /\ ctx[Receiver].send_state # "fin" /\ ctx[Receiver].receive_state = "fragment"
    /\ ctx' = [ctx EXCEPT ![Receiver].send_state = "fin"]
    /\ quic' = [quic EXCEPT ![Receiver] = Marked(@, TRUE)]
    /\ UNCHANGED <<kind, wire, src, rcv, air, closed_with, failure>>

\* An object enters the cache; quicrq_fragment_propose_to_cache wakes the readers.
PublishObject ==
    /\ ~src.ended /\ src.cached < MaxObjects
    /\ src' = [src EXCEPT !.cached = @ + 1]
    /\ SourceWakeup(src')
    /\ UNCHANGED <<kind, wire, rcv, air, closed_with, failure>>

\* quicrq_fragment_cache_learn_start_point.
LearnStart_NotMarked ==
    /\ src.start # src.origin
    /\ src' = [src EXCEPT !.start = src.origin]
    /\ IF ctx[Sender].media_source
       THEN ctx' = [ctx EXCEPT ![Sender].start = src.origin] /\ UNCHANGED quic
       ELSE UNCHANGED <<ctx, quic>>
    /\ UNCHANGED <<kind, wire, rcv, air, closed_with, failure>>

LearnStart ==
    /\ src.start # src.origin
    /\ src' = [src EXCEPT !.start = src.origin]
    /\ IF ctx[Sender].media_source
       THEN /\ ctx' = [ctx EXCEPT ![Sender].start = src.origin]
            /\ quic' = [quic EXCEPT ![Sender] = Marked(@, TRUE)]
       ELSE UNCHANGED <<ctx, quic>>
    /\ UNCHANGED <<kind, wire, rcv, air, closed_with, failure>>

\* quicrq_fragment_cache_set_real_time_cache.
SetRealTime ==
    /\ TRUE \in Policies /\ ~src.is_cache_real_time
    /\ src' = [src EXCEPT !.is_cache_real_time = TRUE]
    /\ IF ctx[Sender].media_source
       THEN /\ ctx' = [ctx EXCEPT ![Sender].is_cache_real_time = TRUE]
            /\ quic' = [quic EXCEPT ![Sender] = Marked(@, TRUE)]
       ELSE UNCHANGED <<ctx, quic>>
    /\ UNCHANGED <<kind, wire, rcv, air, closed_with, failure>>

\* quicrq_fragment_cache_learn_end_point; the start point was learned before.  A
\* media that starts at 0 and is empty ends at 0, which is no final point.
LearnEnd ==
    /\ ~src.ended /\ src.start = src.origin
    /\ src' = [src EXCEPT !.ended = TRUE, !.final = src.origin + src.cached]
    /\ SourceWakeup(src')
    /\ UNCHANGED <<kind, wire, rcv, air, closed_with, failure>>

\* The sender puts an object on the air, once the peer has named the media.
SendMedia(k) ==
    /\ kind # "none"
    /\ ctx[Sender].is_sender /\ ctx[Sender].media_id
    /\ k \in Objects /\ k >= src.from /\ k \notin air
    /\ air' = air \cup {k}
    /\ UNCHANGED <<kind, ctx, quic, wire, src, rcv, closed_with, failure>>

\* quicrq_receive_datagram: an object, perhaps again, perhaps after the end.
ReceiveMedia(k) ==
    /\ k \in air /\ ctx[Receiver].alive /\ ~ctx[Receiver].is_sender
    /\ ctx[Receiver].media_id
    /\ ConsumerCalled(Receiver, ctx[Receiver], quic[Receiver],
                      [rcv EXCEPT !.objects = @ \cup {k}])
    /\ UNCHANGED <<kind, wire, src, air, closed_with, failure>>

-----------------------------------------------------------------------------
(* quicrq_prepare_to_send_on_stream.                                       *)

\* Its first part: a sender that is ready chooses the next message.
Chosen_StartAgain(s) ==
    IF s.send_state # "ready" \/ ~s.is_sender \/ s.start = 0 THEN s
    ELSE Queue(s, "start_point", Message("START_POINT", s.start, FALSE))

Chosen(s) ==
    IF s.send_state # "ready" \/ ~s.is_sender THEN s
    ELSE CASE StartPending(s) ->
                Queue(s, "start_point", Message("START_POINT", s.start, FALSE))
           [] ~StartPending(s) /\ FinalPending(s) ->
                Queue(s, "final_point", Message("FIN_DATAGRAM", s.final, FALSE))
           [] ~StartPending(s) /\ ~FinalPending(s) /\ PolicyPending(s) ->
                Queue(s, "cache_policy", Message("CACHE_POLICY", 0, TRUE))
           [] OTHER -> s

\* What is known to follow the message under way, which decides whether picoquic
\* keeps polling the stream.
MoreToSend_NotPolicy(s) ==
    CASE s.send_state = "initial" -> FinalPending(s)
      [] s.send_state = "cache_policy" -> StartPending(s)
      [] OTHER -> FALSE

MoreToSend(s) ==
    CASE s.send_state = "initial" -> FinalPending(s)
      [] s.send_state = "start_point" -> PolicyPending(s)
      [] s.send_state = "cache_policy" -> StartPending(s)
      [] OTHER -> FALSE

\* The context after the last part of its message.
AfterMessage(s) ==
    LET r == [s EXCEPT !.send_state = "ready", !.message_sent = NoMessage, !.left = 0]
    IN  CASE s.send_state = "final_point" ->
                WithReason([r EXCEPT !.is_final_sent = TRUE], "finished")
          [] s.send_state = "start_point" -> [r EXCEPT !.is_start_sent = TRUE]
          [] s.send_state = "cache_policy" -> [r EXCEPT !.is_cache_policy_sent = TRUE]
          [] OTHER -> r

\* quicrq_msg_buffer_prepare_to_send: n of the parts that are left.
PrepareMessage(e, n) ==
    LET s == Chosen(ctx[e]) IN
    /\ s.send_state \notin {"ready", "fin", "no_more"} /\ n \in 1..s.left
    /\ wire' = [wire EXCEPT ![e] = Append(@, Chunk(s.message_sent, n = s.left))]
    /\ quic' = [quic EXCEPT ![e].active = n < s.left \/ MoreToSend(s)]
    /\ ctx' = [ctx EXCEPT ![e] = IF n = s.left THEN AfterMessage(s)
                                               ELSE [s EXCEPT !.left = @ - n]]
    /\ UNCHANGED closed_with

\* Nothing to send: no more polls.
PrepareIdle(e) ==
    /\ Chosen(ctx[e]).send_state = "ready"
    /\ quic' = [quic EXCEPT ![e].active = FALSE]
    /\ UNCHANGED <<ctx, wire, closed_with>>

PrepareFin_DeleteAtOnce(e) ==
    /\ ctx[e].send_state = "fin"
    /\ wire' = [wire EXCEPT ![e] = Append(@, Fin)]
    /\ Delete(e, WithReason(ctx[e], "remote_application"))

PrepareFin(e) ==
    /\ ctx[e].send_state = "fin"
    /\ wire' = [wire EXCEPT ![e] = Append(@, Fin)]
    /\ IF ctx[e].is_peer_finished
       THEN Delete(e, WithReason(ctx[e], "remote_application"))
       ELSE /\ ctx' = [ctx EXCEPT ![e].send_state = "no_more",
                                  ![e].is_local_finished = TRUE]
            /\ quic' = [quic EXCEPT ![e] = [@ EXCEPT !.active = FALSE, !.fin = TRUE]]
            /\ UNCHANGED closed_with

Prepare(e) ==
    /\ failure = "none" /\ quic[e].open
    /\ ctx[e].alive /\ quic[e].active /\ ~quic[e].fin
    /\ \/ \E n \in 1..2 : PrepareMessage(e, n)
       \/ PrepareIdle(e)
       \/ PrepareFin(e)
    /\ UNCHANGED <<kind, src, rcv, air, failure>>

-----------------------------------------------------------------------------
(* quicrq_receive_stream_data, one chunk per call.                         *)

\* The context that gets the chunk: quicrq_callback creates it if there is none.
Found(e) == IF ctx[e].alive THEN ctx[e] ELSE NewStream

\* A callback that returns -1: picoquic ends the connection.  The contexts are
\* deleted by the close that follows.
Fail(e, why) ==
    /\ failure' = why
    /\ ctx' = [ctx EXCEPT ![e] = Found(e)]
    /\ UNCHANGED <<quic, src, rcv, closed_with>>

\* REQUEST, for a url that the server has or can get.  The intent is compared with
\* the next point of the stream, which is 0 here: it is never overridden.
ReceiveRequest(e, m) ==
    LET s == Subscribed(Found(e))
        w == [WakeupCopied(s, src) EXCEPT !.is_sender = TRUE, !.media_id = TRUE,
                                          !.receive_state = "done"]
        q == WakeupMarked(s, quic[e], src)
    IN  /\ Found(e).receive_state = "initial"
        /\ IF m.point > 0
           THEN /\ ctx' = [ctx EXCEPT ![e] =
                            Queue([w EXCEPT !.start = m.point], "start_point",
                                  Message("START_POINT", m.point, FALSE))]
                /\ quic' = [quic EXCEPT ![e] = Marked(q, TRUE)]
                /\ src' = [src EXCEPT !.from = m.point]
           ELSE /\ ctx' = [ctx EXCEPT ![e] = w]
                /\ quic' = [quic EXCEPT ![e] = q]
                /\ src' = [src EXCEPT !.from = src.start]
        /\ UNCHANGED <<rcv, closed_with, failure>>

\* POST: quicrq_cnx_accept_media.
ReceivePost(e, m) ==
    /\ Found(e).receive_state = "initial"
    /\ ctx' = [ctx EXCEPT ![e] =
                [Queue(Found(e), "initial", Message("ACCEPT", 0, FALSE))
                    EXCEPT !.receive_state = "fragment", !.media_id = TRUE,
                           !.start = m.point]]
    /\ quic' = [quic EXCEPT ![e] = Marked(@, TRUE)]
    /\ UNCHANGED <<src, rcv, closed_with, failure>>

\* ACCEPT: quicrq_cnx_post_accepted.
ReceiveAccept(e, m) ==
    LET s == [Found(e) EXCEPT !.is_sender = TRUE, !.media_id = TRUE,
                              !.send_state = "ready", !.receive_state = "done"]
        q == Marked(quic[e], StartPending(s) \/ PolicyPending(s))
    IN  /\ ctx' = [ctx EXCEPT ![e] = WakeupCopied(s, src)]
        /\ quic' = [quic EXCEPT ![e] = WakeupMarked(s, q, src)]
        /\ UNCHANGED <<src, rcv, closed_with, failure>>

ReceiveStartPoint(e, m) ==
    /\ Found(e).receive_state = "fragment" /\ Found(e).start = 0
    /\ ConsumerCalled(e, [Found(e) EXCEPT !.start = m.point], quic[e], rcv)
    /\ UNCHANGED <<src, closed_with, failure>>

\* FIN_DATAGRAM: the final point goes to the consumer, not to the context.
ReceiveFinalPoint(e, m) ==
    /\ Found(e).receive_state = "fragment" /\ Found(e).final = 0
    /\ ConsumerCalled(e, Found(e), quic[e], [rcv EXCEPT !.final = m.point])
    /\ UNCHANGED <<src, closed_with, failure>>

ReceiveCachePolicy(e, m) ==
    /\ Found(e).receive_state = "fragment" /\ ~Found(e).is_cache_real_time
    /\ ConsumerCalled(e, [Found(e) EXCEPT !.is_cache_real_time = m.policy], quic[e], rcv)
    /\ UNCHANGED <<src, closed_with, failure>>

\* The chunks that are a protocol error: any bytes once nothing is expected, and
\* complete messages in a state that is not theirs or for the second time.
Unexpected(e, c) ==
    LET s == Found(e)
        type == c.msg.type
    IN  \/ s.receive_state = "done"
        \/ c.whole /\ type \in {"REQUEST", "POST"} /\ s.receive_state # "initial"
        \/ /\ c.whole /\ type \in {"START_POINT", "FIN_DATAGRAM", "CACHE_POLICY"}
           /\ \/ s.receive_state # "fragment"
              \/ type = "START_POINT" /\ s.start # 0
              \/ type = "FIN_DATAGRAM" /\ s.final # 0
              \/ type = "CACHE_POLICY" /\ s.is_cache_real_time

ReceiveMessage(e, m) ==
    \/ m.type = "REQUEST" /\ ReceiveRequest(e, m)
    \/ m.type = "REQUEST" /\ Found(e).receive_state = "initial" /\ Fail(e, "no_source")
    \/ m.type = "POST" /\ ReceivePost(e, m)
    \/ m.type = "ACCEPT" /\ Found(e).receive_state # "done" /\ ReceiveAccept(e, m)
    \/ m.type = "START_POINT" /\ ReceiveStartPoint(e, m)
    \/ m.type = "FIN_DATAGRAM" /\ ReceiveFinalPoint(e, m)
    \/ m.type = "CACHE_POLICY" /\ ReceiveCachePolicy(e, m)

\* quicrq_msg_buffer_store: part of a message is kept until the rest comes.
ReceivePart(e) ==
    /\ Found(e).receive_state # "done"
    /\ ctx' = [ctx EXCEPT ![e] = Found(e)]
    /\ UNCHANGED <<quic, src, rcv, closed_with, failure>>

\* FIN: close this side too, or delete the context if that is done.
ReceiveFin_NotMarked(e) ==
    LET s == [Found(e) EXCEPT !.is_peer_finished = TRUE] IN
    /\ IF s.is_local_finished
       THEN Delete(e, WithReason(s, "remote_application"))
       ELSE /\ ctx' = [ctx EXCEPT ![e] = [s EXCEPT !.send_state = "fin"]]
            /\ UNCHANGED <<quic, closed_with>>
    /\ UNCHANGED <<src, rcv, failure>>

ReceiveFin(e) ==
    LET s == [Found(e) EXCEPT !.is_peer_finished = TRUE] IN
    /\ IF s.is_local_finished
       THEN Delete(e, WithReason(s, "remote_application"))
       ELSE /\ ctx' = [ctx EXCEPT ![e] = [s EXCEPT !.send_state = "fin"]]
            /\ quic' = [quic EXCEPT ![e] = Marked(@, TRUE)]
            /\ UNCHANGED closed_with
    /\ UNCHANGED <<src, rcv, failure>>

Receive(e) ==
    /\ failure = "none" /\ quic[e].open /\ wire[Peer(e)] # <<>>
    /\ wire' = [wire EXCEPT ![Peer(e)] = Tail(@)]
    /\ LET c == Head(wire[Peer(e)]) IN
       \/ c.fin /\ ReceiveFin(e)
       \/ ~c.fin /\ ~c.whole /\ ReceivePart(e)
       \/ ~c.fin /\ c.whole /\ ReceiveMessage(e, c.msg)
       \/ ~c.fin /\ Unexpected(e, c) /\ Fail(e, "protocol")
    /\ UNCHANGED <<kind, air>>

\* The connection ends at one of its ends: quicrq_delete_cnx_context.
Close(e) ==
    /\ quic[e].open
    /\ quic' = [quic EXCEPT ![e] = [open |-> FALSE, active |-> FALSE, fin |-> TRUE]]
    /\ ctx' = [ctx EXCEPT ![e] = NoStream]
    /\ closed_with' = IF ctx[e].alive
                      THEN [closed_with EXCEPT ![e] =
                                WithReason(ctx[e], "quic_connection").close_reason]
                      ELSE closed_with
    /\ wire' = [wire EXCEPT ![Peer(e)] = <<>>]
    /\ UNCHANGED <<kind, src, rcv, air, failure>>

ControlNext ==
    \/ \E i \in Intents : SubscribeMedia(i)
    \/ PostMedia
    \/ Abandon
    \/ PublishObject
    \/ LearnStart
    \/ SetRealTime
    \/ LearnEnd
    \/ \E k \in Points : SendMedia(k)
    \/ \E k \in Points : ReceiveMedia(k)
    \/ \E e \in Ends : Prepare(e)
    \/ \E e \in Ends : Receive(e)
    \/ \E e \in Ends : Close(e)

ControlSpec == ControlInit /\ [][ControlNext]_vars

\* picoquic polls an active stream, and delivers; objects are sent and repaired.
ControlFairSpec ==
    /\ ControlSpec
    /\ \A e \in Ends : WF_vars(Prepare(e)) /\ WF_vars(Receive(e))
    /\ \A k \in Points : WF_vars(SendMedia(k)) /\ WF_vars(ReceiveMedia(k))

-----------------------------------------------------------------------------
(* Properties.                                                             *)

Broken == failure # "none" \/ \E e \in Ends : ~quic[e].open

\* No order of messages, objects, polls and calls makes an end send what the other
\* rejects as a protocol violation (the -1 returns of quicrq_receive_stream_data).
NoProtocolError == failure # "protocol"

\* A context is deleted only when nothing more can come for it: a chunk that came
\* after that would recreate it in quicrq_callback as if the stream were new.
NoOrphanData ==
    \A e \in Ends : quic[e].open /\ closed_with[e] # "none"
                        => ~ctx[e].alive /\ wire[Peer(e)] = <<>>

\* A consumer is told that its media finished (close reason of the media_close
\* event) only when it holds all objects of the source from the start point on.
FinishedIsWhole ==
    closed_with[Receiver] = "finished"
        => /\ src.ended
           /\ \A k \in Objects : k >= src.from => k \in rcv.objects

SenderHas(p) == kind # "none" /\ ctx[Sender].is_sender /\ p

\* A start point that the sender knows reaches the receiver, however it was
\* learned: with the source, from the intent, or later through the cache.
StartPointReaches ==
    SenderHas(ctx[Sender].start # 0)
        ~> ctx[Receiver].start # 0 \/ rcv.complete \/ ~ctx[Receiver].alive \/ Broken

\* The final point of the source reaches the receiver: "The sender will send a
\* final object eventually" (lib/proto.c).
FinalPointReaches ==
    SenderHas(src.final # 0)
        ~> rcv.final # 0 \/ ~ctx[Receiver].alive \/ Broken

\* The same for a media that starts at 0 and is asked for from its start.
FinalPointReachesFromZero ==
    (src.origin = 0 /\ [](ctx["server"].start = 0)) => FinalPointReaches

\* Once an end has finished or given up, both contexts are deleted.
BothEndsClose ==
    (\E e \in Ends : ctx[e].send_state = "fin")
        ~> (\A e \in Ends : ~ctx[e].alive) \/ Broken

-----------------------------------------------------------------------------
(* The inductive invariant behind the safety properties.                   *)

Reasons == {"unknown", "finished", "remote_application", "quic_connection"}

Chunks == [msg : Messages, whole : BOOLEAN, fin : BOOLEAN]

WireOK ==
    /\ wire \in [Ends -> Seq(Chunks)]
    /\ closed_with \in [Ends -> Reasons \cup {"none"}]

\* A stream that is not opened yet.
UnopenedOK ==
    kind = "none" =>
        /\ \A e \in Ends : ctx[e] = NoStream /\ wire[e] = <<>> /\ closed_with[e] = "none"
        /\ rcv.final = 0 /\ air = {} /\ src.from = 0

\* FIN is the last thing on a stream, and a context is deleted when both ends
\* have given it.
FinAt(e) ==
    /\ ctx[e].alive \/ ctx[e] = NoStream
    /\ ~quic[e].open => ~ctx[e].alive /\ quic[e].fin
    /\ \A i \in DOMAIN wire[e] : wire[e][i].fin => i = Len(wire[e]) /\ quic[e].fin
    /\ ctx[e].is_peer_finished => wire[Peer(e)] = <<>> /\ quic[Peer(e)].fin
    /\ quic[e].open /\ closed_with[e] # "none" =>
           ~ctx[e].alive /\ wire[Peer(e)] = <<>> /\ quic[Peer(e)].fin

FinOK == \A e \in Ends : FinAt(e)

\* The server has created a context, and no message has come yet.
Fresh(s) ==
    s \in {NewStream, [NewStream EXCEPT !.is_peer_finished = TRUE, !.send_state = "fin"]}

Receiving(s) ==
    /\ s.alive /\ s.receive_state = "fragment"
    /\ ~s.is_sender /\ ~s.media_source /\ s.media_id /\ s.final = 0
    /\ s.send_state \in {"initial", "ready", "fin", "no_more"}

\* Messages without an url are sent at once, except the start point that the
\* intent asks for, which waits for the next poll.
Sending(s) ==
    /\ s.alive /\ s.is_sender /\ s.media_source
    /\ s.send_state \in {"initial", "ready", "start_point", "fin", "no_more"}
    /\ s.send_state = "start_point" =>
         /\ s.message_sent.type = "START_POINT" /\ s.message_sent.point # 0
         /\ s.left = 1 /\ ~s.is_start_sent

RoleOK ==
    /\ ctx[Receiver].alive =>
         Receiving(ctx[Receiver]) \/ (Receiver = "server" /\ Fresh(ctx[Receiver]))
    /\ ctx[Sender].alive =>
         Sending(ctx[Sender]) \/ (Sender = "server" /\ Fresh(ctx[Sender]))
    /\ Sender = "server" => ctx["server"].send_state # "initial"
    /\ kind # "none" /\ quic["client"].open /\ closed_with["client"] = "none" =>
         ctx["client"].alive

Opening == IF kind = "request" THEN "REQUEST" ELSE "POST"
Announcements == {"START_POINT", "FIN_DATAGRAM", "CACHE_POLICY"}

Opens(c) == ~c.fin /\ c.msg.type = Opening
Announces(c) == ~c.fin /\ c.whole /\ c.msg.type \in Announcements

\* The server has not got the message that opens the stream.
Untouched ==
    /\ ctx["server"] \in {NoStream, NewStream} /\ wire["server"] = <<>>
    /\ rcv.final = 0 /\ ctx["client"].receive_state # "done"
    /\ kind = "request" => /\ ctx["client"].start = 0 /\ ~ctx["client"].is_cache_real_time
                           /\ src.from = 0

OpeningOK ==
    /\ ctx["client"].send_state = "initial" =>
         /\ ctx["client"].message_sent.type = Opening /\ ctx["client"].left \in {1, 2}
         /\ Untouched
         /\ \A i \in DOMAIN wire["client"] : Opens(wire["client"][i]) /\ ~wire["client"][i].whole
    /\ \A i \in DOMAIN wire["client"] : Opens(wire["client"][i]) => Untouched
    /\ \A i, j \in DOMAIN wire["client"] : i < j /\ Opens(wire["client"][j]) =>
         Opens(wire["client"][i]) /\ ~wire["client"][i].whole

\* What the receiver of the media says: one message, and FIN.
ReceiverSays ==
    /\ \A i \in DOMAIN wire[Receiver] :
         LET c == wire[Receiver][i] IN
         \/ c.fin
         \/ Receiver = "client" /\ Opens(c)
         \/ Receiver = "server" /\ c.whole /\ c.msg.type = "ACCEPT"
    /\ \A i, j \in DOMAIN wire[Receiver] :
         i < j /\ ~wire[Receiver][i].fin /\ wire[Receiver][i].whole => wire[Receiver][j].fin
    /\ ctx[Receiver].send_state = "initial" =>
         /\ ctx[Sender].receive_state # "done"
         /\ \A i \in DOMAIN wire[Receiver] : ~wire[Receiver][i].fin /\ ~wire[Receiver][i].whole
         /\ Receiver = "server" =>
              ctx[Receiver].message_sent.type = "ACCEPT" /\ ctx[Receiver].left = 1
    /\ ctx[Sender].receive_state = "done" =>
         \A i \in DOMAIN wire[Receiver] : wire[Receiver][i].fin

\* The receiver has the message that opens the stream, or finds it first.
Ready(n) ==
    \/ ~quic[Receiver].open \/ Receiving(ctx[Receiver])
    \/ \E j \in DOMAIN wire[Sender] :
         j < n /\ Opens(wire[Sender][j]) /\ wire[Sender][j].whole

SenderSays ==
    /\ \A i \in DOMAIN wire[Sender] :
         LET c == wire[Sender][i] IN
         \/ c.fin
         \/ Sender = "client" /\ Opens(c)
         \/ Announces(c) /\ Ready(i)
    /\ Sending(ctx[Sender]) /\ ctx[Sender].send_state # "initial" =>
         quic[Sender].fin \/ Ready(Len(wire[Sender]) + 1)

\* Does c carry a start point, the policy?
IsStart(c) == ~c.fin /\ c.msg.type = "START_POINT"
IsPolicy(c) == ~c.fin /\ c.msg.type = "CACHE_POLICY"
NoneOnPost == \A i \in DOMAIN wire[Sender] : Opens(wire[Sender][i]) => wire[Sender][i].msg.point = 0

\* The start point is told once.
StartOK ==
    /\ Sending(ctx[Sender]) /\ ~ctx[Sender].is_start_sent =>
         /\ ctx[Receiver].start = 0 /\ NoneOnPost
         /\ ctx[Sender].send_state = "initial" => ctx[Sender].message_sent.point = 0
         /\ \A i \in DOMAIN wire[Sender] : ~IsStart(wire[Sender][i])
    /\ \A i \in DOMAIN wire[Sender] : IsStart(wire[Sender][i]) =>
         /\ wire[Sender][i].msg.point # 0
         /\ ctx[Receiver].start = 0 /\ NoneOnPost
         /\ \A j \in DOMAIN wire[Sender] : IsStart(wire[Sender][j]) => j = i

\* And so is the policy.
PolicyOK ==
    /\ Sending(ctx[Sender]) /\ ~ctx[Sender].is_cache_policy_sent =>
         /\ ~ctx[Receiver].is_cache_real_time
         /\ \A i \in DOMAIN wire[Sender] : ~IsPolicy(wire[Sender][i])
    /\ \A i \in DOMAIN wire[Sender] : IsPolicy(wire[Sender][i]) =>
         /\ ~ctx[Receiver].is_cache_real_time
         /\ \A j \in DOMAIN wire[Sender] : IsPolicy(wire[Sender][j]) => j = i

\* A start point that skips nothing of what the sender sends.
SkipsNothing(p) == p <= src.from \/ p <= src.origin

WholeMedia == src.ended /\ \A k \in Objects : k >= src.from => k \in rcv.objects

PointsOK ==
    /\ src.start \in {0, src.origin}
    /\ src.final = IF src.ended THEN src.origin + src.cached ELSE 0
    /\ rcv.final \in {0, src.final}
    /\ \A e \in Ends : ctx[e].final \in {0, src.final} /\ SkipsNothing(ctx[e].start)
    /\ ctx[Sender].send_state \in {"initial", "start_point"} /\ ctx[Sender].alive =>
         SkipsNothing(ctx[Sender].message_sent.point)
    /\ \A i \in DOMAIN wire[Sender] : ~wire[Sender][i].fin =>
         LET m == wire[Sender][i].msg IN
         /\ m.type \in {"START_POINT", "POST"} => SkipsNothing(m.point)
         /\ m.type = "FIN_DATAGRAM" => m.point = src.final /\ m.point # 0
    /\ ctx[Receiver].close_reason = "finished" \/ closed_with[Receiver] = "finished" =>
         rcv.final # 0 /\ WholeMedia

ControlInv ==
    /\ ControlTypeOK /\ WireOK /\ UnopenedOK /\ FinOK /\ RoleOK /\ OpeningOK
    /\ ReceiverSays /\ SenderSays /\ StartOK /\ PolicyOK /\ PointsOK
    /\ NoProtocolError

-----------------------------------------------------------------------------
(* What keeps the stream going: the safety behind the liveness properties. *)

\* A callback will come: a stream is polled, or a chunk is on the way.
Moving == \E e \in Ends : (ctx[e].alive /\ quic[e].active) \/ wire[e] # <<>>

\* Unless the connection broke, the stream does not come to rest while an end
\* is closing it, or while the receiver lacks a start point that the sender knows,
\* the final point of a media without start point, or a policy set before the end.
NeverStuck ==
    ~Broken =>
        /\ (\E e \in Ends : ctx[e].alive /\ ctx[e].send_state \in {"fin", "no_more"}) => Moving
        /\ SenderHas(ctx[Sender].start # 0)
             /\ ctx[Receiver].alive /\ ctx[Receiver].start = 0 => Moving
        /\ SenderHas(src.final # 0 /\ ctx[Sender].start = 0)
             /\ ctx[Receiver].alive /\ rcv.final = 0 => Moving
        /\ SenderHas(PolicyPending(ctx[Sender]) /\ ~ctx[Sender].is_final_sent) => Moving

Gone(e) == ~quic[e].open \/ closed_with[e] # "none"

\* FIN was given when the context says so; picoquic does not poll after that.
PollAt(e) ==
    /\ quic[e].active => ~quic[e].fin
    /\ quic[e].fin <=> Gone(e) \/ (ctx[e].alive /\ ctx[e].is_local_finished)
    /\ ctx[e].is_local_finished =>
         /\ quic[e].fin /\ ~ctx[e].is_peer_finished
         /\ ctx[e].send_state \in {"fin", "no_more"}
    /\ ctx[e].send_state = "no_more" => ctx[e].is_local_finished
    /\ ctx[e].is_peer_finished => ctx[e].send_state = "fin"

\* A context s that has something to say is polled, q being picoquic's view.
Polled(s, q) ==
    /\ s.send_state \in {"initial", "start_point"} => q.active
    /\ s.send_state = "fin" => q.active \/ s.is_local_finished
    /\ s.send_state = "ready" /\ s.receive_state = "done" =>
         /\ StartPending(s) => q.active
         /\ PolicyPending(s) /\ ~s.is_final_sent => q.active
         /\ FinalPending(s) /\ s.start = 0 => q.active

LiveAt(e) == PollAt(e) /\ (ctx[e].alive => Polled(ctx[e], quic[e]))

\* On the way from end e: a message of this type, the start point, FIN.
OnTheWay(e, type) ==
    \E i \in DOMAIN wire[e] :
        ~wire[e][i].fin /\ wire[e][i].whole /\ wire[e][i].msg.type = type

StartOnTheWay ==
    \E i \in DOMAIN wire[Sender] :
        /\ ~wire[Sender][i].fin /\ wire[Sender][i].whole
        /\ wire[Sender][i].msg.type \in {"START_POINT", "POST"}
        /\ wire[Sender][i].msg.point # 0

FinOnTheWay(e) == \E i \in DOMAIN wire[e] : wire[e][i].fin

\* A start point that was told is at the receiver, or on the way to it.
StartTold ==
    Sending(ctx[Sender]) /\ ctx[Sender].is_start_sent =>
        \/ ctx[Receiver].start # 0 \/ Gone(Receiver) \/ StartOnTheWay
        \/ ctx[Sender].send_state = "initial" /\ ctx[Sender].message_sent.point # 0

\* So is the final point, which a sender knows as soon as its source does.
FinalTold ==
    /\ ctx[Sender].is_final_sent =>
         /\ ctx[Sender].final = src.final /\ src.final # 0
         /\ rcv.final # 0 \/ Gone(Receiver) \/ OnTheWay(Sender, "FIN_DATAGRAM")
    /\ Sending(ctx[Sender]) /\ ctx[Sender].receive_state = "done" =>
         ctx[Sender].final = src.final

\* And FIN.
FinTold(e) ==
    quic[e].open /\ quic[e].fin =>
        FinOnTheWay(e) \/ ctx[Peer(e)].is_peer_finished \/ Gone(Peer(e))

\* A client that waits for ACCEPT gets it, or FIN instead.
AcceptTold ==
    kind = "post" /\ ctx["client"].alive /\ ctx["client"].send_state = "ready"
      /\ ctx["client"].receive_state # "done" =>
        \/ OnTheWay("client", "POST") \/ OnTheWay("server", "ACCEPT")
        \/ ctx["server"].send_state \in {"initial", "fin", "no_more"} \/ Gone("server")

\* The sender of a media closes only after the receiver, has a start point when it
\* is about to send it, and waits for nothing if it was asked for the media.
SenderStays ==
    /\ ctx[Sender].send_state \in {"fin", "no_more"} => ctx[Sender].is_peer_finished
    /\ ctx[Sender].send_state = "start_point" =>
         ctx[Sender].start # 0 /\ ctx[Sender].receive_state = "done"
    /\ kind = "request" /\ Sending(ctx[Sender]) => ctx[Sender].receive_state = "done"

LiveInv ==
    /\ \A e \in Ends : LiveAt(e) /\ FinTold(e)
    /\ StartTold /\ FinalTold /\ AcceptTold /\ SenderStays
=============================================================================
