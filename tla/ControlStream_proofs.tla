------------------------ MODULE ControlStream_proofs ------------------------
(***************************************************************************)
(* Theorems about the control stream of a media: no end sends what the     *)
(* other rejects, a context is deleted only when nothing more can come for *)
(* it, and "finished" is said of whole media only.  They hold for all      *)
(* start points, intents, policies and numbers of objects.                 *)
(***************************************************************************)
EXTENDS ControlStream, TLAPS

-----------------------------------------------------------------------------
(* Ends, points and contexts.                                              *)

\* The two ends of the stream are the sender and the receiver of the media.
LEMMA TwoEnds ==
    /\ Sender \in Ends /\ Receiver \in Ends /\ Sender # Receiver
    /\ Peer(Sender) = Receiver /\ Peer(Receiver) = Sender
    /\ \A e \in Ends : e = Sender \/ e = Receiver
    /\ \A e \in Ends : Peer(e) \in Ends /\ Peer(e) # e
    /\ "client" \in Ends /\ "server" \in Ends /\ Peer("client") = "server" /\ Peer("server") = "client"
BY DEF Sender, Receiver, Peer, Ends

LEMMA PointsNat == Points \subseteq Nat /\ 0 \in Points
BY ControlAssumption DEF Points

LEMMA StartPoints == Origins \subseteq Points /\ Intents \subseteq Points
<1>1. \A n \in 0..MaxStart : n \in Points
  BY ControlAssumption DEF Points
<1> QED
  BY <1>1, ControlAssumption

LEMMA NewStreamType == NewStream \in StreamContexts /\ NoStream \in StreamContexts
<1>1. NoMessage \in Messages
  BY PointsNat DEF NoMessage, Message, Messages, MessageTypes
<1>2. NewStream \in StreamContexts
  BY <1>1, PointsNat DEF NewStream, StreamContexts, SendStates, ReceiveStates
<1> QED
  BY <1>2 DEF NoStream, StreamContexts

\* The fields of a new context and of none.
LEMMA NewShape ==
    \A s \in {NewStream, NoStream} :
        /\ s.send_state = "ready" /\ s.receive_state = "initial"
        /\ ~s.is_sender /\ ~s.media_source /\ ~s.media_id
        /\ s.start = 0 /\ ~s.is_start_sent /\ s.final = 0 /\ ~s.is_final_sent
        /\ ~s.is_cache_real_time /\ ~s.is_cache_policy_sent
        /\ ~s.is_local_finished /\ ~s.is_peer_finished
        /\ s.close_reason = "unknown" /\ s.left = 0
        /\ s.alive <=> s = NewStream
<1>1. NewStream.alive /\ ~NoStream.alive /\ NewStream # NoStream
  BY DEF NewStream, NoStream
<1>2. ASSUME NEW s \in {NewStream, NoStream}
      PROVE  /\ s.send_state = "ready" /\ s.receive_state = "initial"
             /\ ~s.is_sender /\ ~s.media_source /\ ~s.media_id
             /\ s.start = 0 /\ ~s.is_start_sent /\ s.final = 0 /\ ~s.is_final_sent
             /\ ~s.is_cache_real_time /\ ~s.is_cache_policy_sent
             /\ ~s.is_local_finished /\ ~s.is_peer_finished
             /\ s.close_reason = "unknown" /\ s.left = 0
  BY DEF NewStream, NoStream
<1> QED
  BY <1>1, <1>2

LEMMA NoShape ==
    /\ ~NoStream.alive /\ ~NoStream.media_source /\ ~NoStream.is_sender
    /\ ~NoStream.is_peer_finished /\ ~NoStream.is_local_finished
    /\ NoStream.start = 0 /\ NoStream.final = 0 /\ ~NoStream.is_cache_real_time
    /\ NoStream.send_state = "ready" /\ NoStream.receive_state = "initial"
    /\ NoStream.close_reason = "unknown" /\ ~NoStream.is_start_sent
    /\ ~NoStream.is_cache_policy_sent
BY DEF NoStream, NewStream

LEMMA FreshShape ==
    ASSUME NEW s, Fresh(s)
    PROVE  /\ s.send_state \in {"ready", "fin"} /\ s.receive_state = "initial"
           /\ ~s.is_sender /\ ~s.media_source /\ ~s.media_id
           /\ s.start = 0 /\ ~s.is_start_sent /\ s.final = 0 /\ ~s.is_final_sent
           /\ ~s.is_cache_real_time /\ ~s.is_cache_policy_sent
           /\ ~s.is_local_finished
           /\ s.close_reason = "unknown" /\ s.left = 0
           /\ s.alive /\ (s.is_peer_finished <=> s # NewStream)
           /\ s.is_peer_finished <=> s.send_state = "fin"
<1>1. CASE s = NewStream
  BY <1>1, NewShape
<1>2. CASE s = [NewStream EXCEPT !.is_peer_finished = TRUE, !.send_state = "fin"]
  BY <1>2 DEF NewStream
<1> QED
  BY <1>1, <1>2 DEF Fresh

LEMMA QueueType ==
    ASSUME NEW s \in StreamContexts, NEW state \in SendStates, NEW m \in Messages
    PROVE  Queue(s, state, m) \in StreamContexts
<1> DEFINE l == IF m.type \in {"REQUEST", "POST"} THEN 2 ELSE 1
<1>1. l \in 0..2 /\ Queue(s, state, m) =
         [s EXCEPT !.send_state = state, !.message_sent = m, !.left = l]
  BY DEF Queue
<1> HIDE DEF l
<1> QED
  BY <1>1 DEF StreamContexts

LEMMA ReasonShape ==
    ASSUME NEW s \in StreamContexts, NEW r \in Reasons
    PROVE  /\ WithReason(s, r) \in StreamContexts
           /\ \/ WithReason(s, r) = s /\ s.close_reason # "unknown"
              \/ WithReason(s, r) = [s EXCEPT !.close_reason = r] /\ s.close_reason = "unknown"
BY DEF WithReason, StreamContexts, Reasons

QuicViews == [open : BOOLEAN, active : BOOLEAN, fin : BOOLEAN]

\* Polling a stream or not changes nothing else of picoquic's view.
LEMMA MarkedShape ==
    ASSUME NEW q \in QuicViews
    PROVE  /\ \A on \in BOOLEAN : /\ Marked(q, on) \in QuicViews
                                  /\ Marked(q, on).open = q.open /\ Marked(q, on).fin = q.fin
           /\ \A s, source : /\ WakeupMarked(s, q, source) \in QuicViews
                             /\ WakeupMarked(s, q, source).open = q.open
                             /\ WakeupMarked(s, q, source).fin = q.fin
<1>1. ASSUME NEW on \in BOOLEAN
      PROVE  Marked(q, on) \in QuicViews /\ Marked(q, on).open = q.open /\ Marked(q, on).fin = q.fin
  <2> DEFINE b == on /\ ~q.fin
  <2>1. b \in BOOLEAN
    OBVIOUS
  <2>2. Marked(q, on) = [q EXCEPT !.active = b]
    BY DEF Marked
  <2> HIDE DEF b
  <2> QED
    BY <2>1, <2>2 DEF QuicViews
<1>2. \A s, source : WakeupMarked(s, q, source) \in {q, Marked(q, TRUE)}
  BY DEF WakeupMarked
<1> QED
  BY <1>1, <1>2

-----------------------------------------------------------------------------
(* Steps of the source.                                                    *)

\* t is s but for the start point, the final point and the policy.
Alike(s, t) ==
    /\ t.alive = s.alive /\ t.send_state = s.send_state
    /\ t.receive_state = s.receive_state /\ t.is_sender = s.is_sender
    /\ t.media_source = s.media_source /\ t.media_id = s.media_id
    /\ t.is_start_sent = s.is_start_sent
    /\ t.is_cache_policy_sent = s.is_cache_policy_sent
    /\ t.is_peer_finished = s.is_peer_finished
    /\ t.message_sent = s.message_sent /\ t.left = s.left
    /\ t.close_reason = s.close_reason

\* A source that learns something touches the context of the sender only, and
\* there only the start point, the final point and the policy.
LEMMA SourceFrame ==
    ASSUME ControlInv, UNCHANGED <<kind, wire, rcv, air, closed_with, failure>>,
           src'.from = src.from,
           \A e \in Ends : quic'[e].open = quic[e].open /\ quic'[e].fin = quic[e].fin,
           ctx' = ctx \/ ctx[Sender].media_source,
           ctx'[Receiver] = ctx[Receiver], Alike(ctx[Sender], ctx'[Sender])
    PROVE  /\ WireOK' /\ UnopenedOK' /\ FinOK' /\ RoleOK' /\ OpeningOK'
           /\ ReceiverSays' /\ SenderSays' /\ StartOK' /\ PolicyOK'
<1> DEFINE s == ctx[Sender]
           t == ctx'[Sender]
<1> USE TwoEnds
<1>0. Sender' = Sender /\ Receiver' = Receiver /\ Opening' = Opening
  BY DEF Sender, Receiver, Opening
<1>a. ctx \in [Ends -> StreamContexts]
  BY DEF ControlInv, ControlTypeOK
<1>b. WireOK /\ UnopenedOK /\ FinOK /\ RoleOK /\ OpeningOK
  BY DEF ControlInv
<1>c. ReceiverSays /\ SenderSays /\ StartOK /\ PolicyOK
  BY DEF ControlInv
<1>d. ctx'[Receiver] = ctx[Receiver]
  OBVIOUS
<1>e. Alike(s, t)
  OBVIOUS
<1>2. WireOK'
  BY <1>b DEF WireOK
<1>3. ctx' = ctx \/ Sending(s)
  <2>1. ~NoStream.media_source /\ \A x : Fresh(x) => ~x.media_source
    BY NewShape, FreshShape
  <2> QED
    BY <1>b, <2>1 DEF RoleOK, FinOK, FinAt
<1>4. UnopenedOK'
  BY <1>0, <1>3, <1>b, <1>a, NewShape DEF UnopenedOK, Sending
<1> HIDE DEF s, t
<1>6. FinOK'
  BY <1>3, <1>b, <1>d, <1>e DEF Alike, FinOK, FinAt, Sending, s, t
<1>7. RoleOK'
  BY <1>0, <1>3, <1>d, <1>e, <1>b DEF Alike, RoleOK, Sending, s, t
<1>8. OpeningOK'
  <2>1. Untouched => Untouched'
    BY <1>0, <1>3, <1>d, <1>e, <1>a, NewShape DEF Alike, Untouched, Sending, Sender, Receiver, Peer, s, t
  <2> QED
    BY <1>0, <1>d, <1>e, <1>b, <2>1 DEF Alike, OpeningOK, Opens, s, t
<1>9. ReceiverSays'
  BY <1>0, <1>d, <1>e, <1>c DEF Alike, ReceiverSays, Opens, s, t
<1>10. SenderSays'
  BY <1>0, <1>d, <1>e, <1>c DEF Alike, SenderSays, Ready, Sending, Opens, Announces, s, t
<1>11. StartOK'
  BY <1>0, <1>d, <1>e, <1>c DEF Alike, StartOK, Sending, NoneOnPost, IsStart, Opens, s, t
<1>12. PolicyOK'
  BY <1>0, <1>d, <1>e, <1>c DEF Alike, PolicyOK, Sending, IsPolicy, s, t
<1> QED
  BY <1>2, <1>4, <1>6, <1>7, <1>8, <1>9, <1>10, <1>11, <1>12


\* What the sender of a media has in its context, and the source beside it.
LEMMA SourceShape ==
    ASSUME ControlInv
    PROVE  /\ ctx \in [Ends -> StreamContexts] /\ quic \in [Ends -> QuicViews]
           /\ src.origin \in Nat /\ src.origin \in Points /\ src.from \in Nat
           /\ src.cached \in 0..MaxObjects /\ src.ended \in BOOLEAN
           /\ \A e \in Ends : ctx[e].start \in Nat /\ ctx[e].final \in Nat
<1>1. ControlTypeOK
  BY DEF ControlInv
<1>2. ctx \in [Ends -> StreamContexts] /\ quic \in [Ends -> QuicViews]
  BY <1>1 DEF ControlTypeOK, QuicViews
<1>3. src.origin \in Points /\ src.from \in Points /\ src.cached \in 0..MaxObjects
  BY <1>1, StartPoints DEF ControlTypeOK
<1>4. \A e \in Ends : ctx[e].start \in Points /\ ctx[e].final \in Points
  BY <1>2 DEF StreamContexts
<1> QED
  BY <1>1, <1>2, <1>3, <1>4, PointsNat DEF ControlTypeOK

SourceRecords ==
    [origin : Origins, start : Points, cached : 0..MaxObjects, final : Points,
     ended : BOOLEAN, is_cache_real_time : BOOLEAN, from : Points]

\* All of the invariant but the points, for a step of the source.
LEMMA SourceStep ==
    ASSUME ControlInv, UNCHANGED <<kind, wire, rcv, air, closed_with, failure>>,
           src' \in SourceRecords, src'.from = src.from,
           NEW t \in StreamContexts, Alike(ctx[Sender], t),
           ctx' = ctx \/ (ctx[Sender].media_source /\ ctx' = [ctx EXCEPT ![Sender] = t]),
           quic' = quic \/ quic' = [quic EXCEPT ![Sender] = Marked(@, TRUE)]
    PROVE  /\ PointsOK' => ControlInv'
           /\ ctx'[Receiver] = ctx[Receiver] /\ ctx'[Sender] \in {ctx[Sender], t}
           /\ Sender' = Sender /\ Receiver' = Receiver
           /\ Alike(ctx[Sender], ctx'[Sender])
<1> USE TwoEnds
<1>1. ControlTypeOK /\ PointsOK /\ RoleOK
  BY DEF ControlInv
<1>2. ctx \in [Ends -> StreamContexts] /\ quic \in [Ends -> QuicViews]
  BY SourceShape
<1>3. /\ quic' \in [Ends -> QuicViews]
      /\ \A e \in Ends : quic'[e].open = quic[e].open /\ quic'[e].fin = quic[e].fin
  <2>1. /\ Marked(quic[Sender], TRUE) \in QuicViews
        /\ Marked(quic[Sender], TRUE).open = quic[Sender].open
        /\ Marked(quic[Sender], TRUE).fin = quic[Sender].fin
    BY <1>2, MarkedShape
  <2>2. CASE quic' = quic
    BY <1>2, <2>2
  <2>3. CASE quic' = [quic EXCEPT ![Sender] = Marked(@, TRUE)]
    BY <1>2, <2>1, <2>3
  <2> QED
    BY <2>2, <2>3
<1>4. /\ ctx' \in [Ends -> StreamContexts] /\ ctx'[Receiver] = ctx[Receiver]
      /\ ctx'[Sender] \in {ctx[Sender], t} /\ Alike(ctx[Sender], ctx'[Sender])
  BY <1>2 DEF Alike
<1>5. /\ WireOK' /\ UnopenedOK' /\ FinOK' /\ RoleOK' /\ OpeningOK'
      /\ ReceiverSays' /\ SenderSays' /\ StartOK' /\ PolicyOK'
  BY <1>3, <1>4, SourceFrame
<1>6. ControlTypeOK'
  BY <1>1, <1>3, <1>4 DEF ControlTypeOK, QuicViews, SourceRecords
<1>7. PointsOK' => ControlInv'
  BY <1>1, <1>5, <1>6 DEF ControlInv, NoProtocolError
<1>8. Sender' = Sender /\ Receiver' = Receiver
  BY DEF Sender, Receiver
<1> QED
  BY <1>4, <1>7, <1>8

LEMMA LearnStartStep ==
    ASSUME ControlInv, LearnStart
    PROVE  ControlInv'
<1> USE TwoEnds
<1> DEFINE s == ctx[Sender]
           t == [s EXCEPT !.start = src.origin]
<1>1. src \in SourceRecords /\ PointsOK
  BY DEF ControlInv, ControlTypeOK, SourceRecords
<1>2. s \in StreamContexts /\ src.origin \in Points /\ src.origin \in Nat
  BY SourceShape
<1>3. /\ UNCHANGED <<kind, wire, rcv, air, closed_with, failure>>
      /\ src' = [src EXCEPT !.start = src.origin]
      /\ ctx' = ctx \/ (s.media_source /\ ctx' = [ctx EXCEPT ![Sender] = t])
      /\ quic' = quic \/ quic' = [quic EXCEPT ![Sender] = Marked(@, TRUE)]
  BY DEF LearnStart
<1>4. /\ src' \in SourceRecords
      /\ src'.start = src.origin /\ src'.origin = src.origin /\ src'.cached = src.cached
      /\ src'.final = src.final /\ src'.ended = src.ended /\ src'.from = src.from
  BY <1>1, <1>2, <1>3 DEF SourceRecords
<1>5. t \in StreamContexts /\ Alike(s, t) /\ t.start = src.origin /\ t.final = s.final
  <2> HIDE DEF s
  <2> QED
    BY <1>2 DEF StreamContexts, Alike, t
<1> HIDE DEF t
<1>6. /\ PointsOK' => ControlInv'
      /\ ctx'[Receiver] = ctx[Receiver] /\ ctx'[Sender] \in {s, t}
      /\ Sender' = Sender /\ Receiver' = Receiver /\ Alike(s, ctx'[Sender])
  BY <1>3, <1>4, <1>5, SourceStep
<1>7. PointsOK'
  <2>1. \A p : SkipsNothing(p)' = SkipsNothing(p)
    BY <1>4 DEF SkipsNothing
  <2>2. SkipsNothing(src.origin)
    BY <1>2 DEF SkipsNothing
  <2>3. WholeMedia' = WholeMedia
    BY <1>3, <1>4 DEF WholeMedia, Objects
  <2>4. ctx'[Sender].final \in {0, src.final} /\ SkipsNothing(ctx'[Sender].start)
    BY <1>1, <1>5, <1>6, <2>2 DEF PointsOK
  <2> QED
    BY <1>1, <1>3, <1>4, <1>6, <2>1, <2>3, <2>4 DEF PointsOK, Alike
<1> QED
  BY <1>6, <1>7

LEMMA SetRealTimeStep ==
    ASSUME ControlInv, SetRealTime
    PROVE  ControlInv'
<1> USE TwoEnds
<1> DEFINE s == ctx[Sender]
           t == [s EXCEPT !.is_cache_real_time = TRUE]
<1>1. src \in SourceRecords /\ PointsOK
  BY DEF ControlInv, ControlTypeOK, SourceRecords
<1>2. s \in StreamContexts
  BY SourceShape
<1>3. /\ UNCHANGED <<kind, wire, rcv, air, closed_with, failure>>
      /\ src' = [src EXCEPT !.is_cache_real_time = TRUE]
      /\ ctx' = ctx \/ (s.media_source /\ ctx' = [ctx EXCEPT ![Sender] = t])
      /\ quic' = quic \/ quic' = [quic EXCEPT ![Sender] = Marked(@, TRUE)]
  BY DEF SetRealTime
<1>4. /\ src' \in SourceRecords
      /\ src'.start = src.start /\ src'.origin = src.origin /\ src'.cached = src.cached
      /\ src'.final = src.final /\ src'.ended = src.ended /\ src'.from = src.from
  BY <1>1, <1>3 DEF SourceRecords
<1>5. t \in StreamContexts /\ Alike(s, t) /\ t.start = s.start /\ t.final = s.final
  <2> HIDE DEF s
  <2> QED
    BY <1>2 DEF StreamContexts, Alike, t
<1> HIDE DEF t
<1>6. /\ PointsOK' => ControlInv'
      /\ ctx'[Receiver] = ctx[Receiver] /\ ctx'[Sender] \in {s, t}
      /\ Sender' = Sender /\ Receiver' = Receiver /\ Alike(s, ctx'[Sender])
  BY <1>3, <1>4, <1>5, SourceStep
<1>7. PointsOK'
  <2>1. \A p : SkipsNothing(p)' = SkipsNothing(p)
    BY <1>4 DEF SkipsNothing
  <2>2. WholeMedia' = WholeMedia
    BY <1>3, <1>4 DEF WholeMedia, Objects
  <2> QED
    BY <1>1, <1>3, <1>4, <1>5, <1>6, <2>1, <2>2 DEF PointsOK, Alike
<1> QED
  BY <1>6, <1>7

LEMMA PublishObjectStep ==
    ASSUME ControlInv, PublishObject
    PROVE  ControlInv'
<1> USE TwoEnds
<1> DEFINE s == ctx[Sender]
<1>1. src \in SourceRecords /\ PointsOK
  BY DEF ControlInv, ControlTypeOK, SourceRecords
<1>2. ctx \in [Ends -> StreamContexts] /\ quic \in [Ends -> QuicViews]
  BY SourceShape
<1>3. /\ UNCHANGED <<kind, wire, rcv, air, closed_with, failure>>
      /\ src' = [src EXCEPT !.cached = @ + 1] /\ ~src.ended /\ src.cached < MaxObjects
  BY DEF PublishObject
<1>4. /\ src' \in SourceRecords
      /\ src'.start = src.start /\ src'.origin = src.origin /\ src'.cached = src.cached + 1
      /\ src'.final = src.final /\ src'.ended = src.ended /\ src'.from = src.from
  <2>1. src.cached \in 0..MaxObjects /\ src.cached + 1 \in 0..MaxObjects
    BY <1>1, <1>3, ControlAssumption DEF SourceRecords
  <2> QED
    BY <1>1, <1>3, <2>1 DEF SourceRecords
<1>5. src.final = 0
  BY <1>1, <1>3 DEF PointsOK
<1>6. ctx' = ctx /\ (quic' = quic \/ quic' = [quic EXCEPT ![Sender] = Marked(@, TRUE)])
  <2>1. WakeupCopied(s, src') = s
    BY <1>4, <1>5 DEF WakeupCopied
  <2>2. [ctx EXCEPT ![Sender] = s] = ctx /\ [quic EXCEPT ![Sender] = quic[Sender]] = quic
    BY <1>2
  <2>3. CASE s.media_source
    BY <2>1, <2>2, <2>3 DEF PublishObject, SourceWakeup, WakeupMarked
  <2>4. CASE ~s.media_source
    BY <2>4 DEF PublishObject, SourceWakeup
  <2> QED
    BY <2>3, <2>4
<1>7. PointsOK' => ControlInv'
  BY <1>2, <1>3, <1>4, <1>6, SourceStep DEF Alike
<1>8. PointsOK'
  <2>1. \A p : SkipsNothing(p)' = SkipsNothing(p)
    BY <1>4 DEF SkipsNothing
  <2>2. ~WholeMedia
    BY <1>3 DEF WholeMedia
  <2>3. Sender' = Sender /\ Receiver' = Receiver
    BY <1>3 DEF Sender, Receiver
  <2> QED
    BY <1>1, <1>3, <1>4, <1>5, <1>6, <2>1, <2>2, <2>3 DEF PointsOK
<1> QED
  BY <1>7, <1>8

LEMMA LearnEndStep ==
    ASSUME ControlInv, LearnEnd
    PROVE  ControlInv'
<1> USE TwoEnds
<1> DEFINE s == ctx[Sender]
           t == WakeupCopied(s, src')
<1>1. src \in SourceRecords /\ PointsOK
  BY DEF ControlInv, ControlTypeOK, SourceRecords
<1>2. ctx \in [Ends -> StreamContexts] /\ s \in StreamContexts /\ quic \in [Ends -> QuicViews]
  BY SourceShape
<1>3. /\ UNCHANGED <<kind, wire, rcv, air, closed_with, failure>>
      /\ src' = [src EXCEPT !.ended = TRUE, !.final = src.origin + src.cached]
      /\ ~src.ended /\ src.start = src.origin
  BY DEF LearnEnd
<1>4. /\ src' \in SourceRecords
      /\ src'.start = src.start /\ src'.origin = src.origin /\ src'.cached = src.cached
      /\ src'.final = src.origin + src.cached /\ src'.ended /\ src'.from = src.from
  <2>1. src.origin + src.cached \in Points
    <3>1. src.origin \in 0..MaxStart /\ src.cached \in 0..MaxObjects
      BY <1>1, ControlAssumption DEF SourceRecords
    <3> HIDE <1>1
    <3> QED
      BY <3>1, ControlAssumption DEF Points
  <2> QED
    BY <1>1, <1>3, <2>1 DEF SourceRecords
<1>5. src.final = 0
  BY <1>1, <1>3 DEF PointsOK
<1>6. /\ t \in StreamContexts /\ Alike(s, t) /\ t.start = s.start
      /\ t.final \in {s.final, src'.final}
  <2>1. src'.final \in Points
    BY <1>4 DEF SourceRecords
  <2>2. CASE t = s
    BY <1>2, <2>2 DEF Alike
  <2>3. CASE t = [s EXCEPT !.final = src'.final]
    <3> HIDE DEF s
    <3> QED
      BY <1>2, <2>1, <2>3 DEF StreamContexts, Alike
  <2> QED
    BY <2>2, <2>3 DEF WakeupCopied
<1>7. /\ ctx' = ctx \/ (s.media_source /\ ctx' = [ctx EXCEPT ![Sender] = t])
      /\ quic' = quic \/ quic' = [quic EXCEPT ![Sender] = Marked(@, TRUE)]
  BY <1>2 DEF LearnEnd, SourceWakeup, WakeupMarked
<1> HIDE DEF t
<1>8. /\ PointsOK' => ControlInv'
      /\ ctx'[Receiver] = ctx[Receiver] /\ ctx'[Sender] \in {s, t}
      /\ Sender' = Sender /\ Receiver' = Receiver /\ Alike(s, ctx'[Sender])
  BY <1>3, <1>4, <1>6, <1>7, SourceStep
<1>9. PointsOK'
  <2>1. \A p : SkipsNothing(p)' = SkipsNothing(p)
    BY <1>4 DEF SkipsNothing
  <2>2. ~WholeMedia
    BY <1>3 DEF WholeMedia
  <2>3. ctx'[Sender].start = s.start /\ ctx'[Sender].final \in {0, src'.final}
    BY <1>1, <1>5, <1>6, <1>8 DEF PointsOK
  <2> QED
    BY <1>1, <1>3, <1>4, <1>5, <1>8, <2>1, <2>2, <2>3 DEF PointsOK, Alike
<1> QED
  BY <1>8, <1>9

-----------------------------------------------------------------------------
(* The stream opens.                                                       *)

LEMMA InitHolds == ControlInit => ControlInv
<1> SUFFICES ASSUME ControlInit PROVE ControlInv
  OBVIOUS
<1> USE TwoEnds, NewShape, PointsNat
<1>1. /\ ctx = [e \in Ends |-> NoStream] /\ wire = [e \in Ends |-> <<>>]
      /\ kind = "none" /\ closed_with = [e \in Ends |-> "none"] /\ failure = "none"
      /\ quic = [e \in Ends |-> [open |-> TRUE, active |-> FALSE, fin |-> FALSE]]
      /\ rcv = [objects |-> {}, final |-> 0, complete |-> FALSE] /\ air = {}
  BY DEF ControlInit
<1>2. PICK o \in Origins, p \in Policies : \E z \in {0, o} :
         src = [origin |-> o, start |-> z, cached |-> 0, final |-> 0,
                ended |-> FALSE, is_cache_real_time |-> p, from |-> 0]
  BY DEF ControlInit
<1>3. o \in Points /\ p \in BOOLEAN /\ 0 \in 0..MaxObjects
  BY StartPoints, ControlAssumption
<1>4. src \in SourceRecords
  BY <1>2, <1>3 DEF SourceRecords
<1>5. src.start \in {0, src.origin} /\ src.final = 0 /\ src.ended = FALSE /\ src.from = 0
  BY <1>2
<1>6. ControlTypeOK
  BY <1>1, <1>4, NewStreamType DEF ControlTypeOK, SourceRecords
<1>7. WireOK /\ UnopenedOK
  BY <1>1, <1>5 DEF WireOK, UnopenedOK
<1>8. FinOK
  BY <1>1 DEF FinOK, FinAt
<1>9. RoleOK
  BY <1>1, NoShape DEF RoleOK
<1>10. OpeningOK
  BY <1>1 DEF OpeningOK
<1>11. ReceiverSays
  BY <1>1 DEF ReceiverSays
<1>12. SenderSays /\ StartOK /\ PolicyOK
  BY <1>1 DEF SenderSays, StartOK, PolicyOK, Sending, NoneOnPost
<1>13. PointsOK
  BY <1>1, <1>5 DEF PointsOK, SkipsNothing
<1> QED
  BY <1>1, <1>6, <1>7, <1>8, <1>9, <1>10, <1>11, <1>12, <1>13 DEF ControlInv, NoProtocolError

\* The client opens the stream with context x.
LEMMA OpenStep ==
    ASSUME ControlInv, kind = "none", kind' \in {"request", "post"},
           quic["client"].open,
           quic' = [quic EXCEPT !["client"] = Marked(@, TRUE)],
           UNCHANGED <<wire, rcv, air, closed_with, failure>>,
           NEW x \in StreamContexts, ctx' = [ctx EXCEPT !["client"] = x],
           x.alive, x.send_state = "initial", x.receive_state # "done",
           x.message_sent.type = Opening', x.left = 2, ~x.is_peer_finished,
           x.close_reason = "unknown", x.final = 0,
           src' \in SourceRecords, src'.origin = src.origin, src'.start = src.start,
           src'.final = src.final, src'.ended = src.ended, src'.cached = src.cached,
           kind' = "request" => /\ Receiving(x) /\ x.start = 0 /\ ~x.is_cache_real_time
                                /\ src'.from = 0,
           kind' = "post" => /\ Sending(x) /\ x.start = src.start
                             /\ x.message_sent.point = src.start
                             /\ ~x.is_start_sent => x.start = 0
    PROVE  ControlInv'
<1> USE TwoEnds
<1>1. ControlTypeOK /\ UnopenedOK /\ WireOK /\ PointsOK
  BY DEF ControlInv
<1>2. ctx \in [Ends -> StreamContexts] /\ quic \in [Ends -> QuicViews]
  BY SourceShape
<1>3. /\ ctx' \in [Ends -> StreamContexts] /\ ctx'["client"] = x /\ ctx'["server"] = NoStream
      /\ \A e \in Ends : wire'[e] = <<>> /\ closed_with'[e] = "none"
      /\ rcv'.final = 0
  BY <1>1, <1>2 DEF UnopenedOK
<1>4. /\ quic' \in [Ends -> QuicViews]
      /\ \A e \in Ends : quic'[e].open = quic[e].open /\ quic'[e].fin = quic[e].fin
  <2>1. /\ Marked(quic["client"], TRUE) \in QuicViews
        /\ Marked(quic["client"], TRUE).open = quic["client"].open
        /\ Marked(quic["client"], TRUE).fin = quic["client"].fin
    BY <1>2, MarkedShape
  <2> QED
    BY <1>2, <2>1
<1>5. /\ kind' = "request" => Sender' = "server" /\ Receiver' = "client"
      /\ kind' = "post" => Sender' = "client" /\ Receiver' = "server"
  BY DEF Sender, Receiver, Peer
<1>6. ControlTypeOK'
  BY <1>1, <1>3, <1>4 DEF ControlTypeOK, QuicViews, SourceRecords
<1>7. WireOK' /\ UnopenedOK'
  BY <1>1 DEF WireOK, UnopenedOK
<1>8. FinOK'
  <2>1. \A e \in Ends : ~quic[e].open => quic[e].fin
    BY DEF ControlInv, FinOK, FinAt
  <2>4. \A e \in Ends : DOMAIN wire'[e] = {} /\ closed_with'[e] = "none"
    BY <1>3
  <2> SUFFICES ASSUME NEW e \in Ends
               PROVE  /\ ctx'[e].alive \/ ctx'[e] = NoStream
                      /\ ~quic'[e].open => ~ctx'[e].alive /\ quic'[e].fin
                      /\ ~ctx'[e].is_peer_finished
    BY <2>4 DEF FinOK, FinAt
  <2>2. CASE e = "client"
    BY <1>3, <1>4, <2>2
  <2>3. CASE e = "server"
    BY <1>3, <1>4, <2>1, <2>3, NoShape
  <2> QED
    BY <2>2, <2>3 DEF Ends
<1>9. RoleOK'
  BY <1>3, <1>5, NoShape DEF RoleOK
<1>10. Untouched'
  BY <1>3, <1>5 DEF Untouched
<1>11. OpeningOK'
  BY <1>3, <1>10 DEF OpeningOK
<1>12. ReceiverSays'
  BY <1>3, <1>5, NewShape DEF ReceiverSays
<1>13. SenderSays'
  <2>1. DOMAIN wire'[Sender'] = {}
    BY <1>3, <1>5
  <2>2. ~(Sending(ctx[Sender])' /\ ctx'[Sender'].send_state # "initial")
    BY <1>3, <1>5, NoShape DEF Sending
  <2> QED
    BY <2>1, <2>2 DEF SenderSays
<1>14. StartOK' /\ PolicyOK'
  BY <1>3, <1>5, NewShape DEF StartOK, PolicyOK, Sending, NoneOnPost
<1>15. PointsOK'
  <2>1. src'.origin \in Nat /\ src'.from \in Nat
    BY SourceShape, PointsNat DEF SourceRecords
  <2>2. SkipsNothing(0)' /\ SkipsNothing(src.start)'
    BY <1>1, <2>1 DEF SkipsNothing, PointsOK
  <2> QED
    BY <1>1, <1>3, <1>5, <2>2, NewShape DEF PointsOK
<1> QED
  BY <1>6, <1>7, <1>8, <1>9, <1>11, <1>12, <1>13, <1>14, <1>15 DEF ControlInv, NoProtocolError

LEMMA SubscribeMediaStep ==
    ASSUME ControlInv, NEW i \in Intents, SubscribeMedia(i)
    PROVE  ControlInv'
<1> DEFINE m == Message("REQUEST", i, FALSE)
           q == Queue(NewStream, "initial", m)
           x == [q EXCEPT !.receive_state = "fragment", !.media_id = TRUE]
<1>1. /\ kind = "none" /\ kind' = "request" /\ quic["client"].open
      /\ quic' = [quic EXCEPT !["client"] = Marked(@, TRUE)]
      /\ UNCHANGED <<wire, src, rcv, air, closed_with, failure>>
      /\ ctx' = [ctx EXCEPT !["client"] = x]
  BY DEF SubscribeMedia
<1>2. m \in Messages /\ m.type = "REQUEST"
  BY StartPoints DEF Message, Messages, MessageTypes
<1>3. q \in StreamContexts
  BY <1>2, NewStreamType, QueueType DEF SendStates
<1>4. x \in StreamContexts
  <2> HIDE DEF q
  <2> QED
    BY <1>3 DEF StreamContexts, ReceiveStates
<1>5. /\ x.alive /\ x.send_state = "initial" /\ x.receive_state = "fragment"
      /\ x.message_sent = m /\ x.left = 2 /\ ~x.is_peer_finished
      /\ x.close_reason = "unknown" /\ x.final = 0 /\ x.start = 0
      /\ ~x.is_cache_real_time /\ ~x.is_sender /\ ~x.media_source /\ x.media_id
  <2> HIDE DEF m
  <2> QED
    BY <1>2 DEF Queue, NewStream
<1> HIDE DEF m, x, q
<1>6. Receiving(x) /\ Opening' = "REQUEST"
  BY <1>1, <1>5 DEF Receiving, Opening
<1>7. src' \in SourceRecords /\ src'.from = 0
  BY <1>1 DEF ControlInv, ControlTypeOK, SourceRecords, UnopenedOK
<1> QED
  BY <1>1, <1>2, <1>4, <1>5, <1>6, <1>7, OpenStep

LEMMA PostMediaStep ==
    ASSUME ControlInv, PostMedia
    PROVE  ControlInv'
<1> DEFINE s == Subscribed(NewStream)
           m == Message("POST", s.start, s.is_cache_real_time)
           q == Queue(s, "initial", m)
           x == [q EXCEPT !.is_sender = TRUE, !.receive_state = "confirmation",
                          !.is_start_sent = (s.start # 0),
                          !.is_cache_policy_sent = s.is_cache_real_time]
<1>1. /\ kind = "none" /\ kind' = "post" /\ quic["client"].open
      /\ quic' = [quic EXCEPT !["client"] = Marked(@, TRUE)]
      /\ src' = [src EXCEPT !.from = src.start]
      /\ UNCHANGED <<wire, rcv, air, closed_with, failure>>
      /\ ctx' = [ctx EXCEPT !["client"] = x]
  BY DEF PostMedia
<1>2. src \in SourceRecords
  BY DEF ControlInv, ControlTypeOK, SourceRecords
<1>3. src.start \in Points /\ src.is_cache_real_time \in BOOLEAN
  BY <1>2 DEF SourceRecords
<1>4. /\ s \in StreamContexts /\ s.start = src.start /\ s.alive /\ s.media_source
      /\ s.is_cache_real_time = src.is_cache_real_time /\ s.final = 0
      /\ s.close_reason = "unknown" /\ ~s.is_peer_finished
  <2>1. s \in StreamContexts
    BY <1>3, NewStreamType DEF Subscribed, StreamContexts
  <2> QED
    BY <2>1 DEF Subscribed, NewStream
<1> HIDE DEF s
<1>5. m \in Messages /\ m.type = "POST" /\ m.point = src.start
  BY <1>3, <1>4 DEF Message, Messages, MessageTypes
<1>6. q \in StreamContexts
  BY <1>4, <1>5, QueueType DEF SendStates
<1>7. x \in StreamContexts
  <2> DEFINE b == s.start # 0
  <2>1. b \in BOOLEAN
    OBVIOUS
  <2> HIDE DEF q, b
  <2> QED
    BY <1>3, <1>4, <1>6, <2>1, ZenonT(30) DEF StreamContexts, ReceiveStates, b
<1>8. /\ x.alive /\ x.send_state = "initial" /\ x.receive_state = "confirmation"
      /\ x.message_sent = m /\ x.left = 2 /\ ~x.is_peer_finished
      /\ x.close_reason = "unknown" /\ x.final = 0 /\ x.start = src.start
      /\ x.is_sender /\ x.media_source
      /\ ~x.is_start_sent => x.start = 0
  <2> HIDE DEF m
  <2> QED
    BY <1>4, <1>5 DEF Queue, StreamContexts
<1> HIDE DEF m, x, q
<1>9. Sending(x) /\ Opening' = "POST"
  BY <1>1, <1>8 DEF Sending, Opening
<1>10. /\ src' \in SourceRecords /\ src'.origin = src.origin /\ src'.start = src.start
       /\ src'.final = src.final /\ src'.ended = src.ended /\ src'.cached = src.cached
  BY <1>1, <1>2, <1>3 DEF SourceRecords
<1> QED
  BY <1>1, <1>5, <1>7, <1>8, <1>9, <1>10, OpenStep

-----------------------------------------------------------------------------
(* The receiver of the media.                                              *)

\* v is what is left of w when its first n chunks are taken.
Shifted(v, w, n) ==
    /\ n \in {0, 1} /\ Len(v) \in Nat /\ Len(w) \in Nat /\ Len(w) = Len(v) + n
    /\ DOMAIN v = 1..Len(v) /\ DOMAIN w = 1..Len(w)
    /\ \A i \in DOMAIN v : i + n \in DOMAIN w /\ v[i] = w[i + n]

LEMMA TailShifted ==
    ASSUME NEW C, NEW w \in Seq(C), w # <<>>
    PROVE  /\ Shifted(Tail(w), w, 1) /\ Tail(w) \in Seq(C)
           /\ 1 \in DOMAIN w /\ Head(w) = w[1] /\ Head(w) \in C
BY DEF Shifted

LEMMA SameShifted ==
    ASSUME NEW C, NEW w \in Seq(C)
    PROVE  Shifted(w, w, 0)
BY DEF Shifted

LEMMA ChunkType ==
    ASSUME NEW u \in [Ends -> Seq(Chunks)]
    PROVE  \A e \in Ends : \A i \in DOMAIN u[e] :
                u[e][i].msg \in Messages /\ u[e][i].whole \in BOOLEAN
<1>1. ASSUME NEW e \in Ends, NEW i \in DOMAIN u[e] PROVE u[e][i] \in Chunks
  OBVIOUS
<1> QED
  BY <1>1 DEF Chunks

\* The receiver of the media takes a chunk or an object and goes on, or finishes.
LEMMA ReceiverFrame ==
    ASSUME ControlInv, UNCHANGED <<kind, src, air, closed_with, failure>>,
           ctx' \in [Ends -> StreamContexts], ctx'[Sender] = ctx[Sender],
           Receiving(ctx[Receiver]), Receiving(ctx'[Receiver]),
           ctx'[Receiver].send_state \in {ctx[Receiver].send_state, "fin"},
           ctx'[Receiver].message_sent = ctx[Receiver].message_sent,
           ctx'[Receiver].left = ctx[Receiver].left,
           ctx'[Receiver].is_peer_finished = ctx[Receiver].is_peer_finished,
           wire' \in [Ends -> Seq(Chunks)], wire'[Receiver] = wire[Receiver],
           NEW n, Shifted(wire'[Sender], wire[Sender], n),
           \A e \in Ends : quic'[e].open = quic[e].open /\ quic'[e].fin = quic[e].fin,
           n = 0 => /\ ctx'[Receiver].start = ctx[Receiver].start
                    /\ ctx'[Receiver].is_cache_real_time = ctx[Receiver].is_cache_real_time
                    /\ rcv'.final = rcv.final
    PROVE  /\ Sender' = Sender /\ Receiver' = Receiver
           /\ WireOK' /\ UnopenedOK' /\ FinOK' /\ RoleOK' /\ OpeningOK'
           /\ ReceiverSays' /\ SenderSays'
<1> DEFINE s == ctx[Receiver]
           t == ctx'[Receiver]
           w == wire[Sender]
           v == wire'[Sender]
<1> USE TwoEnds
<1>0. Sender' = Sender /\ Receiver' = Receiver /\ Opening' = Opening
  BY DEF Sender, Receiver, Opening
<1>a. ctx \in [Ends -> StreamContexts]
  BY SourceShape
<1>b. WireOK /\ UnopenedOK /\ FinOK /\ RoleOK /\ OpeningOK /\ ReceiverSays /\ SenderSays
  BY DEF ControlInv
<1>c. s.alive /\ t.alive /\ s.receive_state = "fragment" /\ t.receive_state = "fragment"
  BY DEF Receiving
<1>1. WireOK'
  BY <1>b DEF WireOK
<1>2. UnopenedOK'
  BY <1>b, <1>c, NoShape DEF UnopenedOK
<1>3. FinOK'
  <2>1. \A i \in DOMAIN v : v[i].fin => i = Len(v) /\ quic'[Sender].fin
    BY <1>b, SMTT(30) DEF FinOK, FinAt, Shifted
  <2>2. t.is_peer_finished => v = <<>> /\ quic'[Sender].fin
    <3>1. s.is_peer_finished => w = <<>> /\ quic[Sender].fin
      BY <1>b DEF FinOK, FinAt
    <3>2. w = <<>> => Len(v) = 0
      BY DEF Shifted
    <3> QED
      BY <3>1, <3>2
  <2>3. quic'[Sender].open /\ closed_with'[Sender] # "none" =>
           ~ctx'[Sender].alive /\ wire'[Receiver] = <<>> /\ quic'[Receiver].fin
    BY <1>b, ZenonT(30) DEF FinOK, FinAt
  <2>4. ~(quic'[Receiver].open /\ closed_with'[Receiver] # "none")
    BY <1>b, <1>c DEF FinOK, FinAt
  <2>5. \A i \in DOMAIN wire'[Receiver] : wire'[Receiver][i].fin =>
           i = Len(wire'[Receiver]) /\ quic'[Receiver].fin
    BY <1>b DEF FinOK, FinAt
  <2>6. /\ ctx'[Sender].is_peer_finished => wire'[Receiver] = <<>> /\ quic'[Receiver].fin
        /\ ctx'[Sender].alive \/ ctx'[Sender] = NoStream
        /\ ~quic'[Sender].open => ~ctx'[Sender].alive /\ quic'[Sender].fin
    BY <1>b, SMTT(30) DEF FinOK, FinAt
  <2>7. ctx'[Receiver].alive /\ quic'[Receiver].open
    BY <1>b, <1>c DEF FinOK, FinAt
  <2> QED
    <3>1. FinAt(Sender)'
      BY <1>0, <2>1, <2>3, <2>6 DEF FinAt
    <3>2. FinAt(Receiver)'
      BY <1>0, <2>2, <2>4, <2>5, <2>7 DEF FinAt
    <3> QED
      BY <1>0, <3>1, <3>2 DEF FinOK
<1>4. RoleOK'
  BY <1>0, <1>b, <1>c DEF RoleOK
<1>5. OpeningOK'
  <2>1. Untouched => Receiver = "client" /\ Sender = "server" /\ n = 0
    <3>1. Untouched => Receiver = "client" /\ Sender = "server"
      BY <1>c, NewShape DEF Untouched, Ends
    <3> QED
      BY <3>1 DEF Untouched, Shifted
  <2>2. Untouched => Untouched'
    <3>1. n = 0 /\ w = <<>> => v = <<>>
      BY DEF Shifted
    <3> QED
      BY <1>c, <2>1, <3>1 DEF Untouched
  <2>3. CASE Receiver = "client"
    BY <1>0, <1>b, <1>c, <2>2, <2>3 DEF OpeningOK, Opens
  <2>4. CASE Sender = "client"
    <3>1. ~Untouched
      BY <2>1, <2>4
    <3>2. \A i \in DOMAIN w : ~Opens(w[i])
      BY <1>b, <2>4, <3>1 DEF OpeningOK
    <3>3. \A i \in DOMAIN v : ~Opens(v[i])
      BY <3>2 DEF Shifted
    <3>4. ctx["client"].send_state # "initial"
      BY <1>b, <3>1 DEF OpeningOK
    <3> QED
      BY <1>0, <2>4, <3>3, <3>4 DEF OpeningOK, Opens
  <2> QED
    BY <2>3, <2>4
<1>6. ReceiverSays'
  BY <1>0, <1>b DEF ReceiverSays, Opens
<1>7. SenderSays'
  <2>1. \A j : Ready(j)'
    BY <1>0 DEF Ready
  <2>2. \A c : (Opens(c)' <=> Opens(c)) /\ (Announces(c)' <=> Announces(c))
    BY <1>0 DEF Opens, Announces
  <2> QED
    BY <1>0, <1>b, <2>1, <2>2 DEF SenderSays, Shifted
<1> QED
  BY <1>0, <1>1, <1>2, <1>3, <1>4, <1>5, <1>6, <1>7

Consumers == [objects : SUBSET Points, final : Points, complete : BOOLEAN]

\* A consumer that finds its media finished has all that the source sends, since
\* the start point skips nothing of it.
LEMMA FinishedWhole ==
    ASSUME ControlInv, NEW s \in StreamContexts, SkipsNothing(s.start),
           NEW r \in Consumers, r.final \in {0, src.final}, Finished(s, r)
    PROVE  /\ r.final # 0 /\ src.ended
           /\ \A k \in Objects : k >= src.from => k \in r.objects
<1>1. r.final # 0 /\ r.final = src.final
  BY DEF Finished
<1>2. src.ended /\ src.final = src.origin + src.cached
  BY <1>1 DEF ControlInv, PointsOK
<1>3. src.origin \in Nat /\ src.from \in Nat /\ src.cached \in Nat
  <2>1. src.cached \in 0..MaxObjects
    BY SourceShape
  <2> QED
    BY <2>1, SourceShape, ControlAssumption
<1>4. s.start \in Nat /\ src.final \in Points
  BY PointsNat DEF StreamContexts, ControlInv, ControlTypeOK
<1>5. ASSUME NEW k \in Objects, k >= src.from
      PROVE  k \in r.objects
  <2>1. k \in Nat /\ k >= src.origin /\ k < src.final
    BY <1>2, <1>3 DEF Objects
  <2>2. k \in Points
    BY <1>4, <2>1, ControlAssumption DEF Points
  <2>3. s.start <= k
    BY <1>3, <1>4, <1>5, <2>1 DEF SkipsNothing
  <2> QED
    BY <1>1, <2>1, <2>2, <2>3 DEF Finished
<1> QED
  BY <1>1, <1>2, <1>5

\* t is s, or s that closes its side because the media is finished.
Consumed(s, t) ==
    /\ t.alive = s.alive /\ t.receive_state = s.receive_state
    /\ t.is_sender = s.is_sender /\ t.media_source = s.media_source
    /\ t.media_id = s.media_id /\ t.start = s.start /\ t.final = s.final
    /\ t.is_cache_real_time = s.is_cache_real_time
    /\ t.is_peer_finished = s.is_peer_finished
    /\ t.message_sent = s.message_sent /\ t.left = s.left
    /\ t.send_state \in {s.send_state, "fin"}

LEMMA ConsumerShape ==
    ASSUME ControlInv, NEW e \in Ends, NEW s \in StreamContexts,
           SkipsNothing(s.start), NEW r \in Consumers, r.final \in {0, src.final},
           ConsumerCalled(e, s, quic[e], r),
           s.close_reason = "finished" =>
                /\ r.final # 0 /\ src.ended
                /\ \A k \in Objects : k >= src.from => k \in r.objects
    PROVE  /\ ctx' \in [Ends -> StreamContexts]
           /\ \A d \in Ends : d # e => ctx'[d] = ctx[d]
           /\ Consumed(s, ctx'[e])
           /\ quic' \in [Ends -> QuicViews]
           /\ \A d \in Ends : quic'[d].open = quic[d].open /\ quic'[d].fin = quic[d].fin
           /\ rcv' \in Consumers /\ rcv'.objects = r.objects /\ rcv'.final = r.final
           /\ ctx'[e].close_reason = "finished" =>
                /\ r.final # 0 /\ src.ended
                /\ \A k \in Objects : k >= src.from => k \in r.objects
<1> DEFINE f == [s EXCEPT !.send_state = "fin"]
           t == WithReason(f, "finished")
           whole == /\ r.final # 0 /\ src.ended
                    /\ \A k \in Objects : k >= src.from => k \in r.objects
<1>1. ctx \in [Ends -> StreamContexts] /\ quic \in [Ends -> QuicViews]
  BY SourceShape
<1>2. CASE Finished(s, r)
  <2>1. /\ ctx' = [ctx EXCEPT ![e] = t]
        /\ quic' = [quic EXCEPT ![e] = Marked(quic[e], TRUE)]
        /\ rcv' = [r EXCEPT !.complete = TRUE]
    BY <1>2 DEF ConsumerCalled
  <2>2. f \in StreamContexts
    BY DEF StreamContexts, SendStates
  <2>3. t \in StreamContexts /\ (t = f \/ t = [f EXCEPT !.close_reason = "finished"])
    BY <2>2, ReasonShape DEF Reasons
  <2>4. Consumed(s, t)
    <3>1. Consumed(s, f)
      BY DEF Consumed, StreamContexts
    <3>2. CASE t = f
      BY <3>1, <3>2
    <3>3. CASE t = [f EXCEPT !.close_reason = "finished"]
      BY <3>3 DEF Consumed, StreamContexts
    <3> QED
      BY <2>3, <3>2, <3>3
  <2>5. whole
    BY <1>2, FinishedWhole
  <2>6. /\ Marked(quic[e], TRUE) \in QuicViews
        /\ Marked(quic[e], TRUE).open = quic[e].open
        /\ Marked(quic[e], TRUE).fin = quic[e].fin
    BY <1>1, MarkedShape
  <2>7. rcv' \in Consumers /\ rcv'.objects = r.objects /\ rcv'.final = r.final
    BY <2>1 DEF Consumers
  <2> HIDE DEF t, f
  <2> QED
    BY <1>1, <2>1, <2>3, <2>4, <2>5, <2>6, <2>7
<1>3. CASE ~Finished(s, r)
  <2>1. ctx' = [ctx EXCEPT ![e] = s] /\ quic' = [quic EXCEPT ![e] = quic[e]] /\ rcv' = r
    BY <1>3 DEF ConsumerCalled
  <2>2. quic' = quic /\ Consumed(s, s)
    BY <1>1, <2>1 DEF Consumed
  <2> QED
    BY <1>1, <2>1, <2>2
<1> QED
  BY <1>2, <1>3

\* An object arrives, perhaps the last one that the consumer waits for.
LEMMA ReceiveMediaStep ==
    ASSUME ControlInv, NEW k \in Points, ReceiveMedia(k)
    PROVE  ControlInv'
<1> USE TwoEnds
<1> DEFINE s == ctx[Receiver]
           r == [rcv EXCEPT !.objects = @ \cup {k}]
<1>1. /\ s.alive /\ ~s.is_sender /\ s.media_id
      /\ ConsumerCalled(Receiver, s, quic[Receiver], r)
      /\ UNCHANGED <<kind, wire, src, air, closed_with, failure>>
  BY DEF ReceiveMedia
<1>2. /\ ControlTypeOK /\ WireOK /\ RoleOK /\ StartOK /\ PolicyOK /\ PointsOK
      /\ NoProtocolError
  BY DEF ControlInv
<1>3. s \in StreamContexts /\ rcv \in Consumers
  BY <1>2 DEF ControlTypeOK, Consumers
<1>4. Receiving(s)
  BY <1>1, <1>2, FreshShape DEF RoleOK
<1>5. r \in Consumers /\ r.final = rcv.final /\ r.objects = rcv.objects \cup {k}
  BY <1>3 DEF Consumers
<1>6. /\ SkipsNothing(s.start) /\ r.final \in {0, src.final}
      /\ s.close_reason = "finished" =>
            /\ r.final # 0 /\ src.ended
            /\ \A j \in Objects : j >= src.from => j \in r.objects
  BY <1>2, <1>5 DEF PointsOK, WholeMedia
<1> HIDE DEF r
<1>7. /\ ctx' \in [Ends -> StreamContexts] /\ ctx'[Sender] = ctx[Sender]
      /\ Consumed(s, ctx'[Receiver])
      /\ quic' \in [Ends -> QuicViews]
      /\ \A d \in Ends : quic'[d].open = quic[d].open /\ quic'[d].fin = quic[d].fin
      /\ rcv' \in Consumers /\ rcv'.objects = r.objects /\ rcv'.final = r.final
      /\ ctx'[Receiver].close_reason = "finished" =>
            /\ r.final # 0 /\ src.ended
            /\ \A j \in Objects : j >= src.from => j \in r.objects
  BY <1>1, <1>3, <1>5, <1>6, ConsumerShape
<1>8. Receiving(ctx'[Receiver])
  BY <1>4, <1>7 DEF Receiving, Consumed
<1>9. wire' \in [Ends -> Seq(Chunks)] /\ Shifted(wire'[Sender], wire[Sender], 0)
  BY <1>1, <1>2, SameShifted DEF WireOK
<1>10. /\ Sender' = Sender /\ Receiver' = Receiver
       /\ WireOK' /\ UnopenedOK' /\ FinOK' /\ RoleOK' /\ OpeningOK'
       /\ ReceiverSays' /\ SenderSays'
  BY <1>1, <1>4, <1>5, <1>7, <1>8, <1>9, ReceiverFrame DEF Consumed
<1>11. StartOK' /\ PolicyOK'
  BY <1>1, <1>2, <1>7, <1>10 DEF StartOK, PolicyOK, Consumed, NoneOnPost, IsStart, IsPolicy, Opens, Opening
<1>12. PointsOK'
  <2>1. \A p : SkipsNothing(p)' = SkipsNothing(p)
    BY <1>1 DEF SkipsNothing
  <2>2. WholeMedia' <=> src.ended /\ \A j \in Objects : j >= src.from => j \in r.objects
    BY <1>1, <1>7 DEF WholeMedia, Objects
  <2>3. closed_with[Receiver] = "finished" => rcv'.final # 0 /\ WholeMedia'
    BY <1>2, <1>5, <1>7, <2>2 DEF PointsOK, WholeMedia
  <2> QED
    BY <1>1, <1>2, <1>5, <1>7, <1>10, <2>1, <2>2, <2>3 DEF PointsOK, Consumed
<1>13. ControlTypeOK'
  BY <1>1, <1>2, <1>7 DEF ControlTypeOK, QuicViews, Consumers
<1> QED
  BY <1>1, <1>2, <1>10, <1>11, <1>12, <1>13 DEF ControlInv, NoProtocolError

\* What the receiver of the media finds next on its stream: FIN, the message that
\* opens the stream, or an announcement it is ready for.
LEMMA NextForReceiver ==
    ASSUME ControlInv, quic[Receiver].open, wire[Sender] # <<>>,
           NEW c, c = Head(wire[Sender]), ~c.fin
    PROVE  \/ /\ Sender = "client" /\ Receiver = "server" /\ Opens(c) /\ Untouched
              /\ c.msg.type = "POST"
           \/ Announces(c) /\ Receiving(ctx[Receiver])
<1> USE TwoEnds
<1>1. WireOK /\ SenderSays /\ OpeningOK
  BY DEF ControlInv
<1>2. 1 \in DOMAIN wire[Sender] /\ c = wire[Sender][1]
  BY <1>1 DEF WireOK
<1>3. (Sender = "client" /\ Opens(c)) \/ (Announces(c) /\ Ready(1))
  BY <1>1, <1>2 DEF SenderSays
<1>4. CASE Announces(c) /\ Ready(1)
  <2>1. ~\E j \in DOMAIN wire[Sender] : j < 1
    BY <1>1 DEF WireOK
  <2> QED
    BY <1>4, <2>1 DEF Ready
<1>5. CASE Sender = "client" /\ Opens(c)
  <2>1. Untouched
    BY <1>1, <1>2, <1>5 DEF OpeningOK
  <2>2. c.msg.type = "POST" /\ Receiver = "server"
    BY <1>5 DEF Opens, Opening, Sender, Receiver, Peer
  <2> QED
    BY <1>5, <2>1, <2>2
<1> QED
  BY <1>3, <1>4, <1>5

\* What the sender of the media finds: FIN, REQUEST or ACCEPT.
LEMMA NextForSender ==
    ASSUME ControlInv, wire[Receiver] # <<>>, NEW c, c = Head(wire[Receiver]), ~c.fin
    PROVE  \/ /\ Receiver = "client" /\ Sender = "server" /\ Opens(c) /\ Untouched
              /\ c.msg.type = "REQUEST" /\ kind = "request"
           \/ /\ Receiver = "server" /\ Sender = "client"
              /\ c.whole /\ c.msg.type = "ACCEPT" /\ ctx[Sender].receive_state # "done"
<1> USE TwoEnds
<1>1. WireOK /\ ReceiverSays /\ OpeningOK
  BY DEF ControlInv
<1>2. 1 \in DOMAIN wire[Receiver] /\ c = wire[Receiver][1]
  BY <1>1 DEF WireOK
<1>3. \/ Receiver = "client" /\ Opens(c)
      \/ Receiver = "server" /\ c.whole /\ c.msg.type = "ACCEPT"
  BY <1>1, <1>2 DEF ReceiverSays
<1>4. CASE Receiver = "client" /\ Opens(c)
  <2>1. Untouched
    BY <1>1, <1>2, <1>4 DEF OpeningOK
  <2>2. Sender = "server" /\ kind = "request"
    BY <1>4 DEF Sender, Receiver, Peer
  <2>3. c.msg.type = "REQUEST"
    BY <1>4, <2>2 DEF Opens, Opening
  <2> QED
    BY <1>4, <2>1, <2>2, <2>3
<1>5. CASE Receiver = "server" /\ c.whole /\ c.msg.type = "ACCEPT"
  <2>1. Sender = "client"
    BY <1>5 DEF Ends
  <2>2. ctx[Sender].receive_state # "done"
    BY <1>1, <1>2 DEF ReceiverSays
  <2> QED
    BY <1>5, <2>1, <2>2
<1> QED
  BY <1>3, <1>4, <1>5

\* The server has no context or a new one before it gets the message that opens.
LEMMA UntouchedFound ==
    ASSUME Untouched
    PROVE  Found("server") = NewStream
<1>1. NewStream.alive /\ ~NoStream.alive
  BY DEF NewStream, NoStream
<1> QED
  BY <1>1 DEF Untouched, Found

\* No chunk on a stream is a protocol error for the end that gets it.
LEMMA NeverUnexpected ==
    ASSUME ControlInv, NEW e \in Ends, quic[e].open, wire[Peer(e)] # <<>>,
           NEW c, c = Head(wire[Peer(e)]), ~c.fin
    PROVE  ~Unexpected(e, c)
<1> USE TwoEnds
<1>0. NewStream.receive_state = "initial"
  BY NewShape
<1>1. CASE e = Receiver
  <2>1. CASE /\ Receiver = "server" /\ Untouched /\ c.msg.type = "POST"
    <3>1. Found(e) = NewStream
      BY <1>1, <2>1, UntouchedFound
    <3> QED
      BY <1>0, <2>1, <3>1 DEF Unexpected
  <2>2. CASE Announces(c) /\ Receiving(ctx[Receiver])
    <3>1. Found(e) = ctx[e]
      BY <1>1, <2>2 DEF Found, Receiving
    <3>2. /\ WireOK /\ StartOK /\ PolicyOK
      BY DEF ControlInv
    <3>3. 1 \in DOMAIN wire[Sender] /\ c = wire[Sender][1]
      BY <1>1, <3>2 DEF WireOK
    <3>4. c.msg.type = "START_POINT" => ctx[e].start = 0
      BY <1>1, <3>2, <3>3 DEF StartOK, IsStart
    <3>5. c.msg.type = "CACHE_POLICY" => ~ctx[e].is_cache_real_time
      BY <1>1, <3>2, <3>3 DEF PolicyOK, IsPolicy
    <3>6. ctx[e].final = 0 /\ ctx[e].receive_state = "fragment"
      BY <1>1, <2>2 DEF Receiving
    <3>7. c.msg.type \in Announcements
      BY <2>2 DEF Announces
    <3> QED
      BY <3>1, <3>4, <3>5, <3>6, <3>7 DEF Unexpected, Announcements
  <2> QED
    BY <1>1, <2>1, <2>2, NextForReceiver
<1>2. CASE e = Sender
  <2>1. CASE Sender = "server" /\ Untouched /\ c.msg.type = "REQUEST"
    <3>1. Found(e) = NewStream
      BY <1>2, <2>1, UntouchedFound
    <3> QED
      BY <1>0, <2>1, <3>1 DEF Unexpected
  <2>2. CASE c.msg.type = "ACCEPT" /\ ctx[Sender].receive_state # "done"
    <3>1. Found(e).receive_state # "done"
      BY <1>0, <1>2, <2>2 DEF Found
    <3> QED
      BY <2>2, <3>1 DEF Unexpected
  <2> QED
    BY <1>2, <2>1, <2>2, NextForSender
<1> QED
  BY <1>1, <1>2

-----------------------------------------------------------------------------
(* Announcements.                                                          *)

\* The receiver of the media takes an announcement: its context becomes x and its
\* consumer r, and then the consumer may find that it is finished.
LEMMA AnnouncementStep ==
    ASSUME ControlInv, quic[Receiver].open, wire[Sender] # <<>>,
           wire' = [wire EXCEPT ![Sender] = Tail(@)],
           UNCHANGED <<kind, src, air, closed_with, failure>>,
           NEW c, c = Head(wire[Sender]), Receiving(ctx[Receiver]),
           NEW x \in StreamContexts, Receiving(x),
           x.send_state = ctx[Receiver].send_state, x.message_sent = ctx[Receiver].message_sent,
           x.left = ctx[Receiver].left, x.close_reason = ctx[Receiver].close_reason,
           x.is_peer_finished = ctx[Receiver].is_peer_finished,
           \/ x.start = ctx[Receiver].start
           \/ IsStart(c) /\ x.start = c.msg.point,
           \/ x.is_cache_real_time = ctx[Receiver].is_cache_real_time
           \/ IsPolicy(c),
           NEW r \in Consumers, r.objects = rcv.objects,
           \/ r.final = rcv.final
           \/ ~c.fin /\ c.msg.type = "FIN_DATAGRAM" /\ r.final = c.msg.point,
           ConsumerCalled(Receiver, x, quic[Receiver], r)
    PROVE  ControlInv'
<1> USE TwoEnds
<1> DEFINE s == ctx[Receiver]
           w == wire[Sender]
           v == wire'[Sender]
<1>1. /\ ControlTypeOK /\ WireOK /\ RoleOK /\ StartOK /\ PolicyOK /\ PointsOK
      /\ NoProtocolError
  BY DEF ControlInv
<1>2. /\ wire' \in [Ends -> Seq(Chunks)] /\ wire'[Receiver] = wire[Receiver]
      /\ Shifted(v, w, 1) /\ 1 \in DOMAIN w /\ c = w[1]
  <2>1. wire \in [Ends -> Seq(Chunks)] /\ w \in Seq(Chunks)
    BY <1>1 DEF WireOK
  <2>2. Shifted(Tail(w), w, 1) /\ Tail(w) \in Seq(Chunks) /\ 1 \in DOMAIN w /\ Head(w) = w[1]
    BY <2>1, TailShifted
  <2>3. v = Tail(w)
    BY <2>1
  <2> HIDE DEF w, v
  <2> QED
    BY <2>1, <2>2, <2>3 DEF w
<1>3. /\ SkipsNothing(x.start) /\ r.final \in {0, src.final}
      /\ rcv.final # 0 => r.final # 0
      /\ s.close_reason = "finished" \/ closed_with[Receiver] = "finished" =>
            /\ r.final # 0 /\ src.ended
            /\ \A j \in Objects : j >= src.from => j \in r.objects
  <2>1. IsStart(c) => SkipsNothing(c.msg.point)
    BY <1>1, <1>2 DEF PointsOK, IsStart
  <2>2. ~c.fin /\ c.msg.type = "FIN_DATAGRAM" => c.msg.point = src.final /\ c.msg.point # 0
    BY <1>1, <1>2 DEF PointsOK
  <2>3. SkipsNothing(s.start) /\ rcv.final \in {0, src.final}
    BY <1>1 DEF PointsOK
  <2>4. s.close_reason = "finished" \/ closed_with[Receiver] = "finished" =>
            rcv.final # 0 /\ src.ended
            /\ \A j \in Objects : j >= src.from => j \in rcv.objects
    BY <1>1 DEF PointsOK, WholeMedia
  <2> QED
    BY <2>1, <2>2, <2>3, <2>4
<1>4. /\ ctx' \in [Ends -> StreamContexts] /\ ctx'[Sender] = ctx[Sender]
      /\ Consumed(x, ctx'[Receiver])
      /\ quic' \in [Ends -> QuicViews]
      /\ \A d \in Ends : quic'[d].open = quic[d].open /\ quic'[d].fin = quic[d].fin
      /\ rcv' \in Consumers /\ rcv'.objects = r.objects /\ rcv'.final = r.final
      /\ ctx'[Receiver].close_reason = "finished" =>
            /\ r.final # 0 /\ src.ended
            /\ \A j \in Objects : j >= src.from => j \in r.objects
  BY <1>3, ConsumerShape
<1>5. Receiving(ctx'[Receiver])
  BY <1>4 DEF Receiving, Consumed
<1>6. /\ Sender' = Sender /\ Receiver' = Receiver
      /\ WireOK' /\ UnopenedOK' /\ FinOK' /\ RoleOK' /\ OpeningOK'
      /\ ReceiverSays' /\ SenderSays'
  BY <1>2, <1>4, <1>5, ReceiverFrame DEF Consumed
<1>7. Opening' = Opening
  BY DEF Opening
<1>8. StartOK'
  <2>1. ctx'[Receiver].start = x.start
    BY <1>4 DEF Consumed
  <2>2. NoneOnPost => NoneOnPost'
    BY <1>2, <1>6, <1>7 DEF NoneOnPost, Opens, Shifted
  <2>3. ASSUME Sending(ctx[Sender]), ~ctx[Sender].is_start_sent
        PROVE  /\ x.start = 0 /\ NoneOnPost
               /\ ctx[Sender].send_state = "initial" => ctx[Sender].message_sent.point = 0
               /\ \A i \in DOMAIN v : ~IsStart(v[i])
    BY <1>1, <1>2, <2>3 DEF StartOK, Shifted
  <2>4. ASSUME NEW i \in DOMAIN v, IsStart(v[i])
        PROVE  /\ v[i].msg.point # 0
               /\ x.start = 0 /\ NoneOnPost
               /\ \A j \in DOMAIN v : IsStart(v[j]) => j = i
    <3>1. i \in Nat /\ i + 1 \in DOMAIN w /\ v[i] = w[i + 1] /\ i + 1 # 1
      BY <1>2 DEF Shifted
    <3>2. /\ w[i + 1].msg.point # 0 /\ s.start = 0 /\ NoneOnPost
          /\ \A j \in DOMAIN w : IsStart(w[j]) => j = i + 1
      BY <1>1, <2>4, <3>1 DEF StartOK
    <3>3. ~IsStart(c)
      BY <1>2, <3>1, <3>2
    <3>4. ASSUME NEW j \in DOMAIN v, IsStart(v[j]) PROVE j = i
      <4>1. j \in Nat /\ j + 1 \in DOMAIN w /\ v[j] = w[j + 1]
        BY <1>2 DEF Shifted
      <4>2. j + 1 = i + 1
        BY <3>2, <3>4, <4>1
      <4> QED
        BY <3>1, <4>1, <4>2
    <3> QED
      BY <3>1, <3>2, <3>3, <3>4
  <2> QED
    BY <1>4, <1>6, <2>1, <2>2, <2>3, <2>4 DEF StartOK
<1>9. PolicyOK'
  <2>1. ctx'[Receiver].is_cache_real_time = x.is_cache_real_time
    BY <1>4 DEF Consumed
  <2>2. ASSUME Sending(ctx[Sender]), ~ctx[Sender].is_cache_policy_sent
        PROVE  ~x.is_cache_real_time /\ \A i \in DOMAIN v : ~IsPolicy(v[i])
    BY <1>1, <1>2, <2>2 DEF PolicyOK, Shifted
  <2>3. ASSUME NEW i \in DOMAIN v, IsPolicy(v[i])
        PROVE  /\ ~x.is_cache_real_time
               /\ \A j \in DOMAIN v : IsPolicy(v[j]) => j = i
    <3>1. i \in Nat /\ i + 1 \in DOMAIN w /\ v[i] = w[i + 1] /\ i + 1 # 1
      BY <1>2 DEF Shifted
    <3>2. ~s.is_cache_real_time /\ \A j \in DOMAIN w : IsPolicy(w[j]) => j = i + 1
      BY <1>1, <2>3, <3>1 DEF PolicyOK
    <3>3. ~IsPolicy(c)
      BY <1>2, <3>1, <3>2
    <3>4. ASSUME NEW j \in DOMAIN v, IsPolicy(v[j]) PROVE j = i
      <4>1. j \in Nat /\ j + 1 \in DOMAIN w /\ v[j] = w[j + 1]
        BY <1>2 DEF Shifted
      <4>2. j + 1 = i + 1
        BY <3>2, <3>4, <4>1
      <4> QED
        BY <3>1, <4>1, <4>2
    <3> QED
      BY <3>2, <3>3, <3>4
  <2> QED
    BY <1>4, <1>6, <2>1, <2>2, <2>3 DEF PolicyOK
<1>10. PointsOK'
  <2>1. \A p : SkipsNothing(p)' = SkipsNothing(p)
    BY DEF SkipsNothing
  <2>2. WholeMedia' <=> src.ended /\ \A j \in Objects : j >= src.from => j \in r.objects
    BY <1>4 DEF WholeMedia, Objects
  <2>3. \A i \in DOMAIN v : ~v[i].fin =>
            /\ v[i].msg.type \in {"START_POINT", "POST"} => SkipsNothing(v[i].msg.point)
            /\ v[i].msg.type = "FIN_DATAGRAM" => v[i].msg.point = src.final /\ v[i].msg.point # 0
    BY <1>1, <1>2 DEF PointsOK, Shifted
  <2>4. /\ ctx'[Receiver].start = x.start /\ ctx'[Receiver].final = 0
    BY <1>4, <1>5 DEF Consumed, Receiving
  <2>5. \A e \in Ends : ctx'[e].final \in {0, src.final} /\ SkipsNothing(ctx'[e].start)
    BY <1>1, <1>3, <1>4, <2>4 DEF PointsOK
  <2> QED
    BY <1>1, <1>3, <1>4, <1>6, <2>1, <2>2, <2>3, <2>5 DEF PointsOK
<1>11. ControlTypeOK'
  <2>1. \A e \in Ends : \A i \in DOMAIN wire'[e] :
            wire'[e][i].msg \in Messages /\ wire'[e][i].whole \in BOOLEAN
    BY <1>2, ChunkType
  <2> QED
    BY <1>1, <1>4, <2>1 DEF ControlTypeOK, QuicViews, Consumers
<1> QED
  BY <1>1, <1>6, <1>8, <1>9, <1>10, <1>11 DEF ControlInv, NoProtocolError

LEMMA ReceiveStartPointStep ==
    ASSUME ControlInv, quic[Receiver].open, wire[Sender] # <<>>,
           wire' = [wire EXCEPT ![Sender] = Tail(@)], UNCHANGED <<kind, air>>,
           NEW c \in Chunks, c = Head(wire[Sender]), IsStart(c), Receiving(ctx[Receiver]),
           ReceiveStartPoint(Receiver, c.msg)
    PROVE  ControlInv'
<1> DEFINE s == ctx[Receiver]
           x == [s EXCEPT !.start = c.msg.point]
<1>1. s \in StreamContexts /\ rcv \in Consumers /\ c.msg.point \in Points
  BY TwoEnds DEF ControlInv, ControlTypeOK, Consumers, Chunks, Messages
<1>2. Found(Receiver) = s
  BY DEF Found, Receiving
<1>3. ConsumerCalled(Receiver, x, quic[Receiver], rcv) /\ UNCHANGED <<src, closed_with, failure>>
  BY <1>2 DEF ReceiveStartPoint
<1> HIDE DEF s
<1>4. /\ x \in StreamContexts /\ x.start = c.msg.point /\ x.send_state = s.send_state
      /\ x.message_sent = s.message_sent /\ x.left = s.left /\ x.close_reason = s.close_reason
      /\ x.is_peer_finished = s.is_peer_finished
      /\ x.is_cache_real_time = s.is_cache_real_time
  BY <1>1 DEF StreamContexts
<1>5. Receiving(x)
  <2>1. Receiving(s)
    BY DEF s
  <2> QED
    BY <1>1, <2>1 DEF Receiving, StreamContexts
<1> HIDE DEF x
<1> QED
  BY <1>1, <1>3, <1>4, <1>5, AnnouncementStep DEF s

LEMMA ReceiveFinalPointStep ==
    ASSUME ControlInv, quic[Receiver].open, wire[Sender] # <<>>,
           wire' = [wire EXCEPT ![Sender] = Tail(@)], UNCHANGED <<kind, air>>,
           NEW c \in Chunks, c = Head(wire[Sender]), ~c.fin, c.msg.type = "FIN_DATAGRAM",
           Receiving(ctx[Receiver]), ReceiveFinalPoint(Receiver, c.msg)
    PROVE  ControlInv'
<1> DEFINE s == ctx[Receiver]
           r == [rcv EXCEPT !.final = c.msg.point]
<1>1. s \in StreamContexts /\ rcv \in Consumers /\ c.msg.point \in Points
  BY TwoEnds DEF ControlInv, ControlTypeOK, Consumers, Chunks, Messages
<1>2. Found(Receiver) = s
  BY DEF Found, Receiving
<1>3. ConsumerCalled(Receiver, s, quic[Receiver], r) /\ UNCHANGED <<src, closed_with, failure>>
  BY <1>2 DEF ReceiveFinalPoint
<1>4. r \in Consumers /\ r.objects = rcv.objects /\ r.final = c.msg.point
  BY <1>1 DEF Consumers
<1> HIDE DEF r
<1> QED
  BY <1>1, <1>3, <1>4, AnnouncementStep

LEMMA ReceiveCachePolicyStep ==
    ASSUME ControlInv, quic[Receiver].open, wire[Sender] # <<>>,
           wire' = [wire EXCEPT ![Sender] = Tail(@)], UNCHANGED <<kind, air>>,
           NEW c \in Chunks, c = Head(wire[Sender]), IsPolicy(c), Receiving(ctx[Receiver]),
           ReceiveCachePolicy(Receiver, c.msg)
    PROVE  ControlInv'
<1> DEFINE s == ctx[Receiver]
           x == [s EXCEPT !.is_cache_real_time = c.msg.policy]
<1>1. s \in StreamContexts /\ rcv \in Consumers /\ c.msg.policy \in BOOLEAN
  BY TwoEnds DEF ControlInv, ControlTypeOK, Consumers, Chunks, Messages
<1>2. Found(Receiver) = s
  BY DEF Found, Receiving
<1>3. ConsumerCalled(Receiver, x, quic[Receiver], rcv) /\ UNCHANGED <<src, closed_with, failure>>
  BY <1>2 DEF ReceiveCachePolicy
<1> HIDE DEF s
<1>4. /\ x \in StreamContexts /\ x.start = s.start /\ x.send_state = s.send_state
      /\ x.message_sent = s.message_sent /\ x.left = s.left /\ x.close_reason = s.close_reason
      /\ x.is_peer_finished = s.is_peer_finished
  BY <1>1 DEF StreamContexts
<1>5. Receiving(x)
  <2>1. Receiving(s)
    BY DEF s
  <2> QED
    BY <1>1, <2>1 DEF Receiving, StreamContexts
<1> HIDE DEF x
<1> QED
  BY <1>1, <1>3, <1>4, <1>5, AnnouncementStep DEF s

LEMMA SendMediaStep ==
    ASSUME ControlInv, NEW k \in Points, SendMedia(k)
    PROVE  ControlInv'
<1>1. /\ UNCHANGED <<kind, ctx, quic, wire, src, rcv, closed_with, failure>>
      /\ air' = air \cup {k} /\ kind # "none"
  BY DEF SendMedia
<1>2. /\ ControlTypeOK /\ WireOK /\ UnopenedOK /\ FinOK /\ RoleOK /\ OpeningOK
      /\ ReceiverSays /\ SenderSays /\ StartOK /\ PolicyOK /\ PointsOK
      /\ NoProtocolError
  BY DEF ControlInv
<1>3. Sender' = Sender /\ Receiver' = Receiver /\ Opening' = Opening
  BY <1>1 DEF Sender, Receiver, Opening
<1>4. ControlTypeOK' /\ UnopenedOK' /\ WireOK' /\ NoProtocolError'
  BY <1>1, <1>2 DEF ControlTypeOK, UnopenedOK, WireOK, NoProtocolError
<1>5. FinOK' /\ RoleOK'
  BY <1>1, <1>2, <1>3 DEF FinOK, FinAt, RoleOK
<1>6. OpeningOK' /\ ReceiverSays' /\ SenderSays'
  BY <1>1, <1>2, <1>3 DEF OpeningOK, Untouched, ReceiverSays, SenderSays, Ready, Opens, Announces
<1>7. StartOK' /\ PolicyOK' /\ PointsOK'
  BY <1>1, <1>2, <1>3 DEF StartOK, PolicyOK, PointsOK, NoneOnPost, IsStart, IsPolicy, Opens,
        SkipsNothing, WholeMedia, Objects
<1> QED
  BY <1>4, <1>5, <1>6, <1>7 DEF ControlInv

LEMMA AbandonStep ==
    ASSUME ControlInv, Abandon
    PROVE  ControlInv'
<1> USE TwoEnds
<1> DEFINE s == ctx[Receiver]
           t == [s EXCEPT !.send_state = "fin"]
<1>1. /\ s.alive /\ s.receive_state = "fragment"
      /\ ctx' = [ctx EXCEPT ![Receiver] = t]
      /\ quic' = [quic EXCEPT ![Receiver] = Marked(@, TRUE)]
      /\ UNCHANGED <<kind, wire, src, rcv, air, closed_with, failure>>
  BY DEF Abandon
<1>2. /\ ControlTypeOK /\ WireOK /\ RoleOK /\ StartOK /\ PolicyOK /\ PointsOK
      /\ NoProtocolError
  BY DEF ControlInv
<1>3. /\ ctx \in [Ends -> StreamContexts] /\ s \in StreamContexts
      /\ quic \in [Ends -> QuicViews]
  BY SourceShape
<1>4. Receiving(s)
  BY <1>1, <1>2, FreshShape DEF RoleOK
<1>5. t \in StreamContexts /\ Consumed(s, t) /\ t.close_reason = s.close_reason
  <2> HIDE DEF s
  <2> QED
    BY <1>3 DEF StreamContexts, SendStates, Consumed
<1> HIDE DEF t
<1>6. Receiving(t)
  BY <1>4, <1>5 DEF Receiving, Consumed
<1>7. /\ ctx' \in [Ends -> StreamContexts] /\ ctx'[Sender] = ctx[Sender]
      /\ ctx'[Receiver] = t
  BY <1>1, <1>3, <1>5
<1>8. /\ quic' \in [Ends -> QuicViews]
      /\ \A e \in Ends : quic'[e].open = quic[e].open /\ quic'[e].fin = quic[e].fin
  <2>1. /\ Marked(quic[Receiver], TRUE) \in QuicViews
        /\ Marked(quic[Receiver], TRUE).open = quic[Receiver].open
        /\ Marked(quic[Receiver], TRUE).fin = quic[Receiver].fin
    BY <1>3, MarkedShape
  <2> QED
    BY <1>1, <1>3, <2>1
<1>9. wire' \in [Ends -> Seq(Chunks)] /\ Shifted(wire'[Sender], wire[Sender], 0)
  BY <1>1, <1>2, SameShifted DEF WireOK
<1>10. /\ Sender' = Sender /\ Receiver' = Receiver
       /\ WireOK' /\ UnopenedOK' /\ FinOK' /\ RoleOK' /\ OpeningOK'
       /\ ReceiverSays' /\ SenderSays'
  BY <1>1, <1>4, <1>5, <1>6, <1>7, <1>8, <1>9, ReceiverFrame DEF Consumed
<1>11. StartOK' /\ PolicyOK'
  BY <1>1, <1>2, <1>5, <1>7, <1>10
     DEF StartOK, PolicyOK, Consumed, NoneOnPost, IsStart, IsPolicy, Opens, Opening
<1>12. PointsOK'
  BY <1>1, <1>2, <1>5, <1>7, <1>10 DEF PointsOK, Consumed, SkipsNothing, WholeMedia, Objects
<1>13. ControlTypeOK'
  BY <1>1, <1>2, <1>7, <1>8 DEF ControlTypeOK, QuicViews
<1> QED
  BY <1>1, <1>2, <1>10, <1>11, <1>12, <1>13 DEF ControlInv, NoProtocolError

-----------------------------------------------------------------------------
(* The server gets the message that opens the stream, in one or two parts. *)

LEMMA OpeningTaken ==
    ASSUME ControlInv, quic["server"].open, wire["client"] # <<>>,
           NEW c, c = Head(wire["client"]), Opens(c), Untouched,
           wire' = [wire EXCEPT !["client"] = Tail(@)],
           UNCHANGED <<kind, closed_with>>,
           \A e \in Ends : quic'[e].open = quic[e].open /\ quic'[e].fin = quic[e].fin,
           NEW x \in StreamContexts, ctx' = [ctx EXCEPT !["server"] = x],
           x.alive, ~x.is_peer_finished
    PROVE  /\ kind # "none"
           /\ Sender' = Sender /\ Receiver' = Receiver /\ Opening' = Opening
           /\ WireOK' /\ UnopenedOK' /\ FinOK'
           /\ ctx' \in [Ends -> StreamContexts]
           /\ ctx'["server"] = x /\ ctx'["client"] = ctx["client"]
           /\ wire["server"] = <<>> /\ wire'["server"] = <<>>
           /\ Shifted(wire'["client"], wire["client"], 1)
           /\ 1 \in DOMAIN wire["client"] /\ c = wire["client"][1]
           /\ closed_with["server"] = "none"
           /\ c.whole => /\ \A i \in DOMAIN wire'["client"] : ~Opens(wire'["client"][i])
                         /\ ctx["client"].send_state # "initial"
<1> USE TwoEnds
<1> DEFINE w == wire["client"]
           v == wire'["client"]
<1>0. Sender' = Sender /\ Receiver' = Receiver /\ Opening' = Opening
  BY DEF Sender, Receiver, Opening
<1>1. WireOK /\ UnopenedOK /\ FinOK /\ OpeningOK
  BY DEF ControlInv
<1>2. kind # "none"
  BY <1>1 DEF UnopenedOK
<1>3. /\ ctx' \in [Ends -> StreamContexts]
      /\ ctx'["server"] = x /\ ctx'["client"] = ctx["client"]
  BY SourceShape
<1>4. /\ wire' \in [Ends -> Seq(Chunks)] /\ wire'["server"] = wire["server"]
      /\ Shifted(v, w, 1) /\ 1 \in DOMAIN w /\ c = w[1]
  <2>1. wire \in [Ends -> Seq(Chunks)] /\ w \in Seq(Chunks)
    BY <1>1 DEF WireOK
  <2>2. Shifted(Tail(w), w, 1) /\ Tail(w) \in Seq(Chunks) /\ 1 \in DOMAIN w /\ Head(w) = w[1]
    BY <2>1, TailShifted
  <2>3. v = Tail(w)
    BY <2>1
  <2> HIDE DEF w, v
  <2> QED
    BY <2>1, <2>2, <2>3 DEF w
<1>5. wire["server"] = <<>> /\ wire'["server"] = <<>>
  BY <1>4 DEF Untouched
<1>6. closed_with["server"] = "none"
  BY <1>1 DEF FinOK, FinAt
<1>7. WireOK' /\ UnopenedOK'
  BY <1>1, <1>2, <1>4 DEF WireOK, UnopenedOK
<1>8. FinOK'
  <2>1. FinAt("server")'
    BY <1>1, <1>3, <1>5, <1>6 DEF FinOK, FinAt
  <2>2. FinAt("client")'
    <3>1. FinAt("client")
      BY <1>1 DEF FinOK
    <3>2. \A i \in DOMAIN v : v[i].fin => i = Len(v) /\ quic'["client"].fin
      BY <1>4, <3>1 DEF FinAt, Shifted
    <3> QED
      BY <1>3, <1>5, <3>1, <3>2 DEF FinAt
  <2> QED
    BY <2>1, <2>2 DEF FinOK, Ends
<1>9. c.whole => /\ \A i \in DOMAIN v : ~Opens(v[i])
                 /\ ctx["client"].send_state # "initial"
  <2>1. ASSUME NEW i \in DOMAIN v, Opens(v[i]) PROVE ~c.whole
    <3>1. i + 1 \in DOMAIN w /\ v[i] = w[i + 1] /\ 1 < i + 1
      BY <1>4 DEF Shifted
    <3> QED
      BY <1>1, <1>4, <2>1, <3>1 DEF OpeningOK
  <2>2. ctx["client"].send_state = "initial" => ~c.whole
    BY <1>1, <1>4 DEF OpeningOK
  <2> QED
    BY <2>1, <2>2
<1> QED
  BY <1>0, <1>2, <1>3, <1>4, <1>5, <1>6, <1>7, <1>8, <1>9

\* The server keeps a part, or has no such media.
LEMMA ReceivePartStep ==
    ASSUME ControlInv, quic["server"].open, wire["client"] # <<>>,
           NEW c, c = Head(wire["client"]), Opens(c), Untouched,
           wire' = [wire EXCEPT !["client"] = Tail(@)],
           UNCHANGED <<kind, quic, src, rcv, air, closed_with>>,
           failure' \in {failure, "no_source"},
           ctx' = [ctx EXCEPT !["server"] = NewStream],
           ~c.whole \/ kind = "request"
    PROVE  ControlInv'
<1> USE TwoEnds
<1> DEFINE w == wire["client"]
           v == wire'["client"]
<1>0. NewStream \in StreamContexts /\ NewStream.alive /\ ~NewStream.is_peer_finished
  BY NewStreamType, NewShape
<1>1. /\ kind # "none"
      /\ Sender' = Sender /\ Receiver' = Receiver /\ Opening' = Opening
      /\ WireOK' /\ UnopenedOK' /\ FinOK'
      /\ ctx' \in [Ends -> StreamContexts]
      /\ ctx'["server"] = NewStream /\ ctx'["client"] = ctx["client"]
      /\ wire["server"] = <<>> /\ wire'["server"] = <<>>
      /\ Shifted(v, w, 1) /\ 1 \in DOMAIN w /\ c = w[1]
      /\ closed_with["server"] = "none"
  BY <1>0, OpeningTaken
<1>2. /\ ControlTypeOK /\ RoleOK /\ OpeningOK /\ ReceiverSays /\ SenderSays
      /\ StartOK /\ PolicyOK /\ PointsOK /\ NoProtocolError
  BY DEF ControlInv
<1>3. /\ NewStream.send_state = "ready" /\ NewStream.receive_state = "initial"
      /\ ~NewStream.is_sender /\ NewStream.start = 0 /\ NewStream.final = 0
      /\ ~NewStream.is_cache_real_time /\ NewStream.close_reason = "unknown"
      /\ ~Sending(NewStream) /\ ~Receiving(NewStream)
  BY NewShape DEF Sending, Receiving
<1>4. \/ Sender = "server" /\ Receiver = "client" /\ kind = "request"
      \/ Sender = "client" /\ Receiver = "server" /\ kind = "post"
  BY <1>1, <1>2 DEF ControlTypeOK, Sender, Receiver, Peer
<1>5. \A d : (Opens(d)' <=> Opens(d)) /\ (Announces(d)' <=> Announces(d))
  BY <1>1 DEF Opens, Announces
<1>6. RoleOK'
  BY <1>1, <1>2, <1>3, <1>4 DEF RoleOK, Fresh
<1>7. Untouched'
  BY <1>1 DEF Untouched
<1>8. OpeningOK'
  <2>1. \A i \in DOMAIN v : i \in Nat /\ i + 1 \in DOMAIN w /\ v[i] = w[i + 1]
    BY <1>1 DEF Shifted
  <2>2. \A i, j \in DOMAIN v : i < j => i + 1 < j + 1
    BY <2>1
  <2>3. \A i, j \in DOMAIN v : i < j /\ Opens(v[j]) => Opens(v[i]) /\ ~v[i].whole
    BY <1>2, <2>1, <2>2 DEF OpeningOK
  <2>4. ctx["client"].send_state = "initial" => \A i \in DOMAIN v : Opens(v[i]) /\ ~v[i].whole
    BY <1>2, <2>1 DEF OpeningOK
  <2> QED
    BY <1>1, <1>2, <1>5, <1>7, <2>3, <2>4 DEF OpeningOK
<1>9. ReceiverSays'
  BY <1>1, <1>2, <1>3, <1>4, <1>5 DEF ReceiverSays, Shifted
<1>10. SenderSays'
  <2>1. CASE Sender = "server"
    BY <1>1, <1>3, <2>1 DEF SenderSays
  <2>2. CASE Sender = "client" /\ ~c.whole
    <3>1. ~Receiving(ctx["server"])
      BY <1>3, NoShape DEF Untouched, Receiving
    <3>2. ASSUME NEW n \in Nat, Ready(n + 1) PROVE Ready(n)'
      <4>1. PICK j \in DOMAIN w : j < n + 1 /\ Opens(w[j]) /\ w[j].whole
        BY <1>4, <2>2, <3>1, <3>2 DEF Ready
      <4>2. j \in Nat /\ j # 1 /\ j - 1 \in DOMAIN v /\ v[j - 1] = w[j] /\ j - 1 < n
        BY <1>1, <2>2, <4>1 DEF Shifted
      <4> QED
        BY <1>1, <1>5, <2>2, <4>1, <4>2 DEF Ready
    <3>3. ASSUME NEW i \in DOMAIN v
          PROVE  v[i].fin \/ Opens(v[i]) \/ (Announces(v[i]) /\ Ready(i)')
      <4>1. i \in Nat /\ i + 1 \in DOMAIN w /\ v[i] = w[i + 1]
        BY <1>1 DEF Shifted
      <4> QED
        BY <1>2, <2>2, <3>2, <4>1 DEF SenderSays
    <3>4. Sending(ctx["client"]) /\ ctx["client"].send_state # "initial" =>
              quic["client"].fin \/ Ready(Len(wire["client"]) + 1)'
      <4>1. Len(v) + 1 \in Nat /\ Len(w) + 1 = (Len(v) + 1) + 1
        BY <1>1 DEF Shifted
      <4>2. Sending(ctx["client"]) /\ ctx["client"].send_state # "initial" =>
              quic["client"].fin \/ Ready(Len(w) + 1)
        BY <1>2, <2>2 DEF SenderSays
      <4> DEFINE n == Len(v) + 1
      <4>3. n \in Nat /\ Len(w) + 1 = n + 1 /\ n = (Len(wire["client"]) + 1)'
        BY <4>1
      <4> HIDE DEF n
      <4>4. Ready(Len(w) + 1) => Ready(Len(wire["client"]) + 1)'
        BY <3>2, <4>3
      <4> QED
        BY <4>2, <4>4
    <3> QED
      BY <1>1, <1>5, <2>2, <3>3, <3>4 DEF SenderSays
  <2> QED
    BY <1>4, <2>1, <2>2
<1>11. StartOK' /\ PolicyOK'
  <2>1. CASE Sender = "server"
    BY <1>1, <1>3, <1>4, <2>1 DEF StartOK, PolicyOK
  <2>2. CASE Sender = "client"
    <3>1. \A i \in DOMAIN v : i \in Nat /\ i + 1 \in DOMAIN w /\ v[i] = w[i + 1]
      BY <1>1 DEF Shifted
    <3>2. NoneOnPost => NoneOnPost'
      BY <1>1, <1>5, <2>2, <3>1 DEF NoneOnPost
    <3>3. \A i, j \in DOMAIN v : i + 1 = j + 1 => i = j
      BY <3>1
    <3>4. StartOK'
      BY <1>1, <1>2, <1>3, <1>4, <2>2, <3>1, <3>2, <3>3, SMTT(30) DEF StartOK
    <3>5. PolicyOK'
      BY <1>1, <1>2, <1>3, <1>4, <2>2, <3>1, <3>3, SMTT(30) DEF PolicyOK
    <3> QED
      BY <3>4, <3>5
  <2> QED
    BY <1>4, <2>1, <2>2
<1>12. PointsOK'
  <2>1. \A p : SkipsNothing(p)' = SkipsNothing(p)
    BY DEF SkipsNothing
  <2>2. WholeMedia' <=> WholeMedia
    BY DEF WholeMedia, Objects
  <2>3. SkipsNothing(0)
    BY SourceShape DEF SkipsNothing
  <2>4. \A i \in DOMAIN wire'[Sender] : \E j \in DOMAIN wire[Sender] : wire'[Sender][i] = wire[Sender][j]
    BY <1>1, <1>4 DEF Shifted
  <2> QED
    BY <1>1, <1>2, <1>3, <1>4, <2>1, <2>2, <2>3, <2>4 DEF PointsOK
<1>13. ControlTypeOK'
  <2>1. \A e \in Ends : \A i \in DOMAIN wire'[e] :
            wire'[e][i].msg \in Messages /\ wire'[e][i].whole \in BOOLEAN
    BY <1>1, ChunkType DEF WireOK
  <2> QED
    BY <1>1, <1>2, <2>1 DEF ControlTypeOK
<1> QED
  BY <1>1, <1>2, <1>6, <1>8, <1>9, <1>10, <1>11, <1>12, <1>13 DEF ControlInv, NoProtocolError

LEMMA ReceivePostStep ==
    ASSUME ControlInv, quic["server"].open, wire["client"] # <<>>,
           NEW c \in Chunks, c = Head(wire["client"]), Opens(c), Untouched, c.whole,
           Sender = "client", Receiver = "server", c.msg.type = "POST",
           wire' = [wire EXCEPT !["client"] = Tail(@)],
           UNCHANGED <<kind, air>>, ReceivePost("server", c.msg)
    PROVE  ControlInv'
<1> USE TwoEnds
<1> DEFINE w == wire["client"]
           v == wire'["client"]
           p == c.msg.point
           m == Message("ACCEPT", 0, FALSE)
           q == Queue(NewStream, "initial", m)
           x == [q EXCEPT !.receive_state = "fragment", !.media_id = TRUE, !.start = p]
<1>1. /\ ctx' = [ctx EXCEPT !["server"] = x]
      /\ quic' = [quic EXCEPT !["server"] = Marked(@, TRUE)]
      /\ UNCHANGED <<src, rcv, closed_with, failure>>
  BY UntouchedFound DEF ReceivePost
<1>2. /\ ControlTypeOK /\ RoleOK /\ OpeningOK /\ ReceiverSays /\ SenderSays
      /\ StartOK /\ PolicyOK /\ PointsOK /\ NoProtocolError
  BY DEF ControlInv
<1>3. p \in Points /\ m \in Messages /\ m.type = "ACCEPT"
  BY PointsNat DEF Chunks, Messages, Message, MessageTypes
<1>4. q \in StreamContexts
  BY <1>3, NewStreamType, QueueType DEF SendStates
<1> HIDE DEF p, m
<1>5. x \in StreamContexts
  <2> HIDE DEF q
  <2> QED
    BY <1>3, <1>4 DEF StreamContexts, ReceiveStates
<1>6. /\ x.alive /\ x.send_state = "initial" /\ x.receive_state = "fragment"
      /\ x.message_sent = m /\ x.left = 1 /\ ~x.is_peer_finished
      /\ x.close_reason = "unknown" /\ x.final = 0 /\ x.start = p
      /\ ~x.is_cache_real_time /\ ~x.is_sender /\ ~x.media_source /\ x.media_id
  BY <1>3 DEF Queue, NewStream
<1> HIDE DEF x, q
<1>7. Receiving(x)
  BY <1>6 DEF Receiving
<1>8. /\ quic' \in [Ends -> QuicViews]
      /\ \A e \in Ends : quic'[e].open = quic[e].open /\ quic'[e].fin = quic[e].fin
  <2>0. quic \in [Ends -> QuicViews]
    BY SourceShape
  <2>1. /\ Marked(quic["server"], TRUE) \in QuicViews
        /\ Marked(quic["server"], TRUE).open = quic["server"].open
        /\ Marked(quic["server"], TRUE).fin = quic["server"].fin
    BY <2>0, MarkedShape
  <2> QED
    BY <1>1, <2>0, <2>1
<1>9. /\ kind # "none"
      /\ Sender' = Sender /\ Receiver' = Receiver /\ Opening' = Opening
      /\ WireOK' /\ UnopenedOK' /\ FinOK'
      /\ ctx' \in [Ends -> StreamContexts]
      /\ ctx'["server"] = x /\ ctx'["client"] = ctx["client"]
      /\ wire["server"] = <<>> /\ wire'["server"] = <<>>
      /\ Shifted(v, w, 1) /\ 1 \in DOMAIN w /\ c = w[1]
      /\ closed_with["server"] = "none"
      /\ \A i \in DOMAIN v : ~Opens(v[i])
      /\ ctx["client"].send_state # "initial"
  BY <1>1, <1>5, <1>6, <1>8, OpeningTaken
<1>10. \A d : (Opens(d)' <=> Opens(d)) /\ (Announces(d)' <=> Announces(d))
  BY <1>9 DEF Opens, Announces
<1>11. \A i \in DOMAIN v : i \in Nat /\ i + 1 \in DOMAIN w /\ v[i] = w[i + 1]
  BY <1>9 DEF Shifted
<1>12. RoleOK'
  BY <1>2, <1>7, <1>8, <1>9, <1>1 DEF RoleOK
<1>13. OpeningOK'
  BY <1>9, <1>10 DEF OpeningOK
<1>14. ReceiverSays'
  <2>1. ctx["client"].receive_state # "done"
    BY DEF Untouched
  <2> QED
    BY <1>3, <1>6, <1>9, <2>1 DEF ReceiverSays
<1>15. SenderSays'
  <2>1. \A j : Ready(j)'
    BY <1>7, <1>9 DEF Ready
  <2> QED
    BY <1>2, <1>9, <1>10, <1>11, <2>1 DEF SenderSays
<1>16. StartOK'
  <2>1. NoneOnPost => NoneOnPost' /\ p = 0
    BY <1>9, <1>10 DEF NoneOnPost, p
  <2>2. \A i, j \in DOMAIN v : i + 1 = j + 1 => i = j
    BY <1>11
  <2> QED
    BY <1>2, <1>6, <1>9, <1>11, <2>1, <2>2 DEF StartOK
<1>17. PolicyOK'
  <2>2. \A i, j \in DOMAIN v : i + 1 = j + 1 => i = j
    BY <1>11
  <2> QED
    BY <1>2, <1>6, <1>9, <1>11, <2>2 DEF PolicyOK
<1>18. PointsOK'
  <2>1. \A n : SkipsNothing(n)' = SkipsNothing(n)
    BY <1>1 DEF SkipsNothing
  <2>2. WholeMedia' <=> WholeMedia
    BY <1>1 DEF WholeMedia, Objects
  <2>3. SkipsNothing(p)
    BY <1>2, <1>9 DEF PointsOK, Opens, p
  <2> QED
    BY <1>1, <1>2, <1>6, <1>9, <1>11, <2>1, <2>2, <2>3 DEF PointsOK
<1>19. ControlTypeOK'
  <2>1. \A e \in Ends : \A i \in DOMAIN wire'[e] :
            wire'[e][i].msg \in Messages /\ wire'[e][i].whole \in BOOLEAN
    BY <1>9, ChunkType DEF WireOK
  <2> QED
    BY <1>1, <1>2, <1>8, <1>9, <2>1 DEF ControlTypeOK, QuicViews
<1> QED
  BY <1>1, <1>2, <1>9, <1>12, <1>13, <1>14, <1>15, <1>16, <1>17, <1>18, <1>19
     DEF ControlInv, NoProtocolError

\* A context that wakes up has the final point of the source, or what it had.
LEMMA WakeupShape ==
    ASSUME NEW s \in StreamContexts, src \in SourceRecords,
           NEW t, t = WakeupCopied(s, src)
    PROVE  /\ t \in StreamContexts /\ Alike(s, t) /\ t.start = s.start
           /\ t.final \in {s.final, src.final}
           /\ t.is_cache_real_time = s.is_cache_real_time
<1>1. src.final \in Points
  BY DEF SourceRecords
<1>2. CASE t = s
  BY <1>2 DEF Alike
<1>3. CASE t = [s EXCEPT !.final = src.final]
  BY <1>1, <1>3 DEF StreamContexts, Alike
<1> QED
  BY <1>2, <1>3 DEF WakeupCopied

LEMMA ReceiveAcceptStep ==
    ASSUME ControlInv, quic["client"].open, wire["server"] # <<>>,
           NEW c, c = Head(wire["server"]), ~c.fin, c.whole, c.msg.type = "ACCEPT",
           Sender = "client", Receiver = "server",
           wire' = [wire EXCEPT !["server"] = Tail(@)],
           UNCHANGED <<kind, air>>, ReceiveAccept("client", c.msg)
    PROVE  ControlInv'
<1> USE TwoEnds
<1> DEFINE w == wire["server"]
           v == wire'["server"]
           a == ctx["client"]
           s == [a EXCEPT !.is_sender = TRUE, !.media_id = TRUE,
                          !.send_state = "ready", !.receive_state = "done"]
           t == WakeupCopied(s, src)
<1>1. /\ ControlTypeOK /\ WireOK /\ UnopenedOK /\ FinOK /\ RoleOK /\ OpeningOK /\ ReceiverSays
      /\ SenderSays /\ StartOK /\ PolicyOK /\ PointsOK /\ NoProtocolError
  BY DEF ControlInv
<1>2. kind # "none"
  BY <1>1 DEF UnopenedOK
<1>3. a.alive /\ Sending(a) /\ Found("client") = a
  <2>1. closed_with["client"] = "none"
    BY <1>1 DEF FinOK, FinAt
  <2>2. a.alive
    BY <1>1, <1>2, <2>1 DEF RoleOK
  <2> QED
    BY <1>1, <2>2 DEF RoleOK, Found
<1>4. /\ ctx \in [Ends -> StreamContexts] /\ quic \in [Ends -> QuicViews]
      /\ src \in SourceRecords /\ a \in StreamContexts
  BY <1>1, SourceShape DEF ControlTypeOK, SourceRecords
<1>5. /\ ctx' = [ctx EXCEPT !["client"] = t]
      /\ UNCHANGED <<src, rcv, closed_with, failure>>
  BY <1>3 DEF ReceiveAccept
<1>6. /\ quic' \in [Ends -> QuicViews]
      /\ \A e \in Ends : quic'[e].open = quic[e].open /\ quic'[e].fin = quic[e].fin
  <2> DEFINE on == StartPending(s) \/ PolicyPending(s)
             q == Marked(quic["client"], on)
             u == WakeupMarked(s, q, src)
  <2>1. quic' = [quic EXCEPT !["client"] = u]
    BY <1>3 DEF ReceiveAccept
  <2>2. on \in BOOLEAN
    OBVIOUS
  <2> HIDE DEF on
  <2>3. q \in QuicViews /\ q.open = quic["client"].open /\ q.fin = quic["client"].fin
    BY <1>4, <2>2, MarkedShape
  <2> HIDE DEF q
  <2>4. u \in QuicViews /\ u.open = q.open /\ u.fin = q.fin
    BY <2>3, MarkedShape
  <2> HIDE DEF u
  <2> QED
    BY <1>4, <2>1, <2>3, <2>4
<1>7. /\ s \in StreamContexts /\ s.alive /\ s.is_sender /\ s.send_state = "ready"
      /\ s.receive_state = "done" /\ s.media_source = a.media_source /\ s.start = a.start
      /\ s.is_start_sent = a.is_start_sent /\ s.final = a.final
      /\ s.is_cache_policy_sent = a.is_cache_policy_sent
      /\ s.is_peer_finished = a.is_peer_finished
  <2>1. a.alive
    BY <1>3
  <2> HIDE DEF a
  <2> QED
    BY <1>4, <2>1 DEF StreamContexts, SendStates, ReceiveStates
<1> HIDE DEF s
<1>8. /\ t \in StreamContexts /\ Alike(s, t) /\ t.start = s.start
      /\ t.final \in {s.final, src.final}
  BY <1>4, <1>7, WakeupShape
<1> HIDE DEF t
<1>9. /\ t.alive /\ t.send_state = "ready" /\ t.receive_state = "done"
      /\ t.is_start_sent = a.is_start_sent /\ t.start = a.start
      /\ t.is_cache_policy_sent = a.is_cache_policy_sent
      /\ t.is_peer_finished = a.is_peer_finished /\ Sending(t)
  BY <1>3, <1>7, <1>8 DEF Alike, Sending
<1>10. ctx' \in [Ends -> StreamContexts] /\ ctx'["client"] = t /\ ctx'["server"] = ctx["server"]
  BY <1>4, <1>5, <1>8
<1>11. /\ wire' \in [Ends -> Seq(Chunks)] /\ wire'["client"] = wire["client"]
       /\ Shifted(v, w, 1) /\ 1 \in DOMAIN w /\ c = w[1]
  <2>1. wire \in [Ends -> Seq(Chunks)] /\ w \in Seq(Chunks)
    BY <1>1 DEF WireOK
  <2>2. Shifted(Tail(w), w, 1) /\ Tail(w) \in Seq(Chunks) /\ 1 \in DOMAIN w /\ Head(w) = w[1]
    BY <2>1, TailShifted
  <2>3. v = Tail(w)
    BY <2>1
  <2> HIDE DEF w, v
  <2> QED
    BY <2>1, <2>2, <2>3 DEF w
<1>12. \A i \in DOMAIN v : i \in Nat /\ i + 1 \in DOMAIN w /\ v[i] = w[i + 1] /\ 1 < i + 1
  BY <1>11 DEF Shifted
<1>13. Sender' = Sender /\ Receiver' = Receiver /\ Opening' = Opening
  BY DEF Sender, Receiver, Opening
<1>14. \A d : (Opens(d)' <=> Opens(d)) /\ (Announces(d)' <=> Announces(d))
  BY <1>13 DEF Opens, Announces
<1>15. ~Untouched /\ a.send_state # "initial" /\ \A i \in DOMAIN wire["client"] : ~Opens(wire["client"][i])
  <2>1. ~Untouched
    BY DEF Untouched
  <2> QED
    BY <1>1, <2>1 DEF OpeningOK
<1>16. WireOK' /\ UnopenedOK'
  BY <1>1, <1>2, <1>5, <1>11 DEF WireOK, UnopenedOK
<1>17. FinOK'
  <2>1. FinAt("client")'
    <3>1. FinAt("client")
      BY <1>1 DEF FinOK
    <3>2. ~t.is_peer_finished
      BY <1>9, <3>1 DEF FinAt
    <3> QED
      BY <1>3, <1>5, <1>6, <1>9, <1>10, <1>11, <3>1, <3>2 DEF FinAt
  <2>2. FinAt("server")'
    <3>1. FinAt("server")
      BY <1>1 DEF FinOK
    <3>2. \A i \in DOMAIN v : v[i].fin => i = Len(v) /\ quic'["server"].fin
      BY <1>6, <1>11, <3>1 DEF FinAt, Shifted
    <3> QED
      BY <1>5, <1>6, <1>10, <1>11, <3>1, <3>2 DEF FinAt
  <2> QED
    BY <2>1, <2>2 DEF FinOK, Ends
<1>18. RoleOK'
  BY <1>1, <1>5, <1>6, <1>9, <1>10, <1>13 DEF RoleOK
<1>19. OpeningOK'
  BY <1>9, <1>10, <1>11, <1>14, <1>15 DEF OpeningOK
<1>20. ReceiverSays'
  <2>1. \A i \in DOMAIN v : v[i].fin
    BY <1>1, <1>11, <1>12 DEF ReceiverSays
  <2>2. ctx["server"].send_state # "initial"
    BY <1>1, <1>11 DEF ReceiverSays
  <2> QED
    BY <1>10, <1>13, <2>1, <2>2 DEF ReceiverSays
<1>21. SenderSays'
  <2>1. \A n : Ready(n)' <=> Ready(n)
    BY <1>6, <1>10, <1>11, <1>13, <1>14 DEF Ready
  <2> QED
    BY <1>1, <1>3, <1>6, <1>10, <1>11, <1>13, <1>14, <1>15, <2>1 DEF SenderSays
<1>22. StartOK' /\ PolicyOK'
  <2>1. NoneOnPost' <=> NoneOnPost
    BY <1>11, <1>13, <1>14 DEF NoneOnPost
  <2> QED
    BY <1>1, <1>3, <1>9, <1>10, <1>11, <1>13, <2>1 DEF StartOK, PolicyOK
<1>23. PointsOK'
  <2>1. \A n : SkipsNothing(n)' = SkipsNothing(n)
    BY <1>5 DEF SkipsNothing
  <2>2. WholeMedia' <=> WholeMedia
    BY <1>5 DEF WholeMedia, Objects
  <2>3. t.final \in {0, src.final} /\ SkipsNothing(t.start)
    BY <1>1, <1>7, <1>8 DEF PointsOK
  <2> QED
    BY <1>1, <1>5, <1>9, <1>10, <1>11, <1>13, <2>1, <2>2, <2>3 DEF PointsOK
<1>24. ControlTypeOK'
  <2>1. \A e \in Ends : \A i \in DOMAIN wire'[e] :
            wire'[e][i].msg \in Messages /\ wire'[e][i].whole \in BOOLEAN
    BY <1>11, ChunkType
  <2> QED
    BY <1>1, <1>5, <1>6, <1>10, <2>1 DEF ControlTypeOK, QuicViews
<1> QED
  BY <1>1, <1>5, <1>16, <1>17, <1>18, <1>19, <1>20, <1>21, <1>22, <1>23, <1>24
     DEF ControlInv, NoProtocolError

\* The context of a server that got the REQUEST is x, and the source sends from
\* what that asks for, or from its start point.
LEMMA RequestTaken ==
    ASSUME ControlInv, quic["server"].open, wire["client"] # <<>>,
           NEW c \in Chunks, c = Head(wire["client"]), Opens(c), Untouched, c.whole,
           Sender = "server", Receiver = "client", kind = "request",
           wire' = [wire EXCEPT !["client"] = Tail(@)],
           UNCHANGED <<kind, air, rcv, closed_with, failure>>,
           quic' \in [Ends -> QuicViews],
           \A e \in Ends : quic'[e].open = quic[e].open /\ quic'[e].fin = quic[e].fin,
           NEW x \in StreamContexts, ctx' = [ctx EXCEPT !["server"] = x],
           Sending(x), x.send_state \in {"ready", "start_point"}, ~x.is_peer_finished,
           x.final \in {0, src.final}, x.receive_state = "done",
           src' \in SourceRecords, src'.origin = src.origin, src'.start = src.start,
           src'.final = src.final, src'.ended = src.ended, src'.cached = src.cached,
           x.start <= src'.from \/ x.start <= src.origin,
           x.send_state = "start_point" => x.message_sent.point <= src'.from
    PROVE  ControlInv'
<1> USE TwoEnds
<1> DEFINE w == wire["client"]
           v == wire'["client"]
<1>0. x.alive
  BY DEF Sending
<1>1. /\ kind # "none"
      /\ Sender' = Sender /\ Receiver' = Receiver /\ Opening' = Opening
      /\ WireOK' /\ UnopenedOK' /\ FinOK'
      /\ ctx' \in [Ends -> StreamContexts]
      /\ ctx'["server"] = x /\ ctx'["client"] = ctx["client"]
      /\ wire["server"] = <<>> /\ wire'["server"] = <<>>
      /\ Shifted(v, w, 1) /\ 1 \in DOMAIN w /\ c = w[1]
      /\ closed_with["server"] = "none"
      /\ \A i \in DOMAIN v : ~Opens(v[i])
      /\ ctx["client"].send_state # "initial"
  BY <1>0, OpeningTaken
<1>2. /\ ControlTypeOK /\ FinOK /\ RoleOK /\ OpeningOK /\ ReceiverSays /\ SenderSays
      /\ StartOK /\ PolicyOK /\ PointsOK /\ NoProtocolError
  BY DEF ControlInv
<1>3. \A d : (Opens(d)' <=> Opens(d)) /\ (Announces(d)' <=> Announces(d))
  BY <1>1 DEF Opens, Announces
<1>4. \A i \in DOMAIN v : i \in Nat /\ i + 1 \in DOMAIN w /\ v[i] = w[i + 1] /\ 1 < i + 1
  BY <1>1 DEF Shifted
<1>5. /\ ctx["client"].start = 0 /\ ~ctx["client"].is_cache_real_time /\ rcv.final = 0
  BY DEF Untouched
<1>6. RoleOK'
  BY <1>1, <1>2 DEF RoleOK
<1>7. OpeningOK'
  BY <1>1, <1>3 DEF OpeningOK
<1>8. ReceiverSays'
  <2>1. \A i \in DOMAIN v : v[i].fin
    <3>1. ~c.fin
      BY DEF Opens
    <3> QED
      BY <1>1, <1>2, <1>4, <3>1 DEF ReceiverSays
  <2> QED
    BY <1>1, <2>1 DEF ReceiverSays
<1>9. SenderSays'
  <2>1. quic["server"].fin \/ ~quic["client"].open \/ Receiving(ctx["client"])
    <3>1. CASE ctx["client"].alive
      BY <1>2, <3>1 DEF RoleOK
    <3>2. CASE ~ctx["client"].alive /\ quic["client"].open
      BY <1>1, <1>2, <3>2 DEF RoleOK, FinOK, FinAt
    <3> QED
      BY <3>1, <3>2
  <2>2. quic'["server"].fin \/ Ready(Len(wire[Sender]) + 1)'
    BY <1>1, <2>1 DEF Ready
  <2> QED
    BY <1>1, <2>2 DEF SenderSays
<1>10. StartOK' /\ PolicyOK'
  BY <1>1, <1>5 DEF StartOK, PolicyOK, NoneOnPost
<1>11. PointsOK'
  <2>1. SkipsNothing(0)'
    <3>1. src'.origin \in Nat /\ src'.from \in Nat
      BY SourceShape, PointsNat DEF SourceRecords
    <3> QED
      BY <3>1 DEF SkipsNothing
  <2>2. ~(ctx["client"].close_reason = "finished" \/ closed_with["client"] = "finished")
    BY <1>2, <1>5 DEF PointsOK
  <2> QED
    BY <1>1, <1>2, <1>5, <2>1, <2>2 DEF PointsOK, SkipsNothing
<1>12. ControlTypeOK'
  <2>1. \A e \in Ends : \A i \in DOMAIN wire'[e] :
            wire'[e][i].msg \in Messages /\ wire'[e][i].whole \in BOOLEAN
    BY <1>1, ChunkType DEF WireOK
  <2> QED
    BY <1>1, <1>2, <2>1 DEF ControlTypeOK, QuicViews, SourceRecords
<1> QED
  BY <1>1, <1>2, <1>6, <1>7, <1>8, <1>9, <1>10, <1>11, <1>12
     DEF ControlInv, NoProtocolError

LEMMA ReceiveRequestStep ==
    ASSUME ControlInv, quic["server"].open, wire["client"] # <<>>,
           NEW c \in Chunks, c = Head(wire["client"]), Opens(c), Untouched, c.whole,
           Sender = "server", Receiver = "client", kind = "request",
           wire' = [wire EXCEPT !["client"] = Tail(@)],
           UNCHANGED <<kind, air>>, ReceiveRequest("server", c.msg)
    PROVE  ControlInv'
<1> USE TwoEnds
<1> DEFINE p == c.msg.point
           s == Subscribed(NewStream)
           u == WakeupCopied(s, src)
           t == [u EXCEPT !.is_sender = TRUE, !.media_id = TRUE, !.receive_state = "done"]
           q == WakeupMarked(s, quic["server"], src)
           a == [t EXCEPT !.start = p]
           m == Message("START_POINT", p, FALSE)
           b == Queue(a, "start_point", m)
<1>1. ControlTypeOK /\ PointsOK
  BY DEF ControlInv
<1>2. src \in SourceRecords /\ quic \in [Ends -> QuicViews] /\ p \in Points
  BY <1>1, SourceShape DEF ControlTypeOK, SourceRecords, Chunks, Messages
<1>3. \/ /\ p > 0
         /\ ctx' = [ctx EXCEPT !["server"] = b]
         /\ quic' = [quic EXCEPT !["server"] = Marked(q, TRUE)]
         /\ src' = [src EXCEPT !.from = p]
      \/ /\ ~(p > 0)
         /\ ctx' = [ctx EXCEPT !["server"] = t]
         /\ quic' = [quic EXCEPT !["server"] = q]
         /\ src' = [src EXCEPT !.from = src.start]
  BY UntouchedFound DEF ReceiveRequest
<1>4. UNCHANGED <<rcv, closed_with, failure>>
  BY DEF ReceiveRequest
<1>5. /\ s \in StreamContexts /\ s.alive /\ s.media_source /\ s.send_state = "ready"
      /\ s.start = src.start /\ s.final = 0 /\ ~s.is_start_sent /\ ~s.is_peer_finished
  <2>1. src.start \in Points /\ src.is_cache_real_time \in BOOLEAN
    BY <1>2 DEF SourceRecords
  <2>2. s \in StreamContexts
    BY <2>1, NewStreamType DEF Subscribed, StreamContexts
  <2> QED
    BY <2>2 DEF Subscribed, NewStream
<1> HIDE DEF s
<1>6. /\ u \in StreamContexts /\ Alike(s, u) /\ u.start = src.start /\ u.final \in {0, src.final}
  BY <1>2, <1>5, WakeupShape
<1> HIDE DEF u
<1>7. /\ t \in StreamContexts /\ Sending(t) /\ t.send_state = "ready" /\ ~t.is_peer_finished
      /\ t.final \in {0, src.final} /\ t.receive_state = "done" /\ t.start = src.start
      /\ ~t.is_start_sent
  <2>1. t \in StreamContexts
    BY <1>6 DEF StreamContexts, ReceiveStates
  <2>2. /\ t.alive /\ t.is_sender /\ t.media_source /\ t.send_state = "ready" /\ ~t.is_peer_finished
        /\ t.final = u.final /\ t.receive_state = "done" /\ t.start = src.start
        /\ ~t.is_start_sent
    BY <1>5, <1>6 DEF StreamContexts, Alike
  <2> HIDE DEF t
  <2> QED
    BY <1>6, <2>1, <2>2 DEF Sending
<1> HIDE DEF t
<1>8. q \in QuicViews /\ q.open = quic["server"].open /\ q.fin = quic["server"].fin
  <2> DEFINE z == quic["server"]
  <2>1. z \in QuicViews
    BY <1>2
  <2> HIDE DEF z
  <2>2. \A y, source : /\ WakeupMarked(y, z, source) \in QuicViews
                       /\ WakeupMarked(y, z, source).open = z.open
                       /\ WakeupMarked(y, z, source).fin = z.fin
    BY <2>1, MarkedShape
  <2>3. q = WakeupMarked(s, z, src)
    BY DEF z
  <2> HIDE DEF q
  <2> QED
    BY <2>2, <2>3 DEF z
<1> HIDE DEF q
<1>9. CASE p > 0
  <2>1. /\ ctx' = [ctx EXCEPT !["server"] = b]
        /\ quic' = [quic EXCEPT !["server"] = Marked(q, TRUE)]
        /\ src' = [src EXCEPT !.from = p]
    BY <1>3, <1>9
  <2>2. /\ quic' \in [Ends -> QuicViews]
        /\ \A e \in Ends : quic'[e].open = quic[e].open /\ quic'[e].fin = quic[e].fin
    <3>1. /\ Marked(q, TRUE) \in QuicViews
          /\ Marked(q, TRUE).open = q.open /\ Marked(q, TRUE).fin = q.fin
      BY <1>8, MarkedShape
    <3> QED
      BY <1>2, <1>8, <2>1, <3>1
  <2>3. a \in StreamContexts
    BY <1>2, <1>7 DEF StreamContexts
  <2>4. m \in Messages /\ m.type = "START_POINT" /\ m.point = p
    BY <1>2 DEF Message, Messages, MessageTypes
  <2>5. b \in StreamContexts
    BY <2>3, <2>4, QueueType DEF SendStates
  <2> HIDE DEF m, p
  <2>6. /\ b.alive /\ b.is_sender /\ b.media_source /\ b.send_state = "start_point"
        /\ ~b.is_peer_finished /\ b.final = t.final /\ b.receive_state = "done" /\ b.start = p
        /\ b.message_sent = m /\ b.left = 1 /\ ~b.is_start_sent
    BY <1>7, <2>4 DEF Queue, StreamContexts, Sending
  <2> HIDE DEF b
  <2>7. Sending(b)
    BY <1>9, <1>2, <2>4, <2>6, PointsNat DEF Sending
  <2>8. /\ src' \in SourceRecords /\ src'.origin = src.origin /\ src'.start = src.start
        /\ src'.final = src.final /\ src'.ended = src.ended /\ src'.cached = src.cached
        /\ src'.from = p
    BY <1>2, <2>1 DEF SourceRecords
  <2>9. b.start <= src'.from /\ b.message_sent.point <= src'.from
    <3>1. p \in Nat
      BY <1>2, PointsNat
    <3> QED
      BY <2>4, <2>6, <2>8, <3>1
  <2> QED
    BY <1>4, <1>7, <2>1, <2>2, <2>5, <2>6, <2>7, <2>8, <2>9, RequestTaken
<1>10. CASE ~(p > 0)
  <2>1. /\ ctx' = [ctx EXCEPT !["server"] = t]
        /\ quic' = [quic EXCEPT !["server"] = q]
        /\ src' = [src EXCEPT !.from = src.start]
    BY <1>3, <1>10
  <2>2. /\ quic' \in [Ends -> QuicViews]
        /\ \A e \in Ends : quic'[e].open = quic[e].open /\ quic'[e].fin = quic[e].fin
    BY <1>2, <1>8, <2>1
  <2>3. /\ src' \in SourceRecords /\ src'.origin = src.origin /\ src'.start = src.start
        /\ src'.final = src.final /\ src'.ended = src.ended /\ src'.cached = src.cached
        /\ src'.from = src.start
    BY <1>2, <2>1 DEF SourceRecords
  <2>4. t.start <= src'.from
    <3>1. src.start \in Nat
      BY <1>2, PointsNat DEF SourceRecords
    <3> QED
      BY <1>7, <2>3, <3>1
  <2> QED
    BY <1>4, <1>7, <2>1, <2>2, <2>3, <2>4, RequestTaken
<1> QED
  BY <1>9, <1>10

-----------------------------------------------------------------------------
(* FIN and the end of the connection.                                      *)

\* t is s that has closed its side, or will.
Quits(s, t) ==
    /\ t.alive /\ s.alive /\ t.send_state \in {"fin", "no_more"}
    /\ t.receive_state = s.receive_state /\ t.is_sender = s.is_sender
    /\ t.media_source = s.media_source /\ t.media_id = s.media_id
    /\ t.start = s.start /\ t.is_start_sent = s.is_start_sent
    /\ t.final = s.final /\ t.is_cache_real_time = s.is_cache_real_time
    /\ t.is_cache_policy_sent = s.is_cache_policy_sent
    /\ t.close_reason = s.close_reason

\* An end got FIN, or the connection ended for it: nothing is on the way to it.
LEMMA QuitStep ==
    ASSUME ControlInv, NEW e \in Ends, UNCHANGED <<kind, src, rcv, air, failure>>,
           wire' = [wire EXCEPT ![Peer(e)] = <<>>],
           NEW t \in StreamContexts, ctx' = [ctx EXCEPT ![e] = t],
           quic' \in [Ends -> QuicViews], quic'[Peer(e)] = quic[Peer(e)],
           quic[e].fin => quic'[e].fin,
           quic'[e].open => quic[Peer(e)].fin /\ kind # "none",
           ~quic'[e].open => t = NoStream /\ quic'[e].fin,
           closed_with' \in [Ends -> Reasons \cup {"none"}],
           closed_with'[Peer(e)] = closed_with[Peer(e)],
           kind = "none" => closed_with' = closed_with,
           closed_with'[e] = "finished" =>
                ctx[e].close_reason = "finished" \/ closed_with[e] = "finished",
           \/ t = NoStream /\ (quic'[e].open => closed_with'[e] # "none")
           \/ /\ \/ Quits(ctx[e], t) /\ ~Fresh(ctx[e])
                 \/ e = "server" /\ Fresh(t) /\ ctx[e] \in {NoStream, NewStream}
              /\ closed_with'[e] = "none"
              /\ \E i \in DOMAIN wire[Peer(e)] : wire[Peer(e)][i].fin
    PROVE  ControlInv'
<1> USE TwoEnds
<1> DEFINE d == Peer(e)
<1>0. d \in Ends /\ d # e /\ Peer(d) = e /\ Ends = {d, e}
  BY DEF Ends, Peer
<1>1. /\ ControlTypeOK /\ WireOK /\ UnopenedOK /\ FinOK /\ RoleOK /\ OpeningOK /\ ReceiverSays
      /\ SenderSays /\ StartOK /\ PolicyOK /\ PointsOK /\ NoProtocolError
  BY DEF ControlInv
<1>2. Sender' = Sender /\ Receiver' = Receiver /\ Opening' = Opening
  BY DEF Sender, Receiver, Opening
<1>3. \A x : (Opens(x)' <=> Opens(x)) /\ (Announces(x)' <=> Announces(x))
  BY <1>2 DEF Opens, Announces
<1>4. ctx' \in [Ends -> StreamContexts] /\ ctx'[e] = t /\ ctx'[d] = ctx[d]
  BY <1>0, SourceShape
<1>5. wire' \in [Ends -> Seq(Chunks)] /\ wire'[e] = wire[e] /\ wire'[d] = <<>> /\ DOMAIN wire'[d] = {}
  BY <1>0, <1>1 DEF WireOK
<1>6. \/ t = NoStream
      \/ Quits(ctx[e], t) /\ ~Fresh(ctx[e])
      \/ e = "server" /\ Fresh(t) /\ ctx[e] \in {NoStream, NewStream}
  OBVIOUS
<1>7. /\ t.send_state # "initial" /\ t.send_state # "start_point"
      /\ t.start \in {0, ctx[e].start} /\ t.final \in {0, ctx[e].final}
      /\ t.is_cache_real_time => ctx[e].is_cache_real_time
      /\ t.receive_state = "done" => ctx[e].receive_state = "done"
      /\ t.close_reason = "finished" => ctx[e].close_reason = "finished"
      /\ t.is_sender => Quits(ctx[e], t)
      /\ t.alive \/ t = NoStream
  BY <1>6, NoShape, FreshShape DEF Quits
<1> HIDE DEF d
<1>8. WireOK'
  BY <1>5 DEF WireOK
<1>9. UnopenedOK'
  <2>1. ASSUME kind = "none"
        PROVE  /\ t = NoStream /\ closed_with' = closed_with
    BY <2>1
  <2>2. \A x \in Ends : kind = "none" => ctx'[x] = NoStream /\ wire'[x] = <<>>
    BY <1>0, <1>1, <1>4, <1>5, <2>1 DEF UnopenedOK
  <2> QED
    BY <1>1, <2>1, <2>2 DEF UnopenedOK
<1>10. FinOK'
  <2>1. FinAt(e) /\ FinAt(d)
    BY <1>0, <1>1 DEF FinOK
  <2>2. FinAt(e)'
    BY <1>0, <1>4, <1>5, <1>7, <2>1, NoShape DEF FinAt, d
  <2>3. FinAt(d)'
    BY <1>0, <1>4, <1>5, <2>1 DEF FinAt, d
  <2> QED
    BY <1>0, <2>2, <2>3 DEF FinOK
<1>11. RoleOK'
  <2>1. e = Receiver => (t.alive => Receiving(t) \/ (Receiver = "server" /\ Fresh(t)))
    BY <1>1, <1>6, NoShape, FreshShape DEF RoleOK, Quits, Receiving
  <2>2. e = Sender => (t.alive => Sending(t) \/ (Sender = "server" /\ Fresh(t)))
    BY <1>1, <1>6, NoShape, FreshShape DEF RoleOK, Quits, Sending
  <2>3. e = "client" /\ quic'[e].open /\ closed_with'[e] = "none" => t.alive
    BY <1>6 DEF Quits
  <2>4. Sender = "server" => ctx'["server"].send_state # "initial"
    BY <1>0, <1>1, <1>4, <1>7 DEF RoleOK
  <2> QED
    BY <1>0, <1>1, <1>2, <1>4, <2>1, <2>2, <2>3, <2>4 DEF RoleOK, d
<1>12. OpeningOK'
  <2>1. CASE e = "client"
    <3>1. d = "server"
      BY <2>1 DEF d
    <3>2. Untouched => Untouched'
      BY <1>4, <1>5, <1>7, <2>1, <3>1 DEF Untouched
    <3> QED
      BY <1>1, <1>3, <1>4, <1>5, <1>7, <2>1, <3>1, <3>2 DEF OpeningOK
  <2>2. CASE e = "server"
    <3>1. d = "client"
      BY <2>2 DEF d
    <3>2. ctx["client"].send_state = "initial" => t = NoStream
      BY <1>1, <2>2 DEF OpeningOK, Opens
    <3>3. ctx["client"].send_state = "initial" => Untouched'
      BY <1>1, <1>4, <1>5, <2>2, <3>1, <3>2 DEF OpeningOK, Untouched
    <3> QED
      <4>1. DOMAIN wire'["client"] = {} /\ ctx'["client"] = ctx["client"]
        BY <1>4, <1>5, <3>1
      <4> QED
        BY <1>1, <1>2, <3>3, <4>1 DEF OpeningOK
  <2> QED
    BY <2>1, <2>2 DEF Ends
<1>13. ReceiverSays'
  <2>1. CASE e = Receiver
    <3>1. d = Sender
      BY <2>1 DEF d
    <3> QED
      BY <1>1, <1>2, <1>3, <1>4, <1>5, <1>7, <2>1, <3>1 DEF ReceiverSays
  <2>2. CASE e = Sender
    <3>1. d = Receiver
      BY <2>2 DEF d
    <3>2. ctx[Receiver].send_state = "initial" => t = NoStream
      BY <1>1, <2>2, <3>1 DEF ReceiverSays
    <3> QED
      BY <1>1, <1>2, <1>4, <1>5, <2>2, <3>1, <3>2, NoShape DEF ReceiverSays
  <2> QED
    BY <2>1, <2>2
<1>14. SenderSays'
  <2>1. CASE e = Receiver
    <3>1. d = Sender
      BY <2>1 DEF d
    <3>2. quic'[Sender].fin \/ Ready(Len(wire[Sender]) + 1)'
      BY <1>2, <2>1, <3>1 DEF Ready, d
    <3> QED
      BY <1>2, <1>5, <2>1, <3>1, <3>2 DEF SenderSays
  <2>2. CASE e = Sender
    <3>1. d = Receiver
      BY <2>2 DEF d
    <3>2. \A n : Ready(n)' <=> Ready(n)
      BY <1>2, <1>3, <1>4, <1>5, <2>2, <3>1 DEF Ready, d
    <3>4. ASSUME Sending(t) PROVE quic[Sender].fin \/ Ready(Len(wire[Sender]) + 1)
      <4>1. Quits(ctx[e], t)
        BY <1>7, <3>4 DEF Sending
      <4>2. Sending(ctx[Sender])
        BY <1>1, <2>2, <3>4, <4>1, FreshShape DEF RoleOK, Sending, Quits
      <4>3. ctx[Sender].send_state # "initial"
        <5>1. t # NoStream
          BY <4>1, NoShape DEF Quits
        <5>2. CASE Sender = "client"
          <6>1. wire["server"] # <<>>
            BY <2>2, <3>1, <5>1, <5>2 DEF d
          <6> QED
            BY <1>1, <5>2, <6>1 DEF OpeningOK, Untouched
        <5>3. CASE Sender = "server"
          BY <1>1, <5>3 DEF RoleOK
        <5> QED
          BY <5>2, <5>3 DEF Ends
      <4> QED
        BY <1>1, <4>2, <4>3 DEF SenderSays
    <3> QED
      BY <1>1, <1>2, <1>3, <1>4, <1>5, <2>2, <3>2, <3>4 DEF SenderSays
  <2> QED
    BY <2>1, <2>2
<1>15. StartOK' /\ PolicyOK'
  <2>1. CASE e = Receiver
    <3>1. d = Sender
      BY <2>1 DEF d
    <3>2. NoneOnPost'
      BY <1>2, <1>5, <3>1 DEF NoneOnPost
    <3> QED
      BY <1>1, <1>2, <1>4, <1>5, <1>7, <2>1, <3>1, <3>2 DEF StartOK, PolicyOK
  <2>2. CASE e = Sender
    <3>1. d = Receiver
      BY <2>2 DEF d
    <3>2. NoneOnPost' <=> NoneOnPost
      BY <1>2, <1>3, <1>5, <2>2 DEF NoneOnPost
    <3>3. Sending(t) => /\ Sending(ctx[Sender]) /\ t.is_start_sent = ctx[Sender].is_start_sent
                        /\ t.is_cache_policy_sent = ctx[Sender].is_cache_policy_sent
      BY <1>1, <1>7, <2>2, FreshShape DEF RoleOK, Sending, Quits
    <3> QED
      BY <1>1, <1>2, <1>4, <1>5, <1>7, <2>2, <3>1, <3>2, <3>3 DEF StartOK, PolicyOK
  <2> QED
    BY <2>1, <2>2
<1>16. PointsOK'
  <2>1. \A n : SkipsNothing(n)' = SkipsNothing(n)
    BY DEF SkipsNothing
  <2>2. WholeMedia' <=> WholeMedia
    BY DEF WholeMedia, Objects
  <2>3. SkipsNothing(0)
    BY SourceShape DEF SkipsNothing
  <2>4. t.final \in {0, src.final} /\ SkipsNothing(t.start)
    BY <1>1, <1>7, <2>3 DEF PointsOK
  <2>5. \A x \in Ends : ctx'[x].final \in {0, src.final} /\ SkipsNothing(ctx'[x].start)
    BY <1>0, <1>1, <1>4, <2>4 DEF PointsOK
  <2>6. \A x \in Ends : wire'[x] = wire[x] \/ DOMAIN wire'[x] = {}
    BY <1>0, <1>5
  <2>7. ctx'[Receiver].close_reason = "finished" \/ closed_with'[Receiver] = "finished" =>
            rcv.final # 0 /\ WholeMedia
    <3>1. CASE e = Receiver
      BY <1>1, <1>4, <1>7, <3>1 DEF PointsOK
    <3>2. CASE d = Receiver
      BY <1>1, <1>4, <3>2 DEF PointsOK, d
    <3> QED
      BY <1>0, <3>1, <3>2
  <2>8. ctx'[Sender].send_state \in {"initial", "start_point"} /\ ctx'[Sender].alive =>
            SkipsNothing(ctx'[Sender].message_sent.point)
    <3>1. CASE e = Sender
      BY <1>4, <1>7, <3>1
    <3>2. CASE d = Sender
      BY <1>1, <1>4, <3>2 DEF PointsOK
    <3> QED
      BY <1>0, <3>1, <3>2
  <2> QED
    BY <1>1, <1>2, <2>1, <2>2, <2>5, <2>6, <2>7, <2>8 DEF PointsOK
<1>17. ControlTypeOK'
  <2>1. \A x \in Ends : \A i \in DOMAIN wire'[x] :
            wire'[x][i].msg \in Messages /\ wire'[x][i].whole \in BOOLEAN
    BY <1>5, ChunkType
  <2> QED
    BY <1>1, <1>4, <2>1 DEF ControlTypeOK, QuicViews
<1> QED
  BY <1>1, <1>8, <1>9, <1>10, <1>11, <1>12, <1>13, <1>14, <1>15, <1>16, <1>17
     DEF ControlInv, NoProtocolError

LEMMA CloseStep ==
    ASSUME ControlInv, NEW e \in Ends, Close(e)
    PROVE  ControlInv'
<1> USE TwoEnds
<1> DEFINE z == [open |-> FALSE, active |-> FALSE, fin |-> TRUE]
           y == WithReason(ctx[e], "quic_connection").close_reason
<1>1. /\ ControlTypeOK /\ WireOK /\ UnopenedOK
      /\ ctx \in [Ends -> StreamContexts] /\ quic \in [Ends -> QuicViews]
  BY SourceShape DEF ControlInv
<1>2. /\ quic' = [quic EXCEPT ![e] = z]
      /\ ctx' = [ctx EXCEPT ![e] = NoStream]
      /\ wire' = [wire EXCEPT ![Peer(e)] = <<>>]
      /\ UNCHANGED <<kind, src, rcv, air, failure>>
      /\ ctx[e].alive => closed_with' = [closed_with EXCEPT ![e] = y]
      /\ ~ctx[e].alive => closed_with' = closed_with
  BY DEF Close
<1>3. quic' \in [Ends -> QuicViews] /\ quic'[Peer(e)] = quic[Peer(e)] /\ ~quic'[e].open /\ quic'[e].fin
  BY <1>1, <1>2 DEF QuicViews
<1>4. y \in Reasons /\ (y = "finished" => ctx[e].close_reason = "finished")
  <2>1. CASE ctx[e].close_reason = "unknown"
    BY <1>1, <2>1 DEF WithReason, StreamContexts, Reasons
  <2>2. CASE ctx[e].close_reason # "unknown"
    BY <1>1, <2>2 DEF WithReason, StreamContexts, Reasons
  <2> QED
    BY <2>1, <2>2
<1> HIDE DEF y
<1>5. /\ closed_with' \in [Ends -> Reasons \cup {"none"}]
      /\ closed_with'[Peer(e)] = closed_with[Peer(e)]
      /\ closed_with'[e] = "finished" =>
            ctx[e].close_reason = "finished" \/ closed_with[e] = "finished"
  <2>1. closed_with \in [Ends -> Reasons \cup {"none"}]
    BY <1>1 DEF WireOK
  <2>2. CASE ctx[e].alive
    BY <1>2, <1>4, <2>1, <2>2
  <2>3. CASE ~ctx[e].alive
    BY <1>2, <2>1, <2>3
  <2> QED
    BY <2>2, <2>3
<1>6. kind = "none" => closed_with' = closed_with
  BY <1>1, <1>2, NoShape DEF UnopenedOK
<1> QED
  BY <1>2, <1>3, <1>5, <1>6, QuitStep, NewStreamType

LEMMA ReceiveFinStep ==
    ASSUME ControlInv, NEW e \in Ends, quic[e].open, wire[Peer(e)] # <<>>,
           Head(wire[Peer(e)]).fin,
           wire' = [wire EXCEPT ![Peer(e)] = Tail(@)],
           UNCHANGED <<kind, air>>, ReceiveFin(e)
    PROVE  ControlInv'
<1> USE TwoEnds
<1> DEFINE d == Peer(e)
           f == Found(e)
           s == [f EXCEPT !.is_peer_finished = TRUE]
           y == [s EXCEPT !.send_state = "fin"]
           r == WithReason(s, "remote_application")
<1>1. /\ ControlTypeOK /\ WireOK /\ UnopenedOK /\ FinOK /\ RoleOK
      /\ ctx \in [Ends -> StreamContexts] /\ quic \in [Ends -> QuicViews]
  BY SourceShape DEF ControlInv
<1>2. /\ wire[d] \in Seq(Chunks) /\ 1 \in DOMAIN wire[d] /\ wire[d][1].fin /\ Tail(wire[d]) = <<>>
      /\ quic[d].fin
  <2>1. wire[d] \in Seq(Chunks)
    BY <1>1 DEF WireOK
  <2>2. 1 \in DOMAIN wire[d] /\ wire[d][1].fin
    BY <2>1
  <2>3. Len(wire[d]) = 1 /\ quic[d].fin
    BY <1>1, <2>2 DEF FinOK, FinAt
  <2>4. Tail(wire[d]) = <<>>
    <3> DEFINE w == wire[d]
    <3> HIDE DEF w
    <3>1. w \in Seq(Chunks) /\ Len(w) = 1 /\ w # <<>>
      BY <2>1, <2>3 DEF w
    <3>2. Tail(w) \in Seq(Chunks) /\ Len(Tail(w)) = 0
      BY <3>1, TailShifted DEF Shifted
    <3>3. \A v \in Seq(Chunks) : Len(v) = 0 => v = <<>>
      OBVIOUS
    <3> QED
      BY <3>2, <3>3 DEF w
  <2> QED
    BY <2>1, <2>2, <2>3, <2>4
<1>3. wire' = [wire EXCEPT ![d] = <<>>]
  BY <1>2
<1>4. kind # "none" /\ closed_with[e] = "none" /\ ~ctx[e].is_peer_finished
  BY <1>1 DEF UnopenedOK, FinOK, FinAt
<1>5. \/ f = ctx[e] /\ ctx[e].alive
      \/ f = NewStream /\ ctx[e] = NoStream /\ e = "server"
  <2>1. e = "client" => ctx[e].alive
    BY <1>1, <1>4 DEF RoleOK
  <2> QED
    BY <1>1, <2>1 DEF Found, FinOK, FinAt, Ends
<1>6. f \in StreamContexts
  BY <1>1, <1>5, NewStreamType
<1>7. /\ s \in StreamContexts /\ y \in StreamContexts
      /\ s.is_local_finished = f.is_local_finished /\ s.close_reason = f.close_reason
      /\ f.alive => Quits(f, y)
  <2> HIDE DEF f
  <2> QED
    BY <1>6 DEF StreamContexts, SendStates, Quits
<1>8. f = NewStream => Fresh(y)
  BY DEF Fresh, NewStream
<1>9. Fresh(f) => f = NewStream
  <2>1. Fresh(f) => (f.is_peer_finished <=> f # NewStream)
    BY FreshShape
  <2>2. ~f.is_peer_finished
    BY <1>4, <1>5, NewShape
  <2> QED
    BY <2>1, <2>2
<1>10. CASE f.is_local_finished
  <2>1. f = ctx[e] /\ s.is_local_finished
    BY <1>5, <1>7, <1>10, NewShape
  <2>2. r \in StreamContexts /\ (r.close_reason = "finished" => s.close_reason = "finished")
    <3> HIDE DEF s
    <3>1. /\ r \in StreamContexts
          /\ r = s \/ r = [s EXCEPT !.close_reason = "remote_application"]
      BY <1>7, ReasonShape DEF Reasons
    <3> QED
      BY <1>7, <3>1 DEF StreamContexts
  <2>3. /\ ctx' = [ctx EXCEPT ![e] = NoStream]
        /\ quic' = [quic EXCEPT ![e] = [@ EXCEPT !.active = FALSE, !.fin = TRUE]]
        /\ closed_with' = [closed_with EXCEPT ![e] = r.close_reason]
        /\ UNCHANGED <<src, rcv, failure>>
    BY <2>1 DEF ReceiveFin, Delete
  <2>4. r.close_reason \in Reasons
    BY <2>2 DEF StreamContexts, Reasons
  <2> HIDE DEF r, s, f
  <2>5. /\ closed_with' \in [Ends -> Reasons \cup {"none"}] /\ closed_with'[d] = closed_with[d]
        /\ closed_with'[e] = r.close_reason /\ closed_with'[e] # "none"
    BY <1>1, <2>3, <2>4 DEF WireOK, Reasons
  <2>6. quic' \in [Ends -> QuicViews] /\ quic'[d] = quic[d] /\ quic'[e].open /\ quic'[e].fin
    <3>1. [quic[e] EXCEPT !.active = FALSE, !.fin = TRUE] \in QuicViews
      <4>1. \A q \in QuicViews : [q EXCEPT !.active = FALSE, !.fin = TRUE] \in QuicViews
        BY DEF QuicViews
      <4> QED
        BY <1>1, <4>1
    <3>2. quic'[e] = [quic[e] EXCEPT !.active = FALSE, !.fin = TRUE]
      BY <1>1, <2>3
    <3>3. quic[e] \in QuicViews
      BY <1>1
    <3> QED
      BY <1>1, <2>3, <3>1, <3>2, <3>3 DEF QuicViews
  <2> QED
    BY <1>2, <1>3, <1>4, <1>7, <2>1, <2>2, <2>3, <2>5, <2>6, QuitStep, NewStreamType
<1>11. CASE ~f.is_local_finished
  <2>1. ~s.is_local_finished
    BY <1>7, <1>11
  <2>2. /\ ctx' = [ctx EXCEPT ![e] = y]
        /\ quic' = [quic EXCEPT ![e] = Marked(@, TRUE)]
        /\ UNCHANGED <<src, rcv, failure, closed_with>>
    BY <2>1 DEF ReceiveFin
  <2>3. quic' \in [Ends -> QuicViews] /\ quic'[d] = quic[d] /\ quic'[e].open /\ quic'[e].fin = quic[e].fin
    <3>1. /\ Marked(quic[e], TRUE) \in QuicViews
          /\ Marked(quic[e], TRUE).open = quic[e].open /\ Marked(quic[e], TRUE).fin = quic[e].fin
      BY <1>1, MarkedShape
    <3> QED
      BY <1>1, <2>2, <3>1
  <2> HIDE DEF f, s, y
  <2>4. closed_with' \in [Ends -> Reasons \cup {"none"}]
    BY <1>1, <2>2 DEF WireOK
  <2>5. \/ Quits(ctx[e], y) /\ ~Fresh(ctx[e])
        \/ e = "server" /\ Fresh(y) /\ ctx[e] \in {NoStream, NewStream}
    <3>1. CASE f = ctx[e] /\ ctx[e].alive /\ ~Fresh(ctx[e])
      BY <1>7, <3>1
    <3>2. CASE f = ctx[e] /\ ctx[e].alive /\ Fresh(ctx[e])
      <4>1. f = NewStream
        BY <1>9, <3>2
      <4>2. e = "server"
        <5>1. ~NewStream.media_source /\ ~NewStream.media_id
          BY NewShape
        <5> QED
          BY <1>1, <3>2, <4>1, <5>1 DEF RoleOK, Receiving, Sending
      <4> QED
        BY <1>8, <3>2, <4>1, <4>2
    <3>3. CASE f = NewStream /\ ctx[e] = NoStream /\ e = "server"
      BY <1>8, <3>3
    <3> QED
      BY <1>5, <3>1, <3>2, <3>3
  <2> QED
    BY <1>2, <1>3, <1>4, <1>7, <2>2, <2>3, <2>4, <2>5, QuitStep
<1> QED
  BY <1>10, <1>11

-----------------------------------------------------------------------------
(* An end is polled.                                                       *)

\* v is w with x at its end.
Extended(v, w, x) ==
    /\ Len(w) \in Nat /\ Len(v) = Len(w) + 1
    /\ DOMAIN w = 1..Len(w) /\ DOMAIN v = 1..Len(v)
    /\ \A i \in DOMAIN w : i \in DOMAIN v /\ v[i] = w[i]
    /\ Len(v) \in DOMAIN v /\ v[Len(v)] = x
    /\ \A i \in DOMAIN v : i \in Nat /\ (i \in DOMAIN w \/ i = Len(v))

LEMMA AppendExtended ==
    ASSUME NEW C, NEW w \in Seq(C), NEW x \in C
    PROVE  Append(w, x) \in Seq(C) /\ Extended(Append(w, x), w, x)
<1> DEFINE v == Append(w, x)
<1>1. v \in Seq(C) /\ Len(v) = Len(w) + 1 /\ Len(w) \in Nat
  OBVIOUS
<1>2. DOMAIN w = 1..Len(w) /\ DOMAIN v = 1..Len(v)
  BY <1>1
<1>3. \A i \in 1..Len(w) : v[i] = w[i]
  OBVIOUS
<1>4. v[Len(w) + 1] = x
  OBVIOUS
<1> HIDE DEF v
<1>5. \A i \in DOMAIN v : i \in Nat /\ (i \in DOMAIN w \/ i = Len(v))
  BY <1>1, <1>2
<1>6. \A i \in DOMAIN w : i \in DOMAIN v
  BY <1>1, <1>2
<1>7. Len(v) \in DOMAIN v
  BY <1>1, <1>2
<1> QED
  BY <1>1, <1>2, <1>3, <1>4, <1>5, <1>6, <1>7 DEF Extended, v

LEMMA PrepareFinStep ==
    ASSUME ControlInv, NEW e \in Ends, quic[e].open, ctx[e].alive, ~quic[e].fin,
           PrepareFin(e), UNCHANGED <<kind, src, rcv, air, failure>>
    PROVE  ControlInv'
<1> USE TwoEnds
<1> DEFINE d == Peer(e)
           s == ctx[e]
           t == ctx'[e]
           w == wire[e]
           v == wire'[e]
<1>0. d \in Ends /\ d # e /\ Peer(d) = e /\ Ends = {d, e}
  BY DEF Ends, Peer
<1>1. /\ ControlTypeOK /\ WireOK /\ UnopenedOK /\ FinOK /\ RoleOK /\ OpeningOK /\ ReceiverSays
      /\ SenderSays /\ StartOK /\ PolicyOK /\ PointsOK /\ NoProtocolError
  BY DEF ControlInv
<1>2. Sender' = Sender /\ Receiver' = Receiver /\ Opening' = Opening
  BY DEF Sender, Receiver, Opening
<1>3. \A x : (Opens(x)' <=> Opens(x)) /\ (Announces(x)' <=> Announces(x))
  BY <1>2 DEF Opens, Announces
<1>4. /\ ctx \in [Ends -> StreamContexts] /\ s \in StreamContexts
      /\ quic \in [Ends -> QuicViews] /\ quic[e] \in QuicViews
  BY SourceShape
<1>5. s.send_state = "fin" /\ wire' = [wire EXCEPT ![e] = Append(@, Fin)]
  BY DEF PrepareFin
<1>6. Fin \in Chunks /\ Fin.fin
  BY PointsNat DEF Fin, Chunks, NoMessage, Message, Messages, MessageTypes
<1>7. /\ wire' \in [Ends -> Seq(Chunks)] /\ wire'[d] = wire[d] /\ Extended(v, w, Fin)
  <2>1. wire \in [Ends -> Seq(Chunks)] /\ w \in Seq(Chunks)
    BY <1>1 DEF WireOK
  <2>2. Append(w, Fin) \in Seq(Chunks) /\ Extended(Append(w, Fin), w, Fin)
    BY <1>6, <2>1, AppendExtended
  <2>3. v = Append(w, Fin)
    BY <1>5, <2>1
  <2> HIDE DEF w, v
  <2> QED
    BY <1>0, <1>5, <2>1, <2>2, <2>3 DEF w
<1>8. quic' = [quic EXCEPT ![e] = [@ EXCEPT !.active = FALSE, !.fin = TRUE]]
  BY DEF PrepareFin, Delete
<1>9. quic' \in [Ends -> QuicViews] /\ quic'[d] = quic[d] /\ quic'[e].open /\ quic'[e].fin
  <2>1. \A q \in QuicViews : /\ [q EXCEPT !.active = FALSE, !.fin = TRUE] \in QuicViews
                             /\ [q EXCEPT !.active = FALSE, !.fin = TRUE].open = q.open
                             /\ [q EXCEPT !.active = FALSE, !.fin = TRUE].fin
    BY DEF QuicViews
  <2>2. quic'[e] = [quic[e] EXCEPT !.active = FALSE, !.fin = TRUE]
    BY <1>4, <1>8
  <2> QED
    BY <1>0, <1>4, <1>8, <2>1, <2>2
<1>10. kind # "none" /\ closed_with[e] = "none"
  <2>1. kind # "none"
    BY <1>1, NoShape DEF UnopenedOK
  <2> QED
    BY <1>1, <2>1 DEF FinOK, FinAt
<1>11. \/ /\ t = NoStream /\ s.is_peer_finished
          /\ closed_with' \in [Ends -> Reasons \cup {"none"}]
          /\ closed_with'[d] = closed_with[d] /\ closed_with'[e] # "none"
          /\ closed_with'[e] = "finished" => s.close_reason = "finished"
          /\ ctx' = [ctx EXCEPT ![e] = NoStream]
       \/ /\ t \in StreamContexts /\ Quits(s, t) /\ ~Fresh(s) /\ ~s.is_peer_finished
          /\ t.is_peer_finished = s.is_peer_finished
          /\ closed_with' = closed_with
          /\ ctx' = [ctx EXCEPT ![e] = t]
  <2>1. CASE s.is_peer_finished
    <3> DEFINE r == WithReason(s, "remote_application")
    <3>1. /\ ctx' = [ctx EXCEPT ![e] = NoStream]
          /\ closed_with' = [closed_with EXCEPT ![e] = r.close_reason]
      BY <2>1 DEF PrepareFin, Delete
    <3>2. /\ r \in StreamContexts
          /\ r = s \/ r = [s EXCEPT !.close_reason = "remote_application"]
      BY <1>4, ReasonShape DEF Reasons
    <3>3. r.close_reason \in Reasons /\ (r.close_reason = "finished" => s.close_reason = "finished")
      <4> HIDE DEF r, s
      <4> QED
        BY <1>4, <3>2 DEF StreamContexts, Reasons
    <3> HIDE DEF r
    <3>4. closed_with \in [Ends -> Reasons \cup {"none"}]
      BY <1>1 DEF WireOK
    <3>5. r.close_reason # "none"
      BY <3>3 DEF Reasons
    <3> QED
      BY <1>0, <1>4, <2>1, <3>1, <3>3, <3>4, <3>5
  <2>2. CASE ~s.is_peer_finished
    <3> DEFINE y == [s EXCEPT !.send_state = "no_more", !.is_local_finished = TRUE]
    <3>1. ctx' = [ctx EXCEPT ![e] = y] /\ closed_with' = closed_with
      <4>1. ctx' = [ctx EXCEPT ![e].send_state = "no_more", ![e].is_local_finished = TRUE]
        BY <2>2 DEF PrepareFin
      <4> QED
        BY <1>4, <2>2, <4>1 DEF PrepareFin
    <3>2. y \in StreamContexts /\ y.is_peer_finished = s.is_peer_finished /\ Quits(s, y)
      <4>1. s.alive
        OBVIOUS
      <4> HIDE DEF s
      <4> QED
        BY <1>4, <4>1 DEF StreamContexts, SendStates, Quits
    <3>3. ~Fresh(s)
      BY <1>5, <2>2, FreshShape
    <3>4. t = y
      BY <1>4, <3>1
    <3> HIDE DEF y, t, s
    <3> QED
      BY <2>2, <3>1, <3>2, <3>3, <3>4
  <2> QED
    BY <2>1, <2>2
<1>12. ctx' \in [Ends -> StreamContexts] /\ ctx'[d] = ctx[d]
  BY <1>0, <1>4, <1>11, NewStreamType
<1> HIDE DEF d, s, t, w, v
<1>13. /\ t.send_state # "initial" /\ t.send_state # "start_point"
       /\ t.start \in {0, s.start} /\ t.final \in {0, s.final}
       /\ t.is_cache_real_time => s.is_cache_real_time
       /\ t.receive_state = "done" => s.receive_state = "done"
       /\ t.close_reason = "finished" => s.close_reason = "finished"
       /\ t.is_sender => Quits(s, t)
       /\ t.alive \/ t = NoStream
  BY <1>11, NoShape DEF Quits
<1>14. WireOK'
  BY <1>1, <1>7, <1>11 DEF WireOK
<1>15. UnopenedOK'
  BY <1>10 DEF UnopenedOK
<1>16. FinOK'
  <2>1. FinAt(e) /\ FinAt(d)
    BY <1>0, <1>1 DEF FinOK
  <2>2. \A i \in DOMAIN v : v[i].fin => i = Len(v)
    <3>1. \A i \in DOMAIN w : ~w[i].fin
      BY <2>1 DEF FinAt, w
    <3> QED
      BY <1>7, <3>1 DEF Extended
  <2>3. FinAt(e)'
    <3>1. s.is_peer_finished => wire[d] = <<>> /\ quic[d].fin
      BY <2>1 DEF FinAt, d, s
    <3>2. t.is_peer_finished => s.is_peer_finished
      BY <1>11, NoShape
    <3> QED
      BY <1>0, <1>7, <1>9, <1>10, <1>11, <1>13, <2>2, <3>1, <3>2, NoShape DEF FinAt, d, t, v
  <2>4. FinAt(d)'
    <3>1. ~ctx[d].is_peer_finished /\ ~(quic[d].open /\ closed_with[d] # "none")
      BY <1>0, <2>1 DEF FinAt
    <3>2. closed_with'[d] = closed_with[d]
      BY <1>11
    <3> QED
      BY <1>0, <1>7, <1>9, <1>12, <2>1, <3>1, <3>2 DEF FinAt
  <2> QED
    BY <1>0, <2>3, <2>4 DEF FinOK
<1>17. RoleOK'
  <2>1. e = Receiver => (t.alive => Receiving(t))
    BY <1>1, <1>11, NoShape DEF RoleOK, Quits, Receiving, s
  <2>2. e = Sender => (t.alive => Sending(t))
    BY <1>1, <1>11, NoShape DEF RoleOK, Quits, Sending, s
  <2>3. closed_with'[e] = "none" => t.alive
    BY <1>11 DEF Quits
  <2>4. Sender = "server" => ctx'["server"].send_state # "initial"
    BY <1>0, <1>1, <1>12, <1>13 DEF RoleOK, t
  <2>5. closed_with'[d] = closed_with[d]
    BY <1>11
  <2> QED
    BY <1>0, <1>1, <1>2, <1>9, <1>12, <2>1, <2>2, <2>3, <2>4, <2>5 DEF RoleOK, t
<1>18. OpeningOK'
  <2>1. CASE e = "client"
    <3>1. d = "server"
      BY <2>1 DEF d
    <3>2. Untouched => Untouched'
      BY <1>7, <1>12, <1>13, <2>1, <3>1 DEF Untouched, s, t
    <3>3. \A i \in DOMAIN v : Opens(v[i]) => i \in DOMAIN w /\ v[i] = w[i]
      BY <1>6, <1>7 DEF Extended, Opens
    <3>4. \A i, j \in DOMAIN v : i < j /\ j \in DOMAIN w => i \in DOMAIN w /\ v[i] = w[i]
      BY <1>7 DEF Extended
    <3>5. \A i, j \in DOMAIN v : i < j /\ Opens(v[j]) => Opens(v[i]) /\ ~v[i].whole
      BY <1>1, <2>1, <3>3, <3>4 DEF OpeningOK, w
    <3> QED
      BY <1>1, <1>3, <1>13, <2>1, <3>2, <3>3, <3>5 DEF OpeningOK, t, v, w
  <2>2. CASE e = "server"
    <3>1. d = "client"
      BY <2>2 DEF d
    <3>2. ~Untouched
      BY <1>5, <2>2, NewShape DEF Untouched, s
    <3> QED
      BY <1>1, <1>3, <1>7, <1>12, <3>1, <3>2 DEF OpeningOK
  <2> QED
    BY <2>1, <2>2 DEF Ends
<1>19. ReceiverSays'
  <2>1. CASE e = Receiver
    <3>1. d = Sender
      BY <2>1 DEF d
    <3>2. \A i \in DOMAIN v : v[i].fin \/ (i \in DOMAIN w /\ v[i] = w[i])
      BY <1>6, <1>7 DEF Extended
    <3>3. \A i, j \in DOMAIN v : i < j => i \in DOMAIN w /\ v[i] = w[i]
      BY <1>7 DEF Extended
    <3>4. \A i, j \in DOMAIN v : i < j /\ ~v[i].fin /\ v[i].whole => v[j].fin
      BY <1>1, <2>1, <3>2, <3>3 DEF ReceiverSays, w
    <3>5. \A i \in DOMAIN v : \/ v[i].fin
                              \/ Receiver = "client" /\ Opens(v[i])
                              \/ Receiver = "server" /\ v[i].whole /\ v[i].msg.type = "ACCEPT"
      BY <1>1, <2>1, <3>2 DEF ReceiverSays, w
    <3>6. ctx[Sender].receive_state = "done" => \A i \in DOMAIN v : v[i].fin
      BY <1>1, <2>1, <3>2 DEF ReceiverSays, w
    <3> QED
      BY <1>2, <1>3, <1>12, <1>13, <2>1, <3>1, <3>4, <3>5, <3>6 DEF ReceiverSays, t, v
  <2>2. CASE e = Sender
    <3>1. d = Receiver
      BY <2>2 DEF d
    <3> QED
      BY <1>1, <1>2, <1>3, <1>7, <1>12, <1>13, <2>2, <3>1 DEF ReceiverSays, s, t
  <2> QED
    BY <2>1, <2>2
<1>20. SenderSays'
  <2>1. CASE e = Receiver
    <3>1. d = Sender
      BY <2>1 DEF d
    <3>2. CASE t = NoStream
      <4>1. wire[Sender] = <<>> /\ quic[Sender].fin
        BY <1>1, <1>11, <2>1, <3>1, <3>2, NoShape DEF FinOK, FinAt, s, Quits, d
      <4> QED
        BY <1>2, <1>7, <1>9, <3>1, <4>1 DEF SenderSays
    <3>3. CASE Quits(s, t) /\ ~Fresh(s)
      <4>1. Receiving(t)
        BY <1>1, <2>1, <3>3 DEF RoleOK, Quits, Receiving, s
      <4>2. \A n : Ready(n)'
        BY <1>2, <2>1, <4>1 DEF Ready, t
      <4> QED
        BY <1>1, <1>2, <1>3, <1>7, <1>12, <3>1, <4>2 DEF SenderSays
    <3> QED
      BY <1>11, <3>2, <3>3
  <2>2. CASE e = Sender
    <3>1. d = Receiver
      BY <2>2 DEF d
    <3>2. ASSUME NEW n, Ready(n) PROVE Ready(n)'
      BY <1>2, <1>3, <1>7, <1>9, <1>12, <2>2, <3>1, <3>2 DEF Ready, Extended, v, w
    <3>3. \A i \in DOMAIN v : v[i].fin \/ (i \in DOMAIN w /\ v[i] = w[i])
      BY <1>6, <1>7 DEF Extended
    <3>4. \A i \in DOMAIN v : \/ v[i].fin
                              \/ Sender = "client" /\ Opens(v[i])
                              \/ Announces(v[i]) /\ Ready(i)
      BY <1>1, <2>2, <3>3 DEF SenderSays, w
    <3> QED
      BY <1>2, <1>3, <1>9, <2>2, <3>2, <3>4 DEF SenderSays, v
  <2> QED
    BY <2>1, <2>2
<1>21. StartOK' /\ PolicyOK'
  <2>1. CASE e = Receiver
    <3>1. d = Sender
      BY <2>1 DEF d
    <3>2. NoneOnPost' <=> NoneOnPost
      BY <1>2, <1>3, <1>7, <3>1 DEF NoneOnPost
    <3>3. s.start = 0 => t.start = 0
      BY <1>13
    <3> QED
      BY <1>1, <1>2, <1>7, <1>12, <1>13, <2>1, <3>1, <3>2, <3>3 DEF StartOK, PolicyOK, s, t
  <2>2. CASE e = Sender
    <3>1. d = Receiver
      BY <2>2 DEF d
    <3>2. \A i \in DOMAIN v : v[i].fin \/ (i \in DOMAIN w /\ v[i] = w[i])
      BY <1>6, <1>7 DEF Extended
    <3>3. NoneOnPost => NoneOnPost'
      BY <1>2, <1>3, <2>2, <3>2 DEF NoneOnPost, Opens, v, w
    <3>4. Sending(t) => /\ Sending(ctx[Sender]) /\ t.is_start_sent = ctx[Sender].is_start_sent
                        /\ t.is_cache_policy_sent = ctx[Sender].is_cache_policy_sent
      BY <1>1, <1>13, <2>2, FreshShape DEF RoleOK, Sending, Quits, s
    <3>5. \A i \in DOMAIN v : /\ IsStart(v[i]) => i \in DOMAIN w /\ IsStart(w[i]) /\ v[i] = w[i]
                              /\ IsPolicy(v[i]) => i \in DOMAIN w /\ IsPolicy(w[i])
      BY <3>2 DEF IsStart, IsPolicy
    <3>6. StartOK'
      BY <1>1, <1>2, <1>12, <1>13, <2>2, <3>1, <3>3, <3>4, <3>5 DEF StartOK, t, v, w
    <3>7. PolicyOK'
      BY <1>1, <1>2, <1>12, <2>2, <3>1, <3>4, <3>5 DEF PolicyOK, t, v, w
    <3> QED
      BY <3>6, <3>7
  <2> QED
    BY <2>1, <2>2
<1>22. PointsOK'
  <2>1. \A n : SkipsNothing(n)' = SkipsNothing(n)
    BY DEF SkipsNothing
  <2>2. WholeMedia' <=> WholeMedia
    BY DEF WholeMedia, Objects
  <2>3. SkipsNothing(0)
    BY SourceShape DEF SkipsNothing
  <2>4. t.final \in {0, src.final} /\ SkipsNothing(t.start)
    BY <1>1, <1>13, <2>3 DEF PointsOK, s
  <2>5. \A x \in Ends : ctx'[x].final \in {0, src.final} /\ SkipsNothing(ctx'[x].start)
    BY <1>0, <1>1, <1>12, <2>4 DEF PointsOK, t
  <2>6. \A x \in Ends : \A i \in DOMAIN wire'[x] :
            wire'[x][i].fin \/ (i \in DOMAIN wire[x] /\ wire'[x][i] = wire[x][i])
    BY <1>0, <1>6, <1>7 DEF Extended, v, w
  <2>7. ctx'[Receiver].close_reason = "finished" \/ closed_with'[Receiver] = "finished" =>
            rcv.final # 0 /\ WholeMedia
    <3>1. CASE e = Receiver
      BY <1>1, <1>10, <1>11, <1>13, <3>1 DEF PointsOK, s, t
    <3>2. CASE d = Receiver
      BY <1>1, <1>11, <1>12, <3>2 DEF PointsOK
    <3> QED
      BY <1>0, <3>1, <3>2
  <2>8. ctx'[Sender].send_state \in {"initial", "start_point"} /\ ctx'[Sender].alive =>
            SkipsNothing(ctx'[Sender].message_sent.point)
    <3>1. CASE e = Sender
      BY <1>13, <3>1 DEF t
    <3>2. CASE d = Sender
      BY <1>1, <1>12, <3>2 DEF PointsOK
    <3> QED
      BY <1>0, <3>1, <3>2
  <2> QED
    BY <1>1, <1>2, <2>1, <2>2, <2>5, <2>6, <2>7, <2>8 DEF PointsOK
<1>23. ControlTypeOK'
  <2>1. \A x \in Ends : \A i \in DOMAIN wire'[x] :
            wire'[x][i].msg \in Messages /\ wire'[x][i].whole \in BOOLEAN
    BY <1>7, ChunkType
  <2> QED
    BY <1>1, <1>9, <1>12, <2>1 DEF ControlTypeOK, QuicViews
<1> QED
  BY <1>1, <1>14, <1>15, <1>16, <1>17, <1>18, <1>19, <1>20, <1>21, <1>22, <1>23
     DEF ControlInv, NoProtocolError

LEMMA PrepareIdleStep ==
    ASSUME ControlInv, NEW e \in Ends, PrepareIdle(e),
           UNCHANGED <<kind, src, rcv, air, failure>>
    PROVE  ControlInv'
<1>1. /\ UNCHANGED <<kind, ctx, wire, src, rcv, air, closed_with, failure>>
      /\ quic' = [quic EXCEPT ![e].active = FALSE]
  BY DEF PrepareIdle
<1>2. /\ ControlTypeOK /\ WireOK /\ UnopenedOK /\ FinOK /\ RoleOK /\ OpeningOK
      /\ ReceiverSays /\ SenderSays /\ StartOK /\ PolicyOK /\ PointsOK
      /\ NoProtocolError
  BY DEF ControlInv
<1>3. Sender' = Sender /\ Receiver' = Receiver /\ Opening' = Opening
  BY <1>1 DEF Sender, Receiver, Opening
<1>4. /\ quic' \in [Ends -> QuicViews]
      /\ \A x \in Ends : quic'[x].open = quic[x].open /\ quic'[x].fin = quic[x].fin
  <2>1. quic \in [Ends -> QuicViews]
    BY SourceShape
  <2> QED
    BY <1>1, <2>1 DEF QuicViews
<1>5. ControlTypeOK' /\ UnopenedOK' /\ WireOK' /\ NoProtocolError'
  BY <1>1, <1>2, <1>4 DEF ControlTypeOK, UnopenedOK, WireOK, NoProtocolError, QuicViews
<1>6. FinOK' /\ RoleOK'
  BY <1>1, <1>2, <1>3, <1>4, TwoEnds DEF FinOK, FinAt, RoleOK
<1>7. OpeningOK' /\ ReceiverSays' /\ SenderSays'
  BY <1>1, <1>2, <1>3, <1>4, TwoEnds
     DEF OpeningOK, Untouched, ReceiverSays, SenderSays, Ready, Opens, Announces
<1>8. StartOK' /\ PolicyOK' /\ PointsOK'
  BY <1>1, <1>2, <1>3 DEF StartOK, PolicyOK, PointsOK, NoneOnPost, IsStart, IsPolicy, Opens,
        SkipsNothing, WholeMedia, Objects
<1> QED
  BY <1>5, <1>6, <1>7, <1>8 DEF ControlInv

\* t is s but for the message under way, and what it records of those sent.
Sent(s, t) ==
    /\ t.alive = s.alive /\ t.receive_state = s.receive_state
    /\ t.is_sender = s.is_sender /\ t.media_source = s.media_source
    /\ t.media_id = s.media_id /\ t.start = s.start /\ t.final = s.final
    /\ t.is_cache_real_time = s.is_cache_real_time
    /\ t.is_peer_finished = s.is_peer_finished

\* End e is polled and sends chunk c of a message; its context becomes t.
Sends(e, c, t) ==
    /\ quic[e].open /\ ctx[e].alive /\ ~quic[e].fin
    /\ c \in Chunks /\ ~c.fin /\ t \in StreamContexts /\ Sent(ctx[e], t)
    /\ wire' = [wire EXCEPT ![e] = Append(@, c)]
    /\ ctx' = [ctx EXCEPT ![e] = t]
    /\ \E b \in BOOLEAN : quic' = [quic EXCEPT ![e].active = b]
    /\ UNCHANGED <<kind, src, rcv, air, closed_with, failure>>

\* The parts of the invariant that do not depend on which message an end sends.
LEMMA MessageFrame ==
    ASSUME ControlInv, NEW e \in Ends, NEW c, NEW t, Sends(e, c, t)
    PROVE  /\ ControlTypeOK' /\ WireOK' /\ UnopenedOK' /\ FinOK' /\ NoProtocolError'
           /\ Sender' = Sender /\ Receiver' = Receiver /\ Opening' = Opening
           /\ \A x : (Opens(x)' <=> Opens(x)) /\ (Announces(x)' <=> Announces(x))
           /\ Extended(wire'[e], wire[e], c) /\ wire'[Peer(e)] = wire[Peer(e)]
           /\ ctx'[e] = t /\ ctx'[Peer(e)] = ctx[Peer(e)]
           /\ \A x \in Ends : quic'[x].open = quic[x].open /\ quic'[x].fin = quic[x].fin
           /\ \A i \in DOMAIN wire[e] : ~wire[e][i].fin
           /\ \A x \in Ends : ctx'[x].final \in {0, src.final} /\ SkipsNothing(ctx'[x].start)
           /\ \A n : SkipsNothing(n)' = SkipsNothing(n)
           /\ WholeMedia' <=> WholeMedia
<1> USE TwoEnds
<1> DEFINE d == Peer(e)
           s == ctx[e]
           w == wire[e]
           v == wire'[e]
<1>a. /\ quic[e].open /\ ctx[e].alive /\ ~quic[e].fin
      /\ c \in Chunks /\ ~c.fin /\ t \in StreamContexts /\ Sent(ctx[e], t)
      /\ wire' = [wire EXCEPT ![e] = Append(@, c)]
      /\ ctx' = [ctx EXCEPT ![e] = t]
      /\ UNCHANGED <<kind, src, rcv, air, closed_with, failure>>
  BY DEF Sends
<1> USE <1>a
<1>b. PICK b \in BOOLEAN : quic' = [quic EXCEPT ![e].active = b]
  BY DEF Sends
<1>0. d \in Ends /\ d # e /\ Peer(d) = e /\ Ends = {d, e}
  BY DEF Ends, Peer
<1>1. ControlTypeOK /\ WireOK /\ UnopenedOK /\ FinOK /\ PointsOK /\ NoProtocolError
  BY DEF ControlInv
<1>2. Sender' = Sender /\ Receiver' = Receiver /\ Opening' = Opening
  BY DEF Sender, Receiver, Opening
<1>3. \A x : (Opens(x)' <=> Opens(x)) /\ (Announces(x)' <=> Announces(x))
  BY <1>2 DEF Opens, Announces
<1>4. ctx \in [Ends -> StreamContexts] /\ quic \in [Ends -> QuicViews]
  BY SourceShape
<1>5. /\ wire' \in [Ends -> Seq(Chunks)] /\ wire'[d] = wire[d] /\ Extended(v, w, c)
  <2>1. wire \in [Ends -> Seq(Chunks)] /\ w \in Seq(Chunks)
    BY <1>1 DEF WireOK
  <2>2. Append(w, c) \in Seq(Chunks) /\ Extended(Append(w, c), w, c)
    BY <2>1, AppendExtended
  <2>3. v = Append(w, c)
    BY <2>1
  <2> HIDE DEF w, v
  <2> QED
    BY <1>0, <2>1, <2>2, <2>3 DEF w
<1>6. /\ quic' \in [Ends -> QuicViews]
      /\ \A x \in Ends : quic'[x].open = quic[x].open /\ quic'[x].fin = quic[x].fin
  BY <1>b, <1>4 DEF QuicViews
<1>7. ctx' \in [Ends -> StreamContexts] /\ ctx'[d] = ctx[d] /\ ctx'[e] = t
  BY <1>0, <1>4
<1>8. kind # "none" /\ closed_with[e] = "none"
  <2>1. kind # "none"
    BY <1>1, NoShape DEF UnopenedOK
  <2> QED
    BY <1>1, <2>1 DEF FinOK, FinAt
<1>9. FinAt(e) /\ FinAt(d)
  BY <1>0, <1>1 DEF FinOK
<1> HIDE DEF d, s, w, v
<1>10. \A i \in DOMAIN w : ~w[i].fin
  BY <1>9 DEF FinAt, w
<1>11. FinOK'
  <2>1. \A i \in DOMAIN v : ~v[i].fin
    BY <1>5, <1>10 DEF Extended
  <2>2. FinAt(e)'
    BY <1>0, <1>5, <1>6, <1>7, <1>8, <1>9, <2>1 DEF FinAt, Sent, d, v
  <2>3. FinAt(d)'
    <3>1. ~ctx[d].is_peer_finished /\ ~(quic[d].open /\ closed_with[d] # "none")
      BY <1>0, <1>9 DEF FinAt
    <3> QED
      BY <1>0, <1>5, <1>6, <1>7, <1>9, <3>1 DEF FinAt
  <2> QED
    BY <1>0, <2>2, <2>3 DEF FinOK
<1>12. WireOK' /\ UnopenedOK' /\ NoProtocolError'
  BY <1>1, <1>5, <1>8 DEF WireOK, UnopenedOK, NoProtocolError
<1>13. ControlTypeOK'
  <2>1. \A x \in Ends : \A i \in DOMAIN wire'[x] :
            wire'[x][i].msg \in Messages /\ wire'[x][i].whole \in BOOLEAN
    BY <1>5, ChunkType
  <2> QED
    BY <1>1, <1>6, <1>7, <2>1 DEF ControlTypeOK, QuicViews
<1>14. \A x \in Ends : ctx'[x].final \in {0, src.final} /\ SkipsNothing(ctx'[x].start)
  BY <1>0, <1>1, <1>7 DEF PointsOK, Sent
<1>15. /\ \A n : SkipsNothing(n)' = SkipsNothing(n)
       /\ WholeMedia' <=> WholeMedia
  BY DEF SkipsNothing, WholeMedia, Objects
<1> QED
  BY <1>2, <1>3, <1>5, <1>6, <1>7, <1>10, <1>11, <1>12, <1>13, <1>14, <1>15 DEF d, w, v

\* The client sends a part of the message that opens the stream, or the last one.
LEMMA OpeningSent ==
    ASSUME ControlInv, NEW c, NEW t, Sends("client", c, t),
           ctx["client"].send_state = "initial", Opens(c),
           t.send_state \in {"initial", "ready"},
           t.send_state = "initial" => /\ ~c.whole /\ t.left = 1
                                       /\ t.message_sent = ctx["client"].message_sent
    PROVE  OpeningOK'
<1> USE TwoEnds
<1>a. /\ quic["client"].open /\ ctx["client"].alive /\ ~quic["client"].fin
      /\ ~c.fin /\ Sent(ctx["client"], t)
      /\ UNCHANGED <<kind, src, rcv, air, closed_with, failure>>
  BY DEF Sends
<1> USE <1>a
<1> DEFINE w == wire["client"]
           v == wire'["client"]
<1>1. OpeningOK
  BY DEF ControlInv
<1>2. /\ Opening' = Opening /\ Extended(v, w, c) /\ wire'["server"] = wire["server"]
      /\ \A x : Opens(x)' <=> Opens(x)
      /\ ctx'["client"] = t /\ ctx'["server"] = ctx["server"]
  BY MessageFrame
<1>3. Untouched /\ ctx["client"].message_sent.type = Opening
  BY <1>1 DEF OpeningOK
<1>4. Untouched'
  BY <1>2, <1>3 DEF Untouched, Sent
<1>5. \A i \in DOMAIN w : Opens(w[i]) /\ ~w[i].whole
  BY <1>1 DEF OpeningOK
<1> HIDE DEF w, v
<1>6. \A i \in DOMAIN v : Opens(v[i]) /\ (i = Len(v) \/ ~v[i].whole)
  BY <1>2, <1>5 DEF Extended
<1>7. \A i, j \in DOMAIN v : i < j => ~v[i].whole
  BY <1>2, <1>6 DEF Extended
<1>8. ~c.whole => \A i \in DOMAIN v : ~v[i].whole
  BY <1>2, <1>6 DEF Extended
<1> QED
  BY <1>2, <1>3, <1>4, <1>6, <1>7, <1>8 DEF OpeningOK, v

\* The receiver of the media sends a part of REQUEST, its end, or ACCEPT.
LEMMA ReceiverSends ==
    ASSUME ControlInv, NEW c, NEW t, Sends(Receiver, c, t),
           ctx[Receiver].send_state = "initial", c.msg = ctx[Receiver].message_sent,
           t.send_state \in {"initial", "ready"}, t.close_reason = ctx[Receiver].close_reason,
           t.send_state = "initial" => /\ ~c.whole /\ t.left = 1 /\ ctx[Receiver].left = 2
                                       /\ t.message_sent = ctx[Receiver].message_sent,
           t.send_state = "ready" => c.whole
    PROVE  ControlInv'
<1> USE TwoEnds
<1>a. /\ quic[Receiver].open /\ ctx[Receiver].alive /\ ~quic[Receiver].fin
      /\ ~c.fin /\ Sent(ctx[Receiver], t)
      /\ UNCHANGED <<kind, src, rcv, air, closed_with, failure>>
  BY DEF Sends
<1> USE <1>a
<1> DEFINE s == ctx[Receiver]
           w == wire[Receiver]
           v == wire'[Receiver]
<1>1. /\ RoleOK /\ OpeningOK /\ ReceiverSays /\ SenderSays /\ StartOK /\ PolicyOK /\ PointsOK
  BY DEF ControlInv
<1>2. /\ ControlTypeOK' /\ WireOK' /\ UnopenedOK' /\ FinOK' /\ NoProtocolError'
      /\ Sender' = Sender /\ Receiver' = Receiver /\ Opening' = Opening
      /\ \A x : (Opens(x)' <=> Opens(x)) /\ (Announces(x)' <=> Announces(x))
      /\ Extended(v, w, c) /\ wire'[Sender] = wire[Sender]
      /\ ctx'[Receiver] = t /\ ctx'[Sender] = ctx[Sender]
      /\ \A x \in Ends : quic'[x].open = quic[x].open /\ quic'[x].fin = quic[x].fin
      /\ \A i \in DOMAIN w : ~w[i].fin
      /\ \A x \in Ends : ctx'[x].final \in {0, src.final} /\ SkipsNothing(ctx'[x].start)
      /\ \A n : SkipsNothing(n)' = SkipsNothing(n)
      /\ WholeMedia' <=> WholeMedia
  BY MessageFrame
<1>3. Receiving(s) /\ Receiving(t)
  <2>1. Receiving(s)
    BY <1>1, FreshShape DEF RoleOK
  <2> QED
    BY <2>1 DEF Receiving, Sent
<1>4. RoleOK'
  BY <1>1, <1>2, <1>3 DEF RoleOK, Receiving, Sent
<1>5. \/ Receiver = "client" /\ Opens(c)
      \/ /\ Receiver = "server" /\ c.whole /\ c.msg.type = "ACCEPT"
         /\ t.send_state = "ready"
  <2>1. CASE Receiver = "client"
    BY <1>1, <2>1 DEF OpeningOK, Opens
  <2>2. CASE Receiver = "server"
    BY <1>1, <2>2 DEF ReceiverSays
  <2> QED
    BY <2>1, <2>2 DEF Ends
<1>6. OpeningOK'
  <2>1. CASE Receiver = "client" /\ Opens(c)
    BY <2>1, OpeningSent
  <2>2. CASE Receiver = "server"
    <3>1. Sender = "client"
      BY <2>2 DEF Ends
    <3>2. ~Untouched
      BY <2>2, NewShape DEF Untouched
    <3> QED
      BY <1>1, <1>2, <3>1, <3>2 DEF OpeningOK
  <2> QED
    BY <1>5, <2>1, <2>2
<1>7. ReceiverSays'
  <2>1. ctx[Sender].receive_state # "done" /\ \A i \in DOMAIN w : ~w[i].fin /\ ~w[i].whole
    BY <1>1 DEF ReceiverSays
  <2>2. \A i \in DOMAIN w : \/ Receiver = "client" /\ Opens(w[i])
                            \/ Receiver = "server" /\ w[i].whole /\ w[i].msg.type = "ACCEPT"
    BY <1>1, <2>1 DEF ReceiverSays
  <2> HIDE DEF v, w
  <2>3. \A i \in DOMAIN v : \/ Receiver = "client" /\ Opens(v[i])
                            \/ Receiver = "server" /\ v[i].whole /\ v[i].msg.type = "ACCEPT"
    BY <1>2, <1>5, <2>2 DEF Extended
  <2>4. \A i, j \in DOMAIN v : i < j => ~v[i].whole
    BY <1>2, <2>1 DEF Extended
  <2>5. ~c.whole => \A i \in DOMAIN v : ~v[i].fin /\ ~v[i].whole
    BY <1>2, <2>1 DEF Extended
  <2> QED
    BY <1>2, <1>5, <2>1, <2>3, <2>4, <2>5 DEF ReceiverSays, v
<1>8. SenderSays'
  <2>1. \A n : Ready(n)'
    BY <1>2, <1>3 DEF Ready
  <2> QED
    BY <1>1, <1>2, <2>1 DEF SenderSays
<1>9. StartOK' /\ PolicyOK'
  <2>1. NoneOnPost' <=> NoneOnPost
    BY <1>2 DEF NoneOnPost
  <2>2. t.start = s.start /\ t.is_cache_real_time = s.is_cache_real_time
    BY DEF Sent
  <2> QED
    BY <1>1, <1>2, <2>1, <2>2 DEF StartOK, PolicyOK
<1>10. PointsOK'
  BY <1>1, <1>2 DEF PointsOK
<1> QED
  BY <1>2, <1>4, <1>6, <1>7, <1>8, <1>9, <1>10 DEF ControlInv

\* The sender of the media sends a part of POST, or its end.
LEMMA SenderOpens ==
    ASSUME ControlInv, NEW c, NEW t, Sends(Sender, c, t),
           ctx[Sender].send_state = "initial", c.msg = ctx[Sender].message_sent,
           t.send_state \in {"initial", "ready"},
           t.is_start_sent = ctx[Sender].is_start_sent,
           t.is_cache_policy_sent = ctx[Sender].is_cache_policy_sent,
           t.send_state = "initial" => /\ ~c.whole /\ t.left = 1
                                       /\ t.message_sent = ctx[Sender].message_sent,
           t.send_state = "ready" => c.whole
    PROVE  ControlInv'
<1> USE TwoEnds
<1>a. /\ quic[Sender].open /\ ctx[Sender].alive /\ ~quic[Sender].fin
      /\ ~c.fin /\ Sent(ctx[Sender], t)
      /\ UNCHANGED <<kind, src, rcv, air, closed_with, failure>>
  BY DEF Sends
<1> USE <1>a
<1> DEFINE s == ctx[Sender]
           w == wire[Sender]
           v == wire'[Sender]
<1>1. /\ RoleOK /\ OpeningOK /\ ReceiverSays /\ SenderSays /\ StartOK /\ PolicyOK /\ PointsOK
  BY DEF ControlInv
<1>2. /\ ControlTypeOK' /\ WireOK' /\ UnopenedOK' /\ FinOK' /\ NoProtocolError'
      /\ Sender' = Sender /\ Receiver' = Receiver /\ Opening' = Opening
      /\ \A x : (Opens(x)' <=> Opens(x)) /\ (Announces(x)' <=> Announces(x))
      /\ Extended(v, w, c) /\ wire'[Receiver] = wire[Receiver]
      /\ ctx'[Sender] = t /\ ctx'[Receiver] = ctx[Receiver]
      /\ \A x \in Ends : quic'[x].open = quic[x].open /\ quic'[x].fin = quic[x].fin
      /\ \A i \in DOMAIN w : ~w[i].fin
      /\ \A x \in Ends : ctx'[x].final \in {0, src.final} /\ SkipsNothing(ctx'[x].start)
      /\ \A n : SkipsNothing(n)' = SkipsNothing(n)
      /\ WholeMedia' <=> WholeMedia
  BY MessageFrame
<1>3. Sending(s) /\ Sending(t)
  <2>1. Sending(s)
    BY <1>1, FreshShape DEF RoleOK
  <2> QED
    BY <2>1 DEF Sending, Sent
<1>4. Sender = "client" /\ Opening = "POST"
  BY <1>1 DEF RoleOK, Opening, Sender
<1>5. RoleOK'
  BY <1>1, <1>2, <1>3, <1>4 DEF RoleOK, Sent
<1>6. Opens(c) /\ c.msg.type = "POST" /\ \A i \in DOMAIN w : Opens(w[i])
  BY <1>1, <1>4 DEF OpeningOK, Opens
<1>7. OpeningOK'
  BY <1>4, <1>6, OpeningSent
<1> HIDE DEF v, w
<1>8. \A i \in DOMAIN v : /\ Opens(v[i]) /\ v[i].msg.type = "POST" /\ ~v[i].fin
                          /\ (i \in DOMAIN w /\ v[i] = w[i]) \/ v[i] = c
  BY <1>2, <1>4, <1>6 DEF Extended, Opens
<1>9. ReceiverSays'
  BY <1>1, <1>2, <1>4 DEF ReceiverSays, Sent
<1>10. SenderSays'
  <2>1. c.whole => Ready(Len(wire[Sender]) + 1)'
    <3>1. c.whole => /\ Len(v) \in DOMAIN v /\ Len(v) < Len(v) + 1 /\ Opens(v[Len(v)])
                     /\ v[Len(v)].whole
      BY <1>2, <1>6 DEF Extended
    <3> QED
      BY <1>2, <3>1 DEF Ready, v
  <2> QED
    BY <1>2, <1>4, <1>8, <2>1 DEF SenderSays, v
<1>11. \A i \in DOMAIN v : ~IsStart(v[i]) /\ ~IsPolicy(v[i])
  BY <1>8 DEF IsStart, IsPolicy
<1>12. StartOK'
  <2>1. ~s.is_start_sent => c.msg.point = 0 /\ NoneOnPost /\ ctx[Receiver].start = 0
    BY <1>1, <1>3 DEF StartOK
  <2>2. ~s.is_start_sent => NoneOnPost'
    BY <1>2, <1>8, <2>1 DEF NoneOnPost, v, w
  <2> QED
    BY <1>2, <1>11, <2>1, <2>2 DEF StartOK, v
<1>13. PolicyOK'
  BY <1>1, <1>2, <1>3, <1>11 DEF PolicyOK, v
<1>14. PointsOK'
  <2>1. SkipsNothing(c.msg.point)
    BY <1>1 DEF PointsOK
  <2>2. \A i \in DOMAIN v : SkipsNothing(v[i].msg.point)
    BY <1>1, <1>8, <2>1 DEF PointsOK, w
  <2> QED
    BY <1>1, <1>2, <1>8, <2>1, <2>2 DEF PointsOK, v
<1> QED
  BY <1>2, <1>5, <1>7, <1>9, <1>10, <1>12, <1>13, <1>14 DEF ControlInv

\* What a sender announces when it is polled, and its context after that.
Announced(s, m, t) ==
    \/ /\ m.type = "START_POINT" /\ m.point # 0 /\ ~s.is_start_sent /\ t.is_start_sent
       /\ t.is_cache_policy_sent = s.is_cache_policy_sent
       /\ m.point = s.start \/ (s.send_state = "start_point" /\ m = s.message_sent)
    \/ /\ m.type = "FIN_DATAGRAM" /\ m.point = s.final /\ m.point # 0
       /\ t.is_start_sent = s.is_start_sent
       /\ t.is_cache_policy_sent = s.is_cache_policy_sent
    \/ /\ m.type = "CACHE_POLICY" /\ ~s.is_cache_policy_sent /\ t.is_cache_policy_sent
       /\ t.is_start_sent = s.is_start_sent

LEMMA FlagShape ==
    ASSUME NEW s \in StreamContexts
    PROVE  /\ LET t == [s EXCEPT !.is_start_sent = TRUE]
              IN  /\ t \in StreamContexts /\ Sent(s, t) /\ t.send_state = s.send_state
                  /\ t.is_start_sent /\ t.is_cache_policy_sent = s.is_cache_policy_sent
           /\ LET t == [s EXCEPT !.is_final_sent = TRUE]
              IN  /\ t \in StreamContexts /\ Sent(s, t) /\ t.send_state = s.send_state
                  /\ t.is_start_sent = s.is_start_sent
                  /\ t.is_cache_policy_sent = s.is_cache_policy_sent
           /\ LET t == [s EXCEPT !.is_cache_policy_sent = TRUE]
              IN  /\ t \in StreamContexts /\ Sent(s, t) /\ t.send_state = s.send_state
                  /\ t.is_start_sent = s.is_start_sent /\ t.is_cache_policy_sent
BY DEF StreamContexts, Sent

LEMMA AnnouncementShape ==
    ASSUME NEW s \in StreamContexts, Sending(s), s.send_state \in {"ready", "start_point"},
           NEW u, u = Chosen(s), u.send_state # "ready", NEW t, t = AfterMessage(u)
    PROVE  /\ u \in StreamContexts /\ u.left = 1
           /\ t \in StreamContexts /\ Sent(s, t) /\ t.send_state = "ready"
           /\ Announced(s, u.message_sent, t)
<1>1. s.is_sender /\ s.start \in Points /\ s.final \in Points
  BY DEF Sending, StreamContexts
<1>2. \/ u = s /\ s.send_state = "start_point"
      \/ /\ StartPending(s)
         /\ u = Queue(s, "start_point", Message("START_POINT", s.start, FALSE))
      \/ /\ FinalPending(s)
         /\ u = Queue(s, "final_point", Message("FIN_DATAGRAM", s.final, FALSE))
      \/ /\ PolicyPending(s)
         /\ u = Queue(s, "cache_policy", Message("CACHE_POLICY", 0, TRUE))
  <2>1. CASE s.send_state # "ready"
    BY <2>1 DEF Chosen
  <2>2. CASE s.send_state = "ready"
    BY <1>1, <2>2 DEF Chosen
  <2> QED
    BY <2>1, <2>2
<1>3. ASSUME NEW type \in Announcements, NEW p \in Points, NEW pol \in BOOLEAN,
             NEW st \in SendStates, u = Queue(s, st, Message(type, p, pol))
      PROVE  /\ u = [s EXCEPT !.send_state = st, !.message_sent = Message(type, p, pol), !.left = 1]
             /\ Message(type, p, pol) \in Messages
             /\ Message(type, p, pol).type = type /\ Message(type, p, pol).point = p
  BY <1>3 DEF Queue, Message, Messages, MessageTypes, Announcements
<1>4. NoMessage \in Messages
  BY PointsNat DEF NoMessage, Message, Messages, MessageTypes
<1>s. /\ 0 \in 0..2 /\ 1 \in 0..2
      /\ \A x \in {"ready", "start_point", "final_point", "cache_policy"} : x \in SendStates
  BY DEF SendStates
<1> DEFINE r == [u EXCEPT !.send_state = "ready", !.message_sent = NoMessage, !.left = 0]
<1>5. ASSUME u \in StreamContexts
      PROVE  r \in StreamContexts /\ Sent(u, r) /\ r.send_state = "ready"
             /\ r.is_start_sent = u.is_start_sent
             /\ r.is_cache_policy_sent = u.is_cache_policy_sent
             /\ r.is_final_sent = u.is_final_sent
  <2>1. r = [u EXCEPT !.send_state = "ready", !.message_sent = NoMessage, !.left = 0]
    OBVIOUS
  <2> HIDE DEF r
  <2> QED
    <3>1. r \in StreamContexts
      BY <1>4, <1>5, <1>s, <2>1 DEF StreamContexts
    <3>2. Sent(u, r)
      BY <1>5, <2>1 DEF StreamContexts, Sent
    <3> QED
      BY <1>5, <2>1, <3>1, <3>2 DEF StreamContexts
<1>6. t = CASE u.send_state = "final_point" ->
                WithReason([r EXCEPT !.is_final_sent = TRUE], "finished")
            [] u.send_state = "start_point" -> [r EXCEPT !.is_start_sent = TRUE]
            [] u.send_state = "cache_policy" -> [r EXCEPT !.is_cache_policy_sent = TRUE]
            [] OTHER -> r
  BY DEF AfterMessage
<1> HIDE DEF r
<1>7. ASSUME u \in StreamContexts, u.send_state = "start_point"
      PROVE  /\ t \in StreamContexts /\ Sent(u, t) /\ t.send_state = "ready" /\ t.is_start_sent
             /\ t.is_cache_policy_sent = u.is_cache_policy_sent
  <2>1. t = [r EXCEPT !.is_start_sent = TRUE]
    BY <1>6, <1>7
  <2> QED
    <3>1. /\ t \in StreamContexts /\ Sent(r, t) /\ t.send_state = r.send_state
          /\ t.is_start_sent /\ t.is_cache_policy_sent = r.is_cache_policy_sent
      <4>1. r \in StreamContexts
        BY <1>5, <1>7
      <4> QED
        BY <2>1, <4>1 DEF StreamContexts, Sent
    <3> QED
      BY <1>5, <1>7, <3>1 DEF Sent
<1>8. CASE u = s /\ s.send_state = "start_point"
  <2>1. u.left = 1 /\ u.message_sent.type = "START_POINT" /\ u.message_sent.point # 0
        /\ ~s.is_start_sent
    BY <1>8 DEF Sending
  <2> QED
    BY <1>7, <1>8, <2>1 DEF Announced
<1>9. CASE /\ StartPending(s)
           /\ u = Queue(s, "start_point", Message("START_POINT", s.start, FALSE))
  <2> DEFINE m == Message("START_POINT", s.start, FALSE)
  <2>1. /\ u = [s EXCEPT !.send_state = "start_point", !.message_sent = m, !.left = 1]
        /\ m \in Messages /\ m.type = "START_POINT" /\ m.point = s.start
    <3>1. u = Queue(s, "start_point", m)
      BY <1>9
    <3>2. m \in Messages /\ m.type = "START_POINT" /\ m.point = s.start
      BY <1>1 DEF Message, Messages, MessageTypes
    <3> HIDE DEF m
    <3> QED
      BY <3>1, <3>2 DEF Queue
  <2> HIDE DEF m
  <2>2. /\ u \in StreamContexts /\ u.left = 1 /\ u.send_state = "start_point"
        /\ u.message_sent = m /\ Sent(s, u)
        /\ u.is_cache_policy_sent = s.is_cache_policy_sent
    <3>1. u \in StreamContexts
      BY <1>s, <2>1 DEF StreamContexts
    <3>2. Sent(s, u)
      BY <2>1 DEF StreamContexts, Sent
    <3> QED
      BY <2>1, <3>1, <3>2 DEF StreamContexts
  <2>3. Sent(s, t)
    BY <1>7, <2>2 DEF Sent
  <2> QED
    BY <1>7, <1>9, <2>1, <2>2, <2>3 DEF Announced, StartPending
<1>10. CASE /\ FinalPending(s)
            /\ u = Queue(s, "final_point", Message("FIN_DATAGRAM", s.final, FALSE))
  <2> DEFINE m == Message("FIN_DATAGRAM", s.final, FALSE)
             x == [r EXCEPT !.is_final_sent = TRUE]
  <2>1. /\ u = [s EXCEPT !.send_state = "final_point", !.message_sent = m, !.left = 1]
        /\ m \in Messages /\ m.type = "FIN_DATAGRAM" /\ m.point = s.final
    BY <1>1, <1>3, <1>10 DEF Announcements, SendStates
  <2> HIDE DEF m
  <2>2. /\ u \in StreamContexts /\ u.left = 1 /\ u.send_state = "final_point"
        /\ u.message_sent = m /\ Sent(s, u)
        /\ u.is_cache_policy_sent = s.is_cache_policy_sent
        /\ u.is_start_sent = s.is_start_sent
    <3>1. u \in StreamContexts
      BY <1>s, <2>1 DEF StreamContexts
    <3>2. Sent(s, u)
      BY <2>1 DEF StreamContexts, Sent
    <3> QED
      BY <2>1, <3>1, <3>2 DEF StreamContexts
  <2>3. t = WithReason(x, "finished")
    BY <1>6, <2>2
  <2>4. /\ x \in StreamContexts /\ Sent(u, x) /\ x.send_state = "ready"
        /\ x.is_cache_policy_sent = u.is_cache_policy_sent
        /\ x.is_start_sent = u.is_start_sent
    <3>1. /\ x \in StreamContexts /\ Sent(r, x) /\ x.send_state = r.send_state
          /\ x.is_start_sent = r.is_start_sent
          /\ x.is_cache_policy_sent = r.is_cache_policy_sent
      BY <1>5, <2>2, FlagShape
    <3> HIDE DEF x
    <3> QED
      BY <1>5, <2>2, <3>1 DEF Sent
  <2> HIDE DEF x
  <2>5. t \in StreamContexts /\ (t = x \/ t = [x EXCEPT !.close_reason = "finished"])
    BY <2>3, <2>4, ReasonShape DEF Reasons
  <2>6. /\ Sent(u, t) /\ t.send_state = "ready"
        /\ t.is_cache_policy_sent = u.is_cache_policy_sent
        /\ t.is_start_sent = u.is_start_sent
    BY <2>4, <2>5 DEF StreamContexts, Sent
  <2>7. Sent(s, t)
    BY <2>2, <2>6 DEF Sent
  <2> QED
    BY <1>10, <2>1, <2>2, <2>5, <2>6, <2>7 DEF Announced, FinalPending
<1>11. CASE /\ PolicyPending(s)
            /\ u = Queue(s, "cache_policy", Message("CACHE_POLICY", 0, TRUE))
  <2> DEFINE m == Message("CACHE_POLICY", 0, TRUE)
  <2>1. /\ u = [s EXCEPT !.send_state = "cache_policy", !.message_sent = m, !.left = 1]
        /\ m \in Messages /\ m.type = "CACHE_POLICY"
    BY <1>3, <1>11, PointsNat DEF Announcements, SendStates
  <2> HIDE DEF m
  <2>2. /\ u \in StreamContexts /\ u.left = 1 /\ u.send_state = "cache_policy"
        /\ u.message_sent = m /\ Sent(s, u) /\ u.is_start_sent = s.is_start_sent
    <3>1. u \in StreamContexts
      BY <1>s, <2>1 DEF StreamContexts
    <3>2. Sent(s, u)
      BY <2>1 DEF StreamContexts, Sent
    <3> QED
      BY <2>1, <3>1, <3>2 DEF StreamContexts
  <2>3. t = [r EXCEPT !.is_cache_policy_sent = TRUE]
    BY <1>6, <2>2
  <2>4. /\ t \in StreamContexts /\ Sent(u, t) /\ t.send_state = "ready"
        /\ t.is_cache_policy_sent /\ t.is_start_sent = u.is_start_sent
    <3>1. /\ t \in StreamContexts /\ Sent(r, t) /\ t.send_state = r.send_state
          /\ t.is_start_sent = r.is_start_sent /\ t.is_cache_policy_sent
      BY <1>5, <2>2, <2>3, ZenonT(30) DEF StreamContexts, Sent
    <3> QED
      BY <1>5, <2>2, <3>1 DEF Sent
  <2>5. Sent(s, t)
    BY <2>2, <2>4 DEF Sent
  <2> QED
    BY <1>11, <2>1, <2>2, <2>4, <2>5 DEF Announced, PolicyPending
<1> QED
  BY <1>2, <1>8, <1>9, <1>10, <1>11

\* The sender of the media announces something.
LEMMA SenderAnnounces ==
    ASSUME ControlInv, NEW c, NEW t, Sends(Sender, c, t), c.whole, Sending(ctx[Sender]),
           ctx[Sender].send_state \in {"ready", "start_point"},
           t.send_state = "ready", Announced(ctx[Sender], c.msg, t)
    PROVE  ControlInv'
<1> USE TwoEnds
<1>a. /\ quic[Sender].open /\ ctx[Sender].alive /\ ~quic[Sender].fin
      /\ ~c.fin /\ Sent(ctx[Sender], t)
      /\ UNCHANGED <<kind, src, rcv, air, closed_with, failure>>
  BY DEF Sends
<1> USE <1>a
<1> DEFINE s == ctx[Sender]
           w == wire[Sender]
           v == wire'[Sender]
<1>1. /\ RoleOK /\ OpeningOK /\ ReceiverSays /\ SenderSays /\ StartOK /\ PolicyOK /\ PointsOK
  BY DEF ControlInv
<1>2. /\ ControlTypeOK' /\ WireOK' /\ UnopenedOK' /\ FinOK' /\ NoProtocolError'
      /\ Sender' = Sender /\ Receiver' = Receiver /\ Opening' = Opening
      /\ \A x : (Opens(x)' <=> Opens(x)) /\ (Announces(x)' <=> Announces(x))
      /\ Extended(v, w, c) /\ wire'[Receiver] = wire[Receiver]
      /\ ctx'[Sender] = t /\ ctx'[Receiver] = ctx[Receiver]
      /\ \A x \in Ends : quic'[x].open = quic[x].open /\ quic'[x].fin = quic[x].fin
      /\ \A i \in DOMAIN w : ~w[i].fin
      /\ \A x \in Ends : ctx'[x].final \in {0, src.final} /\ SkipsNothing(ctx'[x].start)
      /\ \A n : SkipsNothing(n)' = SkipsNothing(n)
      /\ WholeMedia' <=> WholeMedia
  BY MessageFrame
<1>3. Sending(t)
  BY DEF Sending, Sent
<1>4. Announces(c) /\ ~Opens(c)
  BY DEF Announced, Announces, Announcements, Opens, Opening
<1>5. RoleOK'
  BY <1>1, <1>2, <1>3 DEF RoleOK, Sent
<1> HIDE DEF v, w
<1>6. \A i \in DOMAIN v : (i \in DOMAIN w /\ v[i] = w[i]) \/ (i = Len(v) /\ v[i] = c)
  BY <1>2 DEF Extended
<1>7. OpeningOK'
  <2>1. CASE Sender = "client"
    <3>1. Receiver = "server"
      BY <2>1 DEF Ends
    <3>2. Untouched => Untouched'
      BY <1>2, <2>1, <3>1 DEF Untouched, Sent
    <3>3. \A i \in DOMAIN v : Opens(v[i]) => i \in DOMAIN w /\ v[i] = w[i]
      BY <1>4, <1>6
    <3>4. \A i, j \in DOMAIN v : i < j /\ j \in DOMAIN w => i \in DOMAIN w /\ v[i] = w[i]
      BY <1>2 DEF Extended
    <3>5. \A i, j \in DOMAIN v : i < j /\ Opens(v[j]) => Opens(v[i]) /\ ~v[i].whole
      BY <1>1, <2>1, <3>3, <3>4 DEF OpeningOK, w
    <3> QED
      BY <1>1, <1>2, <2>1, <3>2, <3>3, <3>5 DEF OpeningOK, v, w
  <2>2. CASE Sender = "server"
    <3>1. Receiver = "client"
      BY <2>2 DEF Ends
    <3>2. ~Untouched
      BY <2>2, NewShape DEF Untouched, Sending
    <3> QED
      BY <1>1, <1>2, <3>1, <3>2 DEF OpeningOK
  <2> QED
    BY <2>1, <2>2 DEF Ends
<1>8. ReceiverSays'
  BY <1>1, <1>2 DEF ReceiverSays, Sent
<1>9. SenderSays'
  <2>1. Len(w) \in Nat /\ Len(v) = Len(w) + 1
    BY <1>2 DEF Extended
  <2>2. Ready(Len(v))
    BY <1>1, <2>1 DEF SenderSays, w
  <2>3. ASSUME NEW n, Ready(n) PROVE Ready(n)'
    BY <1>2, <1>6, <2>3 DEF Ready, Extended, v, w
  <2>4. \A i \in DOMAIN v : \/ Sender = "client" /\ Opens(v[i])
                            \/ Announces(v[i]) /\ Ready(i)
    BY <1>1, <1>2, <1>4, <1>6, <2>2 DEF SenderSays, w
  <2>5. Ready(Len(wire[Sender]) + 1)'
    <3>1. \A j \in DOMAIN w : j < Len(v) => j \in DOMAIN v /\ v[j] = w[j] /\ j < Len(v) + 1
      BY <1>2 DEF Extended
    <3> QED
      BY <1>2, <2>2, <3>1 DEF Ready, v, w
  <2> QED
    BY <1>2, <2>3, <2>4, <2>5 DEF SenderSays, v
<1>10. StartOK'
  <2>1. NoneOnPost => NoneOnPost'
    BY <1>2, <1>4, <1>6 DEF NoneOnPost, v, w
  <2>2. IsStart(c) => ~s.is_start_sent /\ t.is_start_sent /\ c.msg.point # 0
    BY DEF Announced, IsStart
  <2>3. ~IsStart(c) => t.is_start_sent = s.is_start_sent
    BY DEF Announced, IsStart
  <2>4. ~s.is_start_sent => /\ ctx[Receiver].start = 0 /\ NoneOnPost
                            /\ \A i \in DOMAIN w : ~IsStart(w[i])
    BY <1>1 DEF StartOK, w
  <2>5. \A i \in DOMAIN w : IsStart(w[i]) =>
            /\ w[i].msg.point # 0 /\ ctx[Receiver].start = 0 /\ NoneOnPost
            /\ \A j \in DOMAIN w : IsStart(w[j]) => j = i
    BY <1>1 DEF StartOK, w
  <2>6. ~t.is_start_sent => \A i \in DOMAIN v : ~IsStart(v[i])
    BY <1>6, <2>2, <2>3, <2>4
  <2>7. \A i \in DOMAIN v : IsStart(v[i]) =>
            /\ v[i].msg.point # 0 /\ ctx[Receiver].start = 0 /\ NoneOnPost
            /\ \A j \in DOMAIN v : IsStart(v[j]) => j = i
    <3>1. CASE IsStart(c)
      BY <1>6, <2>2, <2>4, <3>1
    <3>2. CASE ~IsStart(c)
      BY <1>6, <2>5, <3>2
    <3> QED
      BY <3>1, <3>2
  <2> QED
    BY <1>2, <2>1, <2>2, <2>3, <2>4, <2>6, <2>7 DEF StartOK, v
<1>11. PolicyOK'
  <2>2. IsPolicy(c) => ~s.is_cache_policy_sent /\ t.is_cache_policy_sent
    BY DEF Announced, IsPolicy
  <2>3. ~IsPolicy(c) => t.is_cache_policy_sent = s.is_cache_policy_sent
    BY DEF Announced, IsPolicy
  <2>4. ~s.is_cache_policy_sent => /\ ~ctx[Receiver].is_cache_real_time
                                   /\ \A i \in DOMAIN w : ~IsPolicy(w[i])
    BY <1>1 DEF PolicyOK, w
  <2>5. \A i \in DOMAIN w : IsPolicy(w[i]) =>
            /\ ~ctx[Receiver].is_cache_real_time
            /\ \A j \in DOMAIN w : IsPolicy(w[j]) => j = i
    BY <1>1 DEF PolicyOK, w
  <2>6. ~t.is_cache_policy_sent => \A i \in DOMAIN v : ~IsPolicy(v[i])
    BY <1>6, <2>2, <2>3, <2>4
  <2>7. \A i \in DOMAIN v : IsPolicy(v[i]) =>
            /\ ~ctx[Receiver].is_cache_real_time
            /\ \A j \in DOMAIN v : IsPolicy(v[j]) => j = i
    <3>1. CASE IsPolicy(c)
      BY <1>6, <2>2, <2>4, <3>1
    <3>2. CASE ~IsPolicy(c)
      BY <1>6, <2>5, <3>2
    <3> QED
      BY <3>1, <3>2
  <2> QED
    BY <1>2, <2>2, <2>3, <2>4, <2>6, <2>7 DEF PolicyOK, v
<1>12. PointsOK'
  <2>1. /\ c.msg.type \in {"START_POINT", "POST"} => SkipsNothing(c.msg.point)
        /\ c.msg.type = "FIN_DATAGRAM" => c.msg.point = src.final /\ c.msg.point # 0
    BY <1>1 DEF PointsOK, Announced
  <2>2. \A i \in DOMAIN v :
            /\ v[i].msg.type \in {"START_POINT", "POST"} => SkipsNothing(v[i].msg.point)
            /\ v[i].msg.type = "FIN_DATAGRAM" => v[i].msg.point = src.final /\ v[i].msg.point # 0
    BY <1>1, <1>2, <1>6, <2>1 DEF PointsOK, w
  <2> QED
    BY <1>1, <1>2, <2>2 DEF PointsOK, v
<1> QED
  BY <1>2, <1>5, <1>7, <1>8, <1>9, <1>10, <1>11, <1>12 DEF ControlInv

\* The message that opens the stream, or ACCEPT: a part of it, or its end.
LEMMA UnderWayShape ==
    ASSUME NEW s \in StreamContexts, s.send_state = "initial", s.left \in {1, 2},
           NEW n \in 1..s.left, NEW t,
           t = IF n = s.left THEN AfterMessage(s) ELSE [s EXCEPT !.left = @ - n]
    PROVE  /\ t \in StreamContexts /\ Sent(s, t) /\ t.close_reason = s.close_reason
           /\ t.is_start_sent = s.is_start_sent
           /\ t.is_cache_policy_sent = s.is_cache_policy_sent
           /\ \/ /\ n # s.left /\ t.send_state = "initial" /\ s.left = 2 /\ t.left = 1
                 /\ t.message_sent = s.message_sent
              \/ n = s.left /\ t.send_state = "ready"
<1>1. CASE n = s.left
  <2>1. NoMessage \in Messages
    BY PointsNat DEF NoMessage, Message, Messages, MessageTypes
  <2>2. t = [s EXCEPT !.send_state = "ready", !.message_sent = NoMessage, !.left = 0]
    BY <1>1 DEF AfterMessage
  <2>3. t \in StreamContexts
    <3>1. 0 \in 0..2 /\ "ready" \in SendStates
      BY DEF SendStates
    <3> QED
      BY <2>1, <2>2, <3>1 DEF StreamContexts
  <2>4. Sent(s, t)
    BY <2>2 DEF StreamContexts, Sent
  <2> QED
    BY <1>1, <2>2, <2>3, <2>4 DEF StreamContexts
<1>2. CASE n # s.left
  <2>1. n = 1 /\ s.left = 2 /\ s.left - n = 1
    BY <1>2
  <2>2. t = [s EXCEPT !.left = 1]
    BY <1>2, <2>1 DEF StreamContexts
  <2>3. t \in StreamContexts
    BY <2>2 DEF StreamContexts
  <2>4. Sent(s, t)
    BY <2>2 DEF StreamContexts, Sent
  <2> QED
    BY <1>2, <2>1, <2>2, <2>3, <2>4 DEF StreamContexts
<1> QED
  BY <1>1, <1>2

LEMMA PrepareMessageStep ==
    ASSUME ControlInv, NEW e \in Ends, quic[e].open, ctx[e].alive, ~quic[e].fin,
           NEW n \in 1..2, PrepareMessage(e, n), UNCHANGED <<kind, src, rcv, air, failure>>
    PROVE  ControlInv'
<1> USE TwoEnds
<1> DEFINE s == ctx[e]
           u == Chosen(s)
           c == Chunk(u.message_sent, n = u.left)
           t == IF n = u.left THEN AfterMessage(u) ELSE [u EXCEPT !.left = @ - n]
           b == n < u.left \/ MoreToSend(u)
<1>1. /\ u.send_state \notin {"ready", "fin", "no_more"} /\ n \in 1..u.left
      /\ wire' = [wire EXCEPT ![e] = Append(@, c)]
      /\ ctx' = [ctx EXCEPT ![e] = t]
      /\ \E y \in BOOLEAN : quic' = [quic EXCEPT ![e].active = y]
      /\ UNCHANGED <<kind, src, rcv, air, closed_with, failure>>
  <2>1. b \in BOOLEAN /\ quic' = [quic EXCEPT ![e].active = b]
    BY DEF PrepareMessage
  <2> QED
    BY <2>1 DEF PrepareMessage
<1>2. s \in StreamContexts /\ RoleOK /\ OpeningOK /\ ReceiverSays
  BY SourceShape DEF ControlInv
<1>3. s.send_state # "ready" \/ ~s.is_sender => u = s
  BY DEF Chosen
<1>4. ASSUME u \in StreamContexts
      PROVE  /\ c \in Chunks /\ ~c.fin /\ c.msg = u.message_sent
             /\ c.whole <=> n = u.left
  BY <1>4 DEF Chunk, Chunks, StreamContexts
<1>5. /\ e = Receiver => Receiving(s) \/ Fresh(s)
      /\ e = Sender => Sending(s) \/ Fresh(s)
  BY <1>2 DEF RoleOK
<1> HIDE DEF t, c, u
<1>6. ~Fresh(s)
  BY <1>1, <1>3, FreshShape
<1>7. CASE s.send_state = "initial"
  <2>1. u = s
    BY <1>3, <1>7
  <2>2. s.left \in {1, 2}
    <3>1. CASE e = "client"
      BY <1>2, <1>7, <3>1 DEF OpeningOK
    <3>2. CASE e = "server"
      <4>1. e = Receiver
        BY <1>2, <1>7, <3>2 DEF RoleOK
      <4> QED
        BY <1>2, <1>7, <3>2, <4>1 DEF ReceiverSays
    <3> QED
      BY <3>1, <3>2 DEF Ends
  <2>3. /\ t \in StreamContexts /\ Sent(s, t) /\ t.close_reason = s.close_reason
        /\ t.is_start_sent = s.is_start_sent
        /\ t.is_cache_policy_sent = s.is_cache_policy_sent
        /\ \/ /\ n # s.left /\ t.send_state = "initial" /\ s.left = 2 /\ t.left = 1
              /\ t.message_sent = s.message_sent
           \/ n = s.left /\ t.send_state = "ready"
    <3> HIDE DEF s
    <3>1. t = IF n = s.left THEN AfterMessage(s) ELSE [s EXCEPT !.left = @ - n]
      BY <2>1 DEF t
    <3> QED
      BY <1>1, <1>2, <1>7, <2>1, <2>2, <3>1, UnderWayShape
  <2>4. c \in Chunks /\ ~c.fin /\ c.msg = s.message_sent /\ (c.whole <=> n = s.left)
    BY <1>2, <1>4, <2>1
  <2>5. Sends(e, c, t)
    BY <1>1, <2>3, <2>4 DEF Sends
  <2>6. CASE e = Receiver
    BY <1>7, <2>3, <2>4, <2>5, <2>6, ReceiverSends
  <2>7. CASE e = Sender
    BY <1>7, <2>3, <2>4, <2>5, <2>7, SenderOpens
  <2> QED
    BY <2>6, <2>7
<1>8. CASE s.send_state # "initial"
  <2>1. e = Sender /\ Sending(s)
    BY <1>1, <1>3, <1>5, <1>6, <1>8 DEF Receiving
  <2>2. s.send_state \in {"ready", "start_point"}
    BY <1>1, <1>3, <1>8, <2>1 DEF Sending
  <2> DEFINE a == AfterMessage(u)
  <2>3. /\ u \in StreamContexts /\ u.left = 1 /\ a \in StreamContexts
        /\ Sent(s, a) /\ a.send_state = "ready" /\ Announced(s, u.message_sent, a)
    <3> HIDE DEF s
    <3>1. u = Chosen(s)
      BY DEF u
    <3> QED
      BY <1>1, <1>2, <2>1, <2>2, <3>1, AnnouncementShape
  <2>4. t = a
    BY <1>1, <2>3 DEF t
  <2> HIDE DEF a
  <2>5. c \in Chunks /\ ~c.fin /\ c.msg = u.message_sent /\ c.whole
    BY <1>1, <1>4, <2>3
  <2>6. Sends(e, c, t)
    BY <1>1, <2>3, <2>4, <2>5 DEF Sends
  <2> QED
    BY <2>1, <2>2, <2>3, <2>4, <2>5, <2>6, SenderAnnounces
<1> QED
  BY <1>7, <1>8

LEMMA PrepareStep ==
    ASSUME ControlInv, NEW e \in Ends, Prepare(e)
    PROVE  ControlInv'
<1>1. /\ quic[e].open /\ ctx[e].alive /\ ~quic[e].fin
      /\ UNCHANGED <<kind, src, rcv, air, failure>>
      /\ (\E n \in 1..2 : PrepareMessage(e, n)) \/ PrepareIdle(e) \/ PrepareFin(e)
  BY DEF Prepare
<1>2. CASE \E n \in 1..2 : PrepareMessage(e, n)
  BY <1>1, <1>2, PrepareMessageStep
<1>3. CASE PrepareIdle(e)
  BY <1>1, <1>3, PrepareIdleStep
<1>4. CASE PrepareFin(e)
  BY <1>1, <1>4, PrepareFinStep
<1> QED
  BY <1>1, <1>2, <1>3, <1>4

-----------------------------------------------------------------------------
(* An end gets a chunk.                                                    *)

\* The receiver of the media gets a chunk that is not FIN.
LEMMA ReceiverGets ==
    ASSUME ControlInv, Receive(Receiver), ~Head(wire[Sender]).fin
    PROVE  ControlInv'
<1> USE TwoEnds
<1> DEFINE c == Head(wire[Sender])
<1>1. /\ quic[Receiver].open /\ wire[Sender] # <<>>
      /\ wire' = [wire EXCEPT ![Sender] = Tail(@)]
      /\ UNCHANGED <<kind, air>>
  BY DEF Receive
<1>2. /\ ~Unexpected(Receiver, c)
      /\ \/ /\ Sender = "client" /\ Receiver = "server" /\ Opens(c) /\ Untouched
            /\ c.msg.type = "POST"
         \/ Announces(c) /\ Receiving(ctx[Receiver])
  BY <1>1, NeverUnexpected, NextForReceiver
<1>3. \/ ~c.whole /\ ReceivePart(Receiver)
      \/ c.whole /\ ReceiveMessage(Receiver, c.msg)
  BY <1>2 DEF Receive
<1>4. c \in Chunks
  <2>1. wire[Sender] \in Seq(Chunks)
    BY DEF ControlInv, WireOK
  <2> QED
    BY <1>1, <2>1, TailShifted
<1> HIDE DEF c
<1>5. CASE /\ Sender = "client" /\ Receiver = "server" /\ Opens(c) /\ Untouched
           /\ c.msg.type = "POST"
  <2>1. CASE ~c.whole /\ ReceivePart(Receiver)
    <3>1. ctx' = [ctx EXCEPT !["server"] = NewStream]
      BY <1>5, <2>1, UntouchedFound DEF ReceivePart
    <3> QED
      BY <1>1, <1>5, <2>1, <3>1, ReceivePartStep DEF ReceivePart, c
  <2>2. CASE c.whole /\ ReceiveMessage(Receiver, c.msg)
    <3>1. ReceivePost("server", c.msg)
      BY <1>5, <2>2 DEF ReceiveMessage
    <3> QED
      BY <1>1, <1>4, <1>5, <2>2, <3>1, ReceivePostStep DEF c
  <2> QED
    BY <1>3, <2>1, <2>2
<1>6. CASE Announces(c) /\ Receiving(ctx[Receiver])
  <2>1. ~c.fin /\ c.msg.type \in Announcements /\ ReceiveMessage(Receiver, c.msg)
    BY <1>3, <1>6 DEF Announces
  <2>2. CASE c.msg.type = "START_POINT"
    <3>1. ReceiveStartPoint(Receiver, c.msg) /\ IsStart(c)
      BY <2>1, <2>2 DEF ReceiveMessage, IsStart
    <3> QED
      BY <1>1, <1>4, <1>6, <3>1, ReceiveStartPointStep DEF c
  <2>3. CASE c.msg.type = "FIN_DATAGRAM"
    <3>1. ReceiveFinalPoint(Receiver, c.msg)
      BY <2>1, <2>3 DEF ReceiveMessage
    <3> QED
      BY <1>1, <1>4, <1>6, <2>1, <2>3, <3>1, ReceiveFinalPointStep DEF c
  <2>4. CASE c.msg.type = "CACHE_POLICY"
    <3>1. ReceiveCachePolicy(Receiver, c.msg) /\ IsPolicy(c)
      BY <2>1, <2>4 DEF ReceiveMessage, IsPolicy
    <3> QED
      BY <1>1, <1>4, <1>6, <3>1, ReceiveCachePolicyStep DEF c
  <2> QED
    BY <2>1, <2>2, <2>3, <2>4 DEF Announcements
<1> QED
  BY <1>2, <1>5, <1>6

\* The sender of the media gets a chunk that is not FIN.
LEMMA SenderGets ==
    ASSUME ControlInv, Receive(Sender), ~Head(wire[Receiver]).fin
    PROVE  ControlInv'
<1> USE TwoEnds
<1> DEFINE c == Head(wire[Receiver])
<1>1. /\ quic[Sender].open /\ wire[Receiver] # <<>>
      /\ wire' = [wire EXCEPT ![Receiver] = Tail(@)]
      /\ UNCHANGED <<kind, air>>
  BY DEF Receive
<1>2. /\ ~Unexpected(Sender, c)
      /\ \/ /\ Receiver = "client" /\ Sender = "server" /\ Opens(c) /\ Untouched
            /\ c.msg.type = "REQUEST" /\ kind = "request"
         \/ /\ Receiver = "server" /\ Sender = "client"
            /\ c.whole /\ c.msg.type = "ACCEPT" /\ ctx[Sender].receive_state # "done"
  BY <1>1, NeverUnexpected, NextForSender
<1>3. \/ ~c.whole /\ ReceivePart(Sender)
      \/ c.whole /\ ReceiveMessage(Sender, c.msg)
  BY <1>2 DEF Receive
<1>4. c \in Chunks
  <2>1. wire[Receiver] \in Seq(Chunks)
    BY DEF ControlInv, WireOK
  <2> QED
    BY <1>1, <2>1, TailShifted
<1>5. ~c.fin
  OBVIOUS
<1> HIDE DEF c
<1>6. CASE /\ Receiver = "client" /\ Sender = "server" /\ Opens(c) /\ Untouched
           /\ c.msg.type = "REQUEST" /\ kind = "request"
  <2>1. Found("server") = NewStream
    BY <1>6, UntouchedFound
  <2>2. CASE ~c.whole /\ ReceivePart(Sender)
    <3>1. ctx' = [ctx EXCEPT !["server"] = NewStream]
      BY <1>6, <2>1, <2>2 DEF ReceivePart
    <3> QED
      BY <1>1, <1>6, <2>2, <3>1, ReceivePartStep DEF ReceivePart, c
  <2>3. CASE c.whole /\ ReceiveRequest("server", c.msg)
    BY <1>1, <1>4, <1>6, <2>3, ReceiveRequestStep DEF c
  <2>4. CASE c.whole /\ Fail("server", "no_source")
    <3>1. ctx' = [ctx EXCEPT !["server"] = NewStream]
      BY <2>1, <2>4 DEF Fail
    <3> QED
      BY <1>1, <1>6, <2>4, <3>1, ReceivePartStep DEF Fail, c
  <2>5. c.whole => ReceiveRequest("server", c.msg) \/ Fail("server", "no_source")
    BY <1>3, <1>6 DEF ReceiveMessage
  <2> QED
    BY <1>3, <2>2, <2>3, <2>4, <2>5
<1>7. CASE /\ Receiver = "server" /\ Sender = "client"
           /\ c.whole /\ c.msg.type = "ACCEPT" /\ ctx[Sender].receive_state # "done"
  <2>1. ReceiveAccept("client", c.msg)
    BY <1>3, <1>7 DEF ReceiveMessage
  <2> QED
    BY <1>1, <1>5, <1>7, <2>1, ReceiveAcceptStep DEF c
<1> QED
  BY <1>2, <1>6, <1>7

LEMMA ReceiveStep ==
    ASSUME ControlInv, NEW e \in Ends, Receive(e)
    PROVE  ControlInv'
<1> USE TwoEnds
<1>1. CASE Head(wire[Peer(e)]).fin
  <2>1. /\ quic[e].open /\ wire[Peer(e)] # <<>> /\ ReceiveFin(e)
        /\ wire' = [wire EXCEPT ![Peer(e)] = Tail(@)]
        /\ UNCHANGED <<kind, air>>
    BY <1>1 DEF Receive
  <2> QED
    BY <1>1, <2>1, ReceiveFinStep
<1>2. CASE ~Head(wire[Peer(e)]).fin
  BY <1>2, ReceiverGets, SenderGets
<1> QED
  BY <1>1, <1>2

-----------------------------------------------------------------------------
(* The invariant and what follows from it.                                 *)

LEMMA NextHolds == ControlInv /\ [ControlNext]_vars => ControlInv'
<1> SUFFICES ASSUME ControlInv, [ControlNext]_vars
             PROVE  ControlInv'
  OBVIOUS
<1>1. CASE \E i \in Intents : SubscribeMedia(i)
  BY <1>1, SubscribeMediaStep
<1>2. CASE PostMedia
  BY <1>2, PostMediaStep
<1>3. CASE Abandon
  BY <1>3, AbandonStep
<1>4. CASE PublishObject
  BY <1>4, PublishObjectStep
<1>5. CASE LearnStart
  BY <1>5, LearnStartStep
<1>6. CASE SetRealTime
  BY <1>6, SetRealTimeStep
<1>7. CASE LearnEnd
  BY <1>7, LearnEndStep
<1>8. CASE \E k \in Points : SendMedia(k)
  BY <1>8, SendMediaStep
<1>9. CASE \E k \in Points : ReceiveMedia(k)
  BY <1>9, ReceiveMediaStep
<1>10. CASE \E e \in Ends : Prepare(e)
  BY <1>10, PrepareStep
<1>11. CASE \E e \in Ends : Receive(e)
  BY <1>11, ReceiveStep
<1>12. CASE \E e \in Ends : Close(e)
  BY <1>12, CloseStep
<1>13. CASE UNCHANGED vars
  <2>1. UNCHANGED <<kind, ctx, quic, wire, src, rcv, air, closed_with, failure>>
    BY <1>13 DEF vars
  <2>2. /\ ControlTypeOK /\ WireOK /\ UnopenedOK /\ FinOK /\ RoleOK /\ OpeningOK
        /\ ReceiverSays /\ SenderSays /\ StartOK /\ PolicyOK /\ PointsOK
        /\ NoProtocolError
    BY DEF ControlInv
  <2>3. Sender' = Sender /\ Receiver' = Receiver /\ Opening' = Opening
    BY <2>1 DEF Sender, Receiver, Opening
  <2>4. ControlTypeOK' /\ UnopenedOK' /\ WireOK' /\ NoProtocolError'
    BY <2>1, <2>2 DEF ControlTypeOK, UnopenedOK, WireOK, NoProtocolError
  <2>5. FinOK' /\ RoleOK'
    BY <2>1, <2>2, <2>3 DEF FinOK, FinAt, RoleOK
  <2>6. OpeningOK' /\ ReceiverSays' /\ SenderSays'
    BY <2>1, <2>2, <2>3 DEF OpeningOK, Untouched, ReceiverSays, SenderSays, Ready, Opens, Announces
  <2>7. StartOK' /\ PolicyOK' /\ PointsOK'
    BY <2>1, <2>2, <2>3 DEF StartOK, PolicyOK, PointsOK, NoneOnPost, IsStart, IsPolicy, Opens,
          SkipsNothing, WholeMedia, Objects
  <2> QED
    BY <2>4, <2>5, <2>6, <2>7 DEF ControlInv
<1> QED
  BY <1>1, <1>2, <1>3, <1>4, <1>5, <1>6, <1>7, <1>8, <1>9, <1>10, <1>11, <1>12, <1>13
     DEF ControlNext

\* The two ends of a control stream and what is on the way between them always
\* agree: who sends and who receives, what of the opening message, the start point
\* and the policy has been told, and which end has given FIN.
THEOREM ControlInvariantHolds == ControlSpec => []ControlInv
BY InitHolds, NextHolds, PTL DEF ControlSpec

\* Stream contexts, chunks, source and consumer keep their types.
THEOREM ControlTypeCorrect == ControlSpec => []ControlTypeOK
<1>1. ControlInv => ControlTypeOK
  BY DEF ControlInv
<1> QED
  BY <1>1, ControlInvariantHolds, PTL

\* No order of calls, polls, messages and objects makes an end send a message that
\* quicrq_receive_stream_data of the other end answers with -1.
THEOREM NeverProtocolError == ControlSpec => []NoProtocolError
<1>1. ControlInv => NoProtocolError
  BY DEF ControlInv
<1> QED
  BY <1>1, ControlInvariantHolds, PTL

\* quicrq_delete_stream_ctx is never called while a chunk for the context is still
\* to come, which quicrq_callback would take for a new stream.
THEOREM NeverOrphanData == ControlSpec => []NoOrphanData
<1>1. ControlInv => NoOrphanData
  BY DEF ControlInv, FinOK, FinAt, NoOrphanData
<1> QED
  BY <1>1, ControlInvariantHolds, PTL

\* A receiver reports its media as finished only when it holds all the objects that
\* the source published from its start point on, and the source has ended.
THEOREM FinishedMeansWhole == ControlSpec => []FinishedIsWhole
<1>1. ControlInv => FinishedIsWhole
  BY DEF ControlInv, PointsOK, WholeMedia, FinishedIsWhole
<1> QED
  BY <1>1, ControlInvariantHolds, PTL

-----------------------------------------------------------------------------
(* What keeps the stream going.                                            *)

\* The types that the following lemmas use.
LEMMA LiveShape ==
    ASSUME ControlInv
    PROVE  /\ ctx \in [Ends -> StreamContexts] /\ quic \in [Ends -> QuicViews]
           /\ wire \in [Ends -> Seq(Chunks)]
           /\ closed_with \in [Ends -> Reasons \cup {"none"}]
           /\ src \in SourceRecords
BY SourceShape DEF ControlInv, WireOK, ControlTypeOK, SourceRecords

\* What is on the way stays there when chunks are added to the streams.
OnTheWayKept ==
    /\ StartOnTheWay => StartOnTheWay'
    /\ \A e \in Ends : FinOnTheWay(e) => FinOnTheWay(e)'
    /\ \A e \in Ends, type \in MessageTypes : OnTheWay(e, type) => OnTheWay(e, type)'

LEMMA GrowingKeeps ==
    ASSUME kind' = kind,
           \A e \in Ends : \A i \in DOMAIN wire[e] :
                i \in DOMAIN wire'[e] /\ wire'[e][i] = wire[e][i]
    PROVE  OnTheWayKept
<1>1. Sender' = Sender /\ Sender \in Ends
  BY DEF Sender, Ends
<1>2. StartOnTheWay => StartOnTheWay'
  BY <1>1 DEF StartOnTheWay
<1>3. ASSUME NEW e \in Ends
      PROVE  FinOnTheWay(e) => FinOnTheWay(e)'
  BY DEF FinOnTheWay
<1>4. ASSUME NEW e \in Ends, NEW type \in MessageTypes
      PROVE  OnTheWay(e, type) => OnTheWay(e, type)'
  BY DEF OnTheWay
<1> QED
  BY <1>2, <1>3, <1>4 DEF OnTheWayKept

\* Only the chunk c at the head of the stream of end d is taken from the way.
TakenFrom(d, c) ==
    /\ StartOnTheWay =>
         \/ StartOnTheWay'
         \/ /\ d = Sender /\ ~c.fin /\ c.whole
            /\ c.msg.type \in {"START_POINT", "POST"} /\ c.msg.point # 0
    /\ \A e \in Ends : FinOnTheWay(e) => FinOnTheWay(e)' \/ (e = d /\ c.fin)
    /\ \A e \in Ends, type \in MessageTypes :
         OnTheWay(e, type) =>
            \/ OnTheWay(e, type)'
            \/ e = d /\ ~c.fin /\ c.whole /\ c.msg.type = type

LEMMA TakingKeeps ==
    ASSUME kind' = kind, wire \in [Ends -> Seq(Chunks)], NEW d \in Ends,
           wire[d] # <<>>, wire' = [wire EXCEPT ![d] = Tail(@)],
           NEW c, c = Head(wire[d])
    PROVE  TakenFrom(d, c)
<1>1. Sender' = Sender /\ Sender \in Ends
  BY DEF Sender, Ends
<1>2. \A e \in Ends : e # d => wire'[e] = wire[e]
  OBVIOUS
<1>3. wire'[d] = Tail(wire[d]) /\ wire[d] \in Seq(Chunks)
  OBVIOUS
<1>4. ASSUME NEW i \in DOMAIN wire[d]
      PROVE  wire[d][i] = c \/ \E j \in DOMAIN wire'[d] : wire'[d][j] = wire[d][i]
  <2>1. i \in 1..Len(wire[d]) /\ Len(wire[d]) \in Nat
    BY <1>3
  <2>2. CASE i = 1
    BY <2>2
  <2>3. CASE i # 1
    <3>1. i - 1 \in 1..Len(Tail(wire[d])) /\ Tail(wire[d])[i - 1] = wire[d][i]
      BY <1>3, <2>1, <2>3
    <3>2. i - 1 \in DOMAIN Tail(wire[d])
      BY <1>3, <3>1
    <3> QED
      BY <1>3, <3>1, <3>2
  <2> QED
    BY <2>2, <2>3
<1>5. ASSUME NEW e \in Ends
      PROVE  FinOnTheWay(e) => FinOnTheWay(e)' \/ (e = d /\ c.fin)
  <2>1. CASE e = d
    BY <1>4, <2>1 DEF FinOnTheWay
  <2>2. CASE e # d
    BY <1>2, <2>2 DEF FinOnTheWay
  <2> QED
    BY <2>1, <2>2
<1>6. ASSUME NEW e \in Ends, NEW type \in MessageTypes
      PROVE  OnTheWay(e, type) =>
                \/ OnTheWay(e, type)'
                \/ e = d /\ ~c.fin /\ c.whole /\ c.msg.type = type
  <2>1. CASE e = d
    BY <1>4, <2>1 DEF OnTheWay
  <2>2. CASE e # d
    BY <1>2, <2>2 DEF OnTheWay
  <2> QED
    BY <2>1, <2>2
<1>7. StartOnTheWay =>
         \/ StartOnTheWay'
         \/ /\ d = Sender /\ ~c.fin /\ c.whole
            /\ c.msg.type \in {"START_POINT", "POST"} /\ c.msg.point # 0
  <2> SUFFICES ASSUME StartOnTheWay
               PROVE  \/ StartOnTheWay'
                      \/ /\ d = Sender /\ ~c.fin /\ c.whole
                         /\ c.msg.type \in {"START_POINT", "POST"} /\ c.msg.point # 0
    OBVIOUS
  <2>1. PICK i \in DOMAIN wire[Sender] :
            /\ ~wire[Sender][i].fin /\ wire[Sender][i].whole
            /\ wire[Sender][i].msg.type \in {"START_POINT", "POST"}
            /\ wire[Sender][i].msg.point # 0
    BY DEF StartOnTheWay
  <2>2. CASE d # Sender
    BY <1>1, <1>2, <2>1, <2>2 DEF StartOnTheWay
  <2>3. CASE d = Sender
    <3>1. CASE wire[d][i] = c
      BY <2>1, <2>3, <3>1
    <3>2. CASE \E j \in DOMAIN wire'[d] : wire'[d][j] = wire[d][i]
      BY <1>1, <2>1, <2>3, <3>2 DEF StartOnTheWay
    <3> QED
      BY <1>4, <2>3, <3>1, <3>2
  <2> QED
    BY <2>2, <2>3
<1> QED
  BY <1>5, <1>6, <1>7 DEF TakenFrom

\* The prime of what an end says, from its new context and view.
LEMMA LiveAtKept ==
    ASSUME NEW e \in Ends, LiveAt(e), ctx'[e] = ctx[e], quic'[e] = quic[e],
           Gone(e)' <=> Gone(e)
    PROVE  LiveAt(e)'
BY DEF LiveAt, PollAt, Polled, StartPending, PolicyPending, FinalPending

\* Marking a stream active has no effect once FIN was given, and effect before.
LEMMA MarkedActive ==
    ASSUME NEW q \in QuicViews, NEW on \in BOOLEAN
    PROVE  /\ Marked(q, on) \in QuicViews
           /\ Marked(q, on).open = q.open /\ Marked(q, on).fin = q.fin
           /\ Marked(q, on).active <=> on /\ ~q.fin
<1> DEFINE b == on /\ ~q.fin
<1>1. b \in BOOLEAN
  OBVIOUS
<1>2. Marked(q, on) = [q EXCEPT !.active = b]
  BY DEF Marked
<1> HIDE DEF b
<1>3. Marked(q, on).active = b
  BY <1>1, <1>2 DEF QuicViews
<1>4. Marked(q, on).active <=> on /\ ~q.fin
  BY <1>3 DEF b
<1> QED
  BY <1>4, MarkedShape


\* t says no more than s did, and keeps what it told: a step of the source
\* changes only the start point, the final point and the policy.
LEMMA SourceLive ==
    ASSUME ControlInv, LiveInv, UNCHANGED <<kind, wire, rcv, closed_with>>,
           ctx'[Receiver] = ctx[Receiver], quic'[Receiver] = quic[Receiver],
           Alike(ctx[Sender], ctx'[Sender]),
           ctx'[Sender].is_final_sent = ctx[Sender].is_final_sent,
           ctx'[Sender].is_local_finished = ctx[Sender].is_local_finished,
           quic'[Sender].open = quic[Sender].open, quic'[Sender].fin = quic[Sender].fin,
           quic'[Sender].active => ~quic[Sender].fin,
           ctx[Sender].alive => Polled(ctx'[Sender], quic'[Sender]),
           ctx[Sender].start # 0 => ctx'[Sender].start # 0,
           Sending(ctx[Sender]) /\ ctx[Sender].receive_state = "done" =>
                ctx'[Sender].final = src'.final,
           ctx[Sender].is_final_sent => src'.final = src.final /\ ctx'[Sender].final = ctx[Sender].final
    PROVE  LiveInv'
<1> USE TwoEnds
<1> DEFINE s == ctx[Sender]
           t == ctx'[Sender]
<1>1. Sender' = Sender /\ Receiver' = Receiver
  BY DEF Sender, Receiver
<1>2. LiveAt(Sender) /\ LiveAt(Receiver) /\ FinTold(Sender) /\ FinTold(Receiver)
  BY DEF LiveInv
<1>3. StartTold /\ FinalTold /\ AcceptTold /\ SenderStays
  BY DEF LiveInv
<1>4. \A e \in Ends : Gone(e)' <=> Gone(e)
  BY DEF Gone
<1>5. OnTheWayKept
  BY GrowingKeeps
<1>6. LiveAt(Receiver)'
  BY <1>1, <1>2, <1>4, LiveAtKept
<1>7. LiveAt(Sender)'
  <2>1. PollAt(Sender)
    BY <1>2 DEF LiveAt
  <2>2. PollAt(Sender)'
    BY <1>1, <1>4, <2>1 DEF PollAt, Alike
  <2> QED
    BY <1>1, <2>2 DEF LiveAt, Alike
<1>8. FinTold(Sender)' /\ FinTold(Receiver)'
  BY <1>1, <1>2, <1>4, <1>5 DEF FinTold, OnTheWayKept, Alike
<1>9. StartTold'
  BY <1>1, <1>3, <1>4, <1>5 DEF StartTold, OnTheWayKept, Alike, Sending
<1>10. FinalTold'
  <2>1. OnTheWay(Sender, "FIN_DATAGRAM") => OnTheWay(Sender, "FIN_DATAGRAM")'
    BY <1>1, <1>5 DEF OnTheWayKept, MessageTypes
  <2> QED
    BY <1>1, <1>3, <1>4, <2>1 DEF FinalTold, Alike, Sending
<1>11. AcceptTold'
  <2>1. /\ ctx'["client"].alive = ctx["client"].alive
        /\ ctx'["client"].send_state = ctx["client"].send_state
        /\ ctx'["client"].receive_state = ctx["client"].receive_state
        /\ ctx'["server"].send_state = ctx["server"].send_state
    BY DEF Alike
  <2>2. /\ OnTheWay("client", "POST") => OnTheWay("client", "POST")'
        /\ OnTheWay("server", "ACCEPT") => OnTheWay("server", "ACCEPT")'
    BY <1>5 DEF OnTheWayKept, MessageTypes
  <2> QED
    BY <1>3, <1>4, <2>1, <2>2 DEF AcceptTold
<1>12. SenderStays'
  BY <1>1, <1>3 DEF SenderStays, Alike, Sending
<1> QED
  BY <1>1, <1>6, <1>7, <1>8, <1>9, <1>10, <1>11, <1>12 DEF LiveInv

\* A stream that is marked active for s, or closed by it, is polled for what it
\* has to say.
LEMMA MarkedPolled ==
    ASSUME NEW q \in QuicViews, NEW t \in StreamContexts,
           q.fin => \/ t.send_state = "no_more"
                    \/ t.send_state = "fin" /\ t.is_local_finished
    PROVE  Polled(t, Marked(q, TRUE))
<1>1. Marked(q, TRUE).active <=> ~q.fin
  BY MarkedActive
<1> QED
  BY <1>1 DEF Polled

\* The stream that quicrq_source_wakeup wakes is polled if it has something new.
LEMMA WakePolled ==
    ASSUME NEW q \in QuicViews, NEW s \in StreamContexts, NEW source \in SourceRecords,
           q.fin => \/ s.send_state = "no_more"
                    \/ s.send_state = "fin" /\ s.is_local_finished,
           q.active => ~q.fin,
           NEW t, t = WakeupCopied(s, source),
           NEW r, r = WakeupMarked(s, q, source)
    PROVE  /\ Alike(s, t) /\ t.is_final_sent = s.is_final_sent
           /\ t.is_local_finished = s.is_local_finished
           /\ t.start = s.start /\ t.is_cache_real_time = s.is_cache_real_time
           /\ r \in QuicViews /\ r.open = q.open /\ r.fin = q.fin
           /\ r.active => ~q.fin
           /\ Polled(s, q) => Polled(t, r)
           /\ s.send_state = "ready" => Polled(t, r)
           /\ t.final = IF ~s.is_final_sent /\ s.media_source /\ source.final # 0
                        THEN source.final ELSE s.final
<1>0. source.final \in Points
  BY DEF SourceRecords
<1>1. t = s \/ t = [s EXCEPT !.final = source.final]
  BY DEF WakeupCopied
<1>2. /\ t \in StreamContexts /\ Alike(s, t) /\ t.is_final_sent = s.is_final_sent
      /\ t.is_local_finished = s.is_local_finished
      /\ t.start = s.start /\ t.is_cache_real_time = s.is_cache_real_time
  <2>1. CASE t = s
    BY <2>1 DEF Alike
  <2>2. CASE t = [s EXCEPT !.final = source.final]
    BY <1>0, <2>2 DEF StreamContexts, Alike
  <2> QED
    BY <1>1, <2>1, <2>2
<1>3. t.final = IF ~s.is_final_sent /\ s.media_source /\ source.final # 0
                THEN source.final ELSE s.final
  BY DEF WakeupCopied, StreamContexts
<1>4. \/ r = Marked(q, TRUE)
      \/ r = q /\ ~StartPending(t) /\ ~PolicyPending(t) /\ ~FinalPending(t)
  BY DEF WakeupMarked
<1>5. CASE r = Marked(q, TRUE)
  <2>1. Polled(t, r)
    BY <1>2, <1>5, MarkedPolled DEF Alike
  <2>2. r \in QuicViews /\ r.open = q.open /\ r.fin = q.fin /\ (r.active => ~q.fin)
    <3>1. /\ Marked(q, TRUE) \in QuicViews
          /\ Marked(q, TRUE).open = q.open /\ Marked(q, TRUE).fin = q.fin
      BY MarkedActive
    <3>2. Marked(q, TRUE).active => ~q.fin
      BY MarkedActive
    <3> QED
      BY <1>5, <3>1, <3>2
  <2> QED
    BY <1>2, <1>3, <2>1, <2>2
<1>6. CASE r = q /\ ~StartPending(t) /\ ~PolicyPending(t) /\ ~FinalPending(t)
  <2>1. Polled(s, q) => Polled(t, r)
    BY <1>2, <1>6 DEF Polled, Alike
  <2>2. s.send_state = "ready" => Polled(t, r)
    BY <1>2, <1>6 DEF Polled, Alike
  <2> QED
    BY <1>2, <1>3, <1>6, <2>1, <2>2
<1> QED
  BY <1>4, <1>5, <1>6

\* In terms of one end: FIN was given by a context that closes or has closed.
LEMMA FinGiven ==
    ASSUME LiveInv, NEW e \in Ends, quic[e].fin, ~Gone(e)
    PROVE  /\ ctx[e].alive /\ ctx[e].is_local_finished
           /\ \/ ctx[e].send_state = "no_more"
              \/ ctx[e].send_state = "fin" /\ ctx[e].is_local_finished
BY DEF LiveInv, LiveAt, PollAt

\* A context that is alive is not gone.
LEMMA AliveStays ==
    ASSUME ControlInv, NEW e \in Ends, ctx[e].alive
    PROVE  ~Gone(e) /\ quic[e].open
BY DEF ControlInv, FinOK, FinAt, Gone


\* What the wake-up of the stream by its source needs of the source.
LEMMA WakeupLive ==
    ASSUME ControlInv, LiveInv, UNCHANGED <<kind, wire, rcv, closed_with>>,
           src' \in SourceRecords, SourceWakeup(src'),
           src'.final # 0 \/ src'.final = src.final,
           ctx[Sender].is_final_sent => src'.final = src.final
    PROVE  LiveInv'
<1> USE TwoEnds
<1> DEFINE s == ctx[Sender]
           q == quic[Sender]
<1>1. ctx \in [Ends -> StreamContexts] /\ quic \in [Ends -> QuicViews]
  BY LiveShape
<1>2. LiveAt(Sender) /\ FinalTold /\ PointsOK /\ RoleOK
  BY DEF LiveInv, ControlInv
<1>3. q.active => ~q.fin
  BY <1>2 DEF LiveAt, PollAt
<1>4. s.media_source => s.alive
  BY NoShape DEF ControlInv, FinOK, FinAt
<1>5. CASE s.media_source
  <2>1. PICK t, r : t = WakeupCopied(s, src') /\ r = WakeupMarked(s, q, src')
    OBVIOUS
  <2>2. /\ ctx' = [ctx EXCEPT ![Sender] = t] /\ quic' = [quic EXCEPT ![Sender] = r]
    BY <1>5, <2>1 DEF SourceWakeup
  <2>3. ~Gone(Sender)
    BY <1>4, <1>5, AliveStays
  <2>4. q.fin => s.send_state = "no_more" \/ (s.send_state = "fin" /\ s.is_local_finished)
    BY <2>3, FinGiven
  <2>5. /\ Alike(s, t) /\ t.is_final_sent = s.is_final_sent
        /\ t.is_local_finished = s.is_local_finished /\ t.start = s.start
        /\ r \in QuicViews /\ r.open = q.open /\ r.fin = q.fin
        /\ r.active => ~q.fin
        /\ Polled(s, q) => Polled(t, r)
        /\ t.final = IF ~s.is_final_sent /\ s.media_source /\ src'.final # 0
                     THEN src'.final ELSE s.final
    <3>1. PICK source \in SourceRecords : source = src'
      OBVIOUS
    <3> QED
      BY <1>1, <1>3, <2>1, <2>4, <3>1, WakePolled
  <2>6. /\ ctx'[Sender] = t /\ ctx'[Receiver] = ctx[Receiver]
        /\ quic'[Sender] = r /\ quic'[Receiver] = quic[Receiver]
    BY <1>1, <2>2
  <2>7. Polled(t, r)
    BY <1>2, <1>4, <1>5, <2>5 DEF LiveAt
  <2>8. Sending(s) /\ s.receive_state = "done" => t.final = src'.final
    BY <1>2, <1>5, <2>5 DEF FinalTold
  <2>9. s.is_final_sent => t.final = s.final
    BY <2>5
  <2> QED
    BY <2>5, <2>6, <2>7, <2>8, <2>9, SourceLive
<1>6. CASE ~s.media_source
  <2>1. ctx' = ctx /\ quic' = quic
    BY <1>6 DEF SourceWakeup
  <2>2. s.alive => Polled(s, q)
    BY <1>2 DEF LiveAt
  <2>3. ~Sending(s)
    BY <1>6 DEF Sending
  <2> QED
    BY <1>3, <2>1, <2>2, <2>3, SourceLive DEF Alike
<1> QED
  BY <1>5, <1>6

LEMMA PublishObjectLive ==
    ASSUME ControlInv, LiveInv, PublishObject
    PROVE  LiveInv'
<1>1. /\ src.cached < MaxObjects /\ src' = [src EXCEPT !.cached = @ + 1]
      /\ SourceWakeup(src') /\ UNCHANGED <<kind, wire, rcv, closed_with>>
  BY DEF PublishObject
<1>2. src \in SourceRecords
  BY LiveShape
<1>3. src.cached + 1 \in 0..MaxObjects
  BY <1>1, <1>2, ControlAssumption DEF SourceRecords
<1>4. src' \in SourceRecords /\ src'.final = src.final
  BY <1>1, <1>2, <1>3 DEF SourceRecords
<1> QED
  BY <1>1, <1>4, WakeupLive

LEMMA LearnEndLive ==
    ASSUME ControlInv, LiveInv, LearnEnd
    PROVE  LiveInv'
<1>1. /\ ~src.ended
      /\ src' = [src EXCEPT !.ended = TRUE, !.final = src.origin + src.cached]
      /\ SourceWakeup(src') /\ UNCHANGED <<kind, wire, rcv, closed_with>>
  BY DEF LearnEnd
<1>2. src \in SourceRecords /\ src.final = 0
  BY <1>1, LiveShape DEF ControlInv, PointsOK
<1>3. src.origin + src.cached \in Points
  <2>1. src.origin \in 0..MaxStart /\ src.cached \in 0..MaxObjects
    BY <1>2, ControlAssumption DEF SourceRecords
  <2> QED
    BY <2>1, ControlAssumption DEF Points
<1>4. src' \in SourceRecords /\ src'.final = src.origin + src.cached
  BY <1>1, <1>2, <1>3 DEF SourceRecords
<1>5. src'.final # 0 \/ src'.final = src.final
  BY <1>2
<1>6. ~ctx[Sender].is_final_sent
  BY <1>2 DEF LiveInv, FinalTold
<1> QED
  BY <1>1, <1>4, <1>5, <1>6, WakeupLive

\* quicrq_fragment_cache_learn_start_point and _set_real_time_cache mark the
\* stream active whatever it does.
LEMMA SourceMarksLive ==
    ASSUME ControlInv, LiveInv, UNCHANGED <<kind, wire, rcv, closed_with>>,
           src'.final = src.final,
           NEW t \in StreamContexts, Alike(ctx[Sender], t),
           t.is_final_sent = ctx[Sender].is_final_sent,
           t.is_local_finished = ctx[Sender].is_local_finished,
           t.final = ctx[Sender].final, ctx[Sender].start # 0 => t.start # 0,
           \/ /\ ctx[Sender].media_source /\ ctx' = [ctx EXCEPT ![Sender] = t]
              /\ quic' = [quic EXCEPT ![Sender] = Marked(@, TRUE)]
           \/ ~ctx[Sender].media_source /\ UNCHANGED <<ctx, quic>>
    PROVE  LiveInv'
<1> USE TwoEnds
<1> DEFINE s == ctx[Sender]
           q == quic[Sender]
<1>1. ctx \in [Ends -> StreamContexts] /\ quic \in [Ends -> QuicViews]
  BY LiveShape
<1>2. LiveAt(Sender) /\ FinalTold
  BY DEF LiveInv
<1>3. CASE /\ s.media_source /\ ctx' = [ctx EXCEPT ![Sender] = t]
           /\ quic' = [quic EXCEPT ![Sender] = Marked(@, TRUE)]
  <2>1. s.alive
    BY <1>3, NoShape DEF ControlInv, FinOK, FinAt
  <2>2. ~Gone(Sender)
    BY <2>1, AliveStays
  <2>3. q.fin => t.send_state = "no_more" \/ (t.send_state = "fin" /\ t.is_local_finished)
    BY <2>2, FinGiven DEF Alike
  <2>4. PICK r : r = Marked(q, TRUE)
    OBVIOUS
  <2>5. Polled(t, r) /\ r.open = q.open /\ r.fin = q.fin /\ (r.active => ~q.fin)
    BY <1>1, <2>3, <2>4, MarkedPolled, MarkedActive
  <2>6. /\ ctx'[Sender] = t /\ ctx'[Receiver] = ctx[Receiver]
        /\ quic'[Sender] = r /\ quic'[Receiver] = quic[Receiver]
    BY <1>1, <1>3, <2>4
  <2>7. Sending(s) /\ s.receive_state = "done" => t.final = src'.final
    BY <1>2 DEF FinalTold
  <2> QED
    BY <2>5, <2>6, <2>7, SourceLive
<1>4. CASE ~s.media_source /\ UNCHANGED <<ctx, quic>>
  <2>1. s.alive => Polled(s, q)
    BY <1>2 DEF LiveAt
  <2>2. ~Sending(s)
    BY <1>4 DEF Sending
  <2>3. q.active => ~q.fin
    BY <1>2 DEF LiveAt, PollAt
  <2> QED
    BY <1>4, <2>1, <2>2, <2>3, SourceLive DEF Alike
<1> QED
  BY <1>3, <1>4

LEMMA LearnStartLive ==
    ASSUME ControlInv, LiveInv, LearnStart
    PROVE  LiveInv'
<1> DEFINE s == ctx[Sender]
<1>1. s \in StreamContexts /\ src \in SourceRecords /\ src.origin \in Points
  BY LiveShape, SourceShape, TwoEnds
<1>2. PICK t : t = [s EXCEPT !.start = src.origin]
  OBVIOUS
<1>3. /\ t \in StreamContexts /\ Alike(s, t) /\ t.is_final_sent = s.is_final_sent
      /\ t.is_local_finished = s.is_local_finished
      /\ t.final = s.final /\ t.start = src.origin
  BY <1>1, <1>2 DEF StreamContexts, Alike
<1>4. /\ src' = [src EXCEPT !.start = src.origin] /\ src.start # src.origin
      /\ UNCHANGED <<kind, wire, rcv, closed_with>>
      /\ \/ /\ s.media_source /\ ctx' = [ctx EXCEPT ![Sender] = t]
            /\ quic' = [quic EXCEPT ![Sender] = Marked(@, TRUE)]
         \/ ~s.media_source /\ UNCHANGED <<ctx, quic>>
  BY <1>2 DEF LearnStart
<1>5. src'.final = src.final
  BY <1>1, <1>4 DEF SourceRecords
<1>6. src.origin # 0
  BY <1>4 DEF ControlInv, PointsOK
<1> QED
  BY <1>3, <1>4, <1>5, <1>6, SourceMarksLive

LEMMA SetRealTimeLive ==
    ASSUME ControlInv, LiveInv, SetRealTime
    PROVE  LiveInv'
<1> DEFINE s == ctx[Sender]
<1>1. s \in StreamContexts /\ src \in SourceRecords
  BY LiveShape, TwoEnds
<1>2. PICK t : t = [s EXCEPT !.is_cache_real_time = TRUE]
  OBVIOUS
<1>3. /\ t \in StreamContexts /\ Alike(s, t) /\ t.is_final_sent = s.is_final_sent
      /\ t.is_local_finished = s.is_local_finished
      /\ t.final = s.final /\ t.start = s.start
  BY <1>1, <1>2 DEF StreamContexts, Alike
<1>4. /\ src' = [src EXCEPT !.is_cache_real_time = TRUE]
      /\ UNCHANGED <<kind, wire, rcv, closed_with>>
      /\ \/ /\ s.media_source /\ ctx' = [ctx EXCEPT ![Sender] = t]
            /\ quic' = [quic EXCEPT ![Sender] = Marked(@, TRUE)]
         \/ ~s.media_source /\ UNCHANGED <<ctx, quic>>
  BY <1>2 DEF SetRealTime
<1>5. src'.final = src.final
  BY <1>1, <1>4 DEF SourceRecords
<1> QED
  BY <1>3, <1>4, <1>5, SourceMarksLive


\* The receiver of the media goes on, or closes its side; what it takes from its
\* stream is a start point or a final point that it has from then on.
LEMMA ReceiverLive ==
    ASSUME ControlInv, LiveInv, UNCHANGED <<kind, closed_with>>, src'.final = src.final,
           ctx'[Sender] = ctx[Sender], quic'[Sender] = quic[Sender],
           quic'[Receiver].open = quic[Receiver].open, LiveAt(Receiver)',
           quic'[Receiver].fin = quic[Receiver].fin,
           ctx'[Receiver].is_peer_finished = ctx[Receiver].is_peer_finished,
           ctx'[Receiver].send_state \in {ctx[Receiver].send_state, "fin"},
           Receiver = "client" => ctx'[Receiver].receive_state = ctx[Receiver].receive_state,
           ctx[Receiver].start # 0 => ctx'[Receiver].start # 0,
           rcv.final # 0 => rcv'.final # 0,
           StartOnTheWay => StartOnTheWay' \/ ctx'[Receiver].start # 0,
           OnTheWay(Sender, "FIN_DATAGRAM") =>
                OnTheWay(Sender, "FIN_DATAGRAM")' \/ rcv'.final # 0,
           \A e \in Ends : FinOnTheWay(e) => FinOnTheWay(e)',
           \A e \in Ends, type \in {"POST", "ACCEPT"} : OnTheWay(e, type) => OnTheWay(e, type)'
    PROVE  LiveInv'
<1> USE TwoEnds
<1>1. Sender' = Sender /\ Receiver' = Receiver
  BY DEF Sender, Receiver
<1>2. LiveAt(Sender) /\ FinTold(Sender) /\ FinTold(Receiver)
  BY DEF LiveInv
<1>3. StartTold /\ FinalTold /\ AcceptTold /\ SenderStays
  BY DEF LiveInv
<1>4. \A e \in Ends : Gone(e)' <=> Gone(e)
  BY DEF Gone
<1>5. LiveAt(Sender)'
  BY <1>1, <1>2, <1>4, LiveAtKept
<1>6. FinTold(Sender)' /\ FinTold(Receiver)'
  BY <1>1, <1>2, <1>4 DEF FinTold
<1>7. StartTold'
  BY <1>1, <1>3, <1>4 DEF StartTold
<1>8. FinalTold'
  BY <1>1, <1>3, <1>4 DEF FinalTold
<1>9. AcceptTold'
  <2>1. CASE kind = "post"
    <3>1. Sender = "client" /\ Receiver = "server"
      BY <2>1 DEF Sender, Receiver, Peer
    <3> QED
      BY <1>3, <1>4, <2>1, <3>1 DEF AcceptTold
  <2>2. CASE kind # "post"
    BY <2>2 DEF AcceptTold
  <2> QED
    BY <2>1, <2>2
<1>10. SenderStays'
  BY <1>1, <1>3 DEF SenderStays
<1> QED
  BY <1>1, <1>5, <1>6, <1>7, <1>8, <1>9, <1>10 DEF LiveInv

LEMMA KeptForReceiver ==
    ASSUME OnTheWayKept, kind' = kind
    PROVE  /\ StartOnTheWay => StartOnTheWay'
           /\ OnTheWay(Sender, "FIN_DATAGRAM") => OnTheWay(Sender, "FIN_DATAGRAM")'
           /\ \A e \in Ends : FinOnTheWay(e) => FinOnTheWay(e)'
           /\ \A e \in Ends, type \in {"POST", "ACCEPT"} :
                OnTheWay(e, type) => OnTheWay(e, type)'
<1>1. Sender' = Sender /\ Sender \in Ends
  BY DEF Sender, Ends
<1>2. "FIN_DATAGRAM" \in MessageTypes /\ {"POST", "ACCEPT"} \subseteq MessageTypes
  BY DEF MessageTypes
<1> QED
  BY <1>1, <1>2 DEF OnTheWayKept

\* The receiver has context x and its consumer r; it closes if it is finished.
LEMMA ConsumerLive ==
    ASSUME ControlInv, LiveInv, NEW e \in Ends, Receiving(ctx[e]),
           NEW x \in StreamContexts, Receiving(x), x.send_state = ctx[e].send_state,
           x.is_local_finished = ctx[e].is_local_finished,
           x.is_peer_finished = ctx[e].is_peer_finished,
           closed_with' = closed_with, NEW r \in Consumers,
           ConsumerCalled(e, x, quic[e], r)
    PROVE  /\ LiveAt(e)' /\ quic'[e].open = quic[e].open /\ quic'[e].fin = quic[e].fin
           /\ \A d \in Ends : d # e => ctx'[d] = ctx[d] /\ quic'[d] = quic[d]
           /\ ctx'[e].is_peer_finished = x.is_peer_finished
           /\ ctx'[e].send_state \in {x.send_state, "fin"}
           /\ ctx'[e].receive_state = x.receive_state /\ ctx'[e].start = x.start
           /\ rcv'.final = r.final
<1> DEFINE s == ctx[e]
           q == quic[e]
<1>1. ctx \in [Ends -> StreamContexts] /\ quic \in [Ends -> QuicViews] /\ q \in QuicViews
  BY LiveShape
<1>2. ~Gone(e) /\ s.alive
  BY AliveStays DEF Receiving
<1>3. PollAt(e) /\ Polled(s, q)
  BY <1>2 DEF LiveInv, LiveAt
<1>4. q.fin => s.is_local_finished /\ s.send_state \in {"fin", "no_more"}
  BY <1>2, <1>3 DEF PollAt
<1>5. CASE Finished(x, r)
  <2>1. PICK f : f = [x EXCEPT !.send_state = "fin"]
    OBVIOUS
  <2>2. f \in StreamContexts
    BY <2>1 DEF StreamContexts, SendStates
  <2>3. PICK t : t = WithReason(f, "finished")
    OBVIOUS
  <2>4. t \in StreamContexts /\ (t = f \/ t = [f EXCEPT !.close_reason = "finished"])
    BY <2>2, <2>3, ReasonShape DEF Reasons
  <2>5. /\ t.send_state = "fin" /\ t.is_local_finished = x.is_local_finished
        /\ t.is_peer_finished = x.is_peer_finished /\ t.alive
        /\ t.receive_state = x.receive_state /\ t.start = x.start
    BY <2>1, <2>2, <2>4 DEF StreamContexts, Receiving
  <2>6. PICK p : p = Marked(q, TRUE)
    OBVIOUS
  <2>7. p \in QuicViews /\ p.open = q.open /\ p.fin = q.fin /\ (p.active <=> ~q.fin)
    BY <1>1, <2>6, MarkedActive
  <2>8. /\ ctx' = [ctx EXCEPT ![e] = t] /\ quic' = [quic EXCEPT ![e] = p]
        /\ rcv' = [r EXCEPT !.complete = TRUE]
    BY <1>5, <2>1, <2>3, <2>6 DEF ConsumerCalled
  <2>9. /\ ctx'[e] = t /\ quic'[e] = p /\ rcv'.final = r.final
        /\ \A d \in Ends : d # e => ctx'[d] = ctx[d] /\ quic'[d] = quic[d]
    BY <1>1, <2>8 DEF Consumers
  <2>10. PollAt(e)'
    <3>1. ~Gone(e)'
      BY <1>2, <2>7, <2>9 DEF Gone
    <3> QED
      BY <1>3, <1>4, <2>5, <2>7, <2>9, <3>1 DEF PollAt
  <2>11. Polled(t, p)
    BY <1>4, <2>5, <2>7 DEF Polled
  <2> QED
    BY <2>5, <2>7, <2>9, <2>10, <2>11 DEF LiveAt
<1>6. CASE ~Finished(x, r)
  <2>1. ctx' = [ctx EXCEPT ![e] = x] /\ quic' = [quic EXCEPT ![e] = q] /\ rcv' = r
    BY <1>6 DEF ConsumerCalled
  <2>2. /\ ctx'[e] = x /\ quic' = quic
        /\ \A d \in Ends : d # e => ctx'[d] = ctx[d]
    BY <1>1, <2>1
  <2>3. PollAt(e)'
    <3>1. ~Gone(e)'
      BY <1>2, <2>2 DEF Gone
    <3> QED
      BY <1>2, <1>3, <2>2, <3>1 DEF PollAt, Receiving
  <2>4. Polled(x, q)
    BY <1>3 DEF Polled, Receiving
  <2> QED
    BY <2>1, <2>2, <2>3, <2>4 DEF LiveAt
<1> QED
  BY <1>5, <1>6

LEMMA ReceiveMediaLive ==
    ASSUME ControlInv, LiveInv, NEW k \in Points, ReceiveMedia(k)
    PROVE  LiveInv'
<1> USE TwoEnds
<1> DEFINE s == ctx[Receiver]
<1>1. PICK r : r = [rcv EXCEPT !.objects = @ \cup {k}]
  OBVIOUS
<1>2. /\ s.alive /\ ~s.is_sender /\ s.media_id
      /\ ConsumerCalled(Receiver, s, quic[Receiver], r)
      /\ UNCHANGED <<kind, wire, src, closed_with>>
  BY <1>1 DEF ReceiveMedia
<1>3. Receiving(s) /\ s \in StreamContexts
  BY <1>2, FreshShape, LiveShape DEF RoleOK, ControlInv
<1>4. rcv \in Consumers
  BY DEF ControlInv, ControlTypeOK, Consumers
<1>5. r \in Consumers /\ r.final = rcv.final
  BY <1>1, <1>4 DEF Consumers
<1>6. OnTheWayKept
  BY <1>2, GrowingKeeps
<1>7. /\ StartOnTheWay => StartOnTheWay'
      /\ OnTheWay(Sender, "FIN_DATAGRAM") => OnTheWay(Sender, "FIN_DATAGRAM")'
      /\ \A e \in Ends : FinOnTheWay(e) => FinOnTheWay(e)'
      /\ \A e \in Ends, type \in {"POST", "ACCEPT"} : OnTheWay(e, type) => OnTheWay(e, type)'
  BY <1>2, <1>6, KeptForReceiver
<1>8. PICK e \in Ends : e = Receiver
  OBVIOUS
<1>9. Receiver' = Receiver
  BY <1>2 DEF Receiver, Sender
<1>10. /\ LiveAt(e)' /\ quic'[e].open = quic[e].open /\ quic'[e].fin = quic[e].fin
       /\ ctx'[Sender] = ctx[Sender] /\ quic'[Sender] = quic[Sender]
       /\ ctx'[e].is_peer_finished = ctx[e].is_peer_finished
       /\ ctx'[e].send_state \in {ctx[e].send_state, "fin"}
       /\ ctx'[e].receive_state = ctx[e].receive_state /\ ctx'[e].start = ctx[e].start
       /\ rcv'.final = r.final
  BY <1>2, <1>3, <1>5, <1>8, ConsumerLive
<1> QED
  BY <1>2, <1>5, <1>7, <1>8, <1>9, <1>10, ReceiverLive

LEMMA AbandonLive ==
    ASSUME ControlInv, LiveInv, Abandon
    PROVE  LiveInv'
<1> USE TwoEnds
<1> DEFINE s == ctx[Receiver]
           q == quic[Receiver]
<1>1. PICK t, p : t = [s EXCEPT !.send_state = "fin"] /\ p = Marked(q, TRUE)
  OBVIOUS
<1>2. /\ s.alive /\ s.receive_state = "fragment"
      /\ ctx' = [ctx EXCEPT ![Receiver] = t] /\ quic' = [quic EXCEPT ![Receiver] = p]
      /\ UNCHANGED <<kind, wire, src, rcv, closed_with>>
  BY <1>1 DEF Abandon
<1>3. /\ ctx \in [Ends -> StreamContexts] /\ quic \in [Ends -> QuicViews]
      /\ s \in StreamContexts /\ q \in QuicViews
  BY LiveShape
<1>4. /\ t.send_state = "fin" /\ t.is_local_finished = s.is_local_finished
      /\ t.is_peer_finished = s.is_peer_finished /\ t.alive
      /\ t.receive_state = s.receive_state /\ t.start = s.start
  BY <1>1, <1>2, <1>3 DEF StreamContexts
<1>5. p \in QuicViews /\ p.open = q.open /\ p.fin = q.fin /\ (p.active <=> ~q.fin)
  BY <1>1, <1>3, MarkedActive
<1>6. /\ ctx'[Receiver] = t /\ quic'[Receiver] = p
      /\ ctx'[Sender] = ctx[Sender] /\ quic'[Sender] = quic[Sender]
  BY <1>2, <1>3
<1>7. ~Gone(Receiver)
  BY <1>2, AliveStays
<1>8. q.fin => s.is_local_finished
  BY <1>7, FinGiven
<1>9. LiveAt(Receiver)'
  <2>1. PollAt(Receiver)
    BY DEF LiveInv, LiveAt
  <2>2. PollAt(Receiver)'
    <3>1. Receiver' = Receiver
      BY <1>2 DEF Receiver, Sender
    <3>2. ~Gone(Receiver)'
      BY <1>2, <1>5, <1>6, <1>7, <3>1 DEF Gone
    <3> QED
      BY <1>4, <1>5, <1>6, <1>8, <2>1, <3>1, <3>2 DEF PollAt
  <2>3. Polled(t, p)
    BY <1>4, <1>5, <1>8 DEF Polled
  <2> QED
    BY <1>2, <1>6, <2>2, <2>3 DEF LiveAt, Receiver, Sender
<1>10. OnTheWayKept
  BY <1>2, GrowingKeeps
<1>11. /\ StartOnTheWay => StartOnTheWay'
       /\ OnTheWay(Sender, "FIN_DATAGRAM") => OnTheWay(Sender, "FIN_DATAGRAM")'
       /\ \A e \in Ends : FinOnTheWay(e) => FinOnTheWay(e)'
       /\ \A e \in Ends, type \in {"POST", "ACCEPT"} : OnTheWay(e, type) => OnTheWay(e, type)'
  BY <1>2, <1>10, KeptForReceiver
<1> QED
  BY <1>2, <1>4, <1>5, <1>6, <1>9, <1>11, ReceiverLive

LEMMA LiveUnchanged ==
    ASSUME LiveInv, UNCHANGED <<kind, ctx, quic, wire, src, rcv, closed_with>>
    PROVE  LiveInv'
<1>1. Sender' = Sender /\ Receiver' = Receiver
  BY DEF Sender, Receiver
<1>2. \A e \in Ends : Gone(e)' <=> Gone(e)
  BY DEF Gone
<1>3. \A e \in Ends : LiveAt(e)'
  BY <1>2, LiveAtKept DEF LiveInv
<1>4. /\ StartOnTheWay' <=> StartOnTheWay
      /\ \A e \in Ends : FinOnTheWay(e)' <=> FinOnTheWay(e)
      /\ \A e \in Ends, type \in MessageTypes : OnTheWay(e, type)' <=> OnTheWay(e, type)
  BY <1>1 DEF StartOnTheWay, FinOnTheWay, OnTheWay
<1>5. \A e \in Ends : FinTold(e)'
  BY <1>2, <1>4, TwoEnds DEF LiveInv, FinTold
<1>6. StartTold' /\ SenderStays'
  BY <1>1, <1>2, <1>4, TwoEnds DEF LiveInv, StartTold, SenderStays, Sending
<1>7. FinalTold'
  <2>1. OnTheWay(Sender, "FIN_DATAGRAM")' <=> OnTheWay(Sender, "FIN_DATAGRAM")
    BY <1>1, <1>4, TwoEnds DEF MessageTypes
  <2> QED
    BY <1>1, <1>2, <2>1, TwoEnds DEF LiveInv, FinalTold
<1>8. AcceptTold'
  <2>1. /\ OnTheWay("client", "POST")' <=> OnTheWay("client", "POST")
        /\ OnTheWay("server", "ACCEPT")' <=> OnTheWay("server", "ACCEPT")
    BY <1>4, TwoEnds DEF MessageTypes
  <2> QED
    BY <1>2, <2>1, TwoEnds DEF LiveInv, AcceptTold
<1> QED
  BY <1>3, <1>5, <1>6, <1>7, <1>8 DEF LiveInv

\* The receiver takes an announcement: a start point or a final point is in its
\* context or at its consumer from then on.
LEMMA AnnouncementLive ==
    ASSUME ControlInv, LiveInv, wire[Sender] # <<>>,
           wire' = [wire EXCEPT ![Sender] = Tail(@)], UNCHANGED <<kind, src, closed_with>>,
           NEW c, c = Head(wire[Sender]), ~c.fin, c.msg.type \in Announcements,
           Receiving(ctx[Receiver]), NEW x \in StreamContexts, Receiving(x),
           x.send_state = ctx[Receiver].send_state,
           x.is_local_finished = ctx[Receiver].is_local_finished,
           x.is_peer_finished = ctx[Receiver].is_peer_finished,
           IF c.msg.type = "START_POINT" THEN x.start = c.msg.point
                                         ELSE x.start = ctx[Receiver].start,
           NEW r \in Consumers,
           IF c.msg.type = "FIN_DATAGRAM" THEN r.final = c.msg.point ELSE r.final = rcv.final,
           ConsumerCalled(Receiver, x, quic[Receiver], r)
    PROVE  LiveInv'
<1> USE TwoEnds
<1>1. PICK d \in Ends : d = Sender
  OBVIOUS
<1>2. PICK e \in Ends : e = Receiver
  OBVIOUS
<1>3. Receiver' = Receiver /\ Sender' = Sender
  BY DEF Receiver, Sender
<1>4. wire \in [Ends -> Seq(Chunks)]
  BY LiveShape
<1>5. TakenFrom(d, c)
  BY <1>1, <1>4, TakingKeeps
<1>6. /\ LiveAt(e)' /\ quic'[e].open = quic[e].open /\ quic'[e].fin = quic[e].fin
      /\ ctx'[d] = ctx[d] /\ quic'[d] = quic[d]
      /\ ctx'[e].is_peer_finished = ctx[e].is_peer_finished
      /\ ctx'[e].send_state \in {ctx[e].send_state, "fin"}
      /\ ctx'[e].receive_state = x.receive_state /\ ctx'[e].start = x.start
      /\ rcv'.final = r.final
  BY <1>1, <1>2, ConsumerLive
<1>7. 1 \in DOMAIN wire[Sender] /\ c = wire[Sender][1]
  BY <1>4
<1>8. /\ c.msg.type = "START_POINT" => x.start # 0 /\ ctx[Receiver].start = 0
      /\ c.msg.type = "FIN_DATAGRAM" => r.final # 0
  BY <1>7 DEF ControlInv, StartOK, PointsOK, IsStart
<1>9. x.receive_state = ctx[Receiver].receive_state
  BY DEF Receiving
<1>10. /\ StartOnTheWay => StartOnTheWay' \/ x.start # 0
       /\ \A f \in Ends : FinOnTheWay(f) => FinOnTheWay(f)'
       /\ \A f \in Ends, type \in {"POST", "ACCEPT"} :
            OnTheWay(f, type) => OnTheWay(f, type)'
       /\ OnTheWay(d, "FIN_DATAGRAM") => OnTheWay(d, "FIN_DATAGRAM")' \/ r.final # 0
  <2>1. {"POST", "ACCEPT", "FIN_DATAGRAM"} \subseteq MessageTypes
    BY DEF MessageTypes
  <2>2. c.msg.type \notin {"POST", "ACCEPT"}
    BY DEF Announcements
  <2>3. StartOnTheWay => StartOnTheWay' \/ c.msg.type = "START_POINT"
    BY <1>5, <2>2 DEF TakenFrom
  <2>4. \A f \in Ends : FinOnTheWay(f) => FinOnTheWay(f)'
    BY <1>5 DEF TakenFrom
  <2>5. \A f \in Ends, type \in {"POST", "ACCEPT", "FIN_DATAGRAM"} :
            OnTheWay(f, type) => OnTheWay(f, type)' \/ c.msg.type = type
    BY <1>5, <2>1 DEF TakenFrom
  <2> QED
    BY <1>8, <2>2, <2>3, <2>4, <2>5
<1>11. rcv.final # 0 => r.final # 0
  BY <1>8
<1>12. ctx[Receiver].start # 0 => x.start # 0
  BY <1>8
<1> QED
  BY <1>1, <1>2, <1>3, <1>6, <1>9, <1>10, <1>11, <1>12, ReceiverLive

LEMMA ReceiveAnnouncementLive ==
    ASSUME ControlInv, LiveInv, wire[Sender] # <<>>,
           wire' = [wire EXCEPT ![Sender] = Tail(@)], UNCHANGED kind,
           NEW c \in Chunks, c = Head(wire[Sender]), ~c.fin, c.msg.type \in Announcements,
           Receiving(ctx[Receiver]), ReceiveMessage(Receiver, c.msg)
    PROVE  LiveInv'
<1> USE TwoEnds
<1> DEFINE s == ctx[Receiver]
<1>1. s \in StreamContexts /\ rcv \in Consumers
  BY DEF ControlInv, ControlTypeOK, Consumers
<1>2. Found(Receiver) = s
  BY DEF Found, Receiving
<1>3. c.msg.point \in Points /\ c.msg.policy \in BOOLEAN
  BY DEF Chunks, Messages
<1>4. CASE c.msg.type = "START_POINT"
  <2>1. PICK x : x = [s EXCEPT !.start = c.msg.point]
    OBVIOUS
  <2>2. /\ ConsumerCalled(Receiver, x, quic[Receiver], rcv)
        /\ UNCHANGED <<src, closed_with>>
    BY <1>2, <1>4, <2>1 DEF ReceiveMessage, ReceiveStartPoint
  <2>3. /\ x \in StreamContexts /\ x.start = c.msg.point /\ x.send_state = s.send_state
        /\ x.is_local_finished = s.is_local_finished
        /\ x.is_peer_finished = s.is_peer_finished
    BY <1>1, <1>3, <2>1 DEF StreamContexts
  <2>4. Receiving(x)
    BY <1>1, <2>1 DEF Receiving, StreamContexts
  <2> QED
    BY <1>1, <1>4, <2>2, <2>3, <2>4, AnnouncementLive
<1>5. CASE c.msg.type = "FIN_DATAGRAM"
  <2>1. PICK r : r = [rcv EXCEPT !.final = c.msg.point]
    OBVIOUS
  <2>2. ConsumerCalled(Receiver, s, quic[Receiver], r) /\ UNCHANGED <<src, closed_with>>
    BY <1>2, <1>5, <2>1 DEF ReceiveMessage, ReceiveFinalPoint
  <2>3. r \in Consumers /\ r.final = c.msg.point
    BY <1>1, <1>3, <2>1 DEF Consumers
  <2> QED
    BY <1>1, <1>5, <2>2, <2>3, AnnouncementLive
<1>6. CASE c.msg.type = "CACHE_POLICY"
  <2>1. PICK x : x = [s EXCEPT !.is_cache_real_time = c.msg.policy]
    OBVIOUS
  <2>2. /\ ConsumerCalled(Receiver, x, quic[Receiver], rcv)
        /\ UNCHANGED <<src, closed_with>>
    BY <1>2, <1>6, <2>1 DEF ReceiveMessage, ReceiveCachePolicy
  <2>3. /\ x \in StreamContexts /\ x.start = s.start /\ x.send_state = s.send_state
        /\ x.is_local_finished = s.is_local_finished
        /\ x.is_peer_finished = s.is_peer_finished
    BY <1>1, <1>3, <2>1 DEF StreamContexts
  <2>4. Receiving(x)
    BY <1>1, <2>1 DEF Receiving, StreamContexts
  <2> QED
    BY <1>1, <1>6, <2>2, <2>3, <2>4, AnnouncementLive
<1> QED
  BY <1>4, <1>5, <1>6 DEF Announcements

\* The client opens the stream: its context is new and polled.
LEMMA OpenLive ==
    ASSUME ControlInv, LiveInv, kind = "none", quic["client"].open,
           kind' \in {"request", "post"}, NEW s \in StreamContexts,
           s.alive, s.send_state = "initial", s.receive_state # "done",
           ~s.is_local_finished, ~s.is_peer_finished, ~s.is_final_sent,
           s.is_start_sent => s.message_sent.point # 0,
           ctx' = [ctx EXCEPT !["client"] = s],
           quic' = [quic EXCEPT !["client"] = Marked(@, TRUE)],
           UNCHANGED <<wire, rcv, closed_with>>
    PROVE  LiveInv'
<1> USE TwoEnds
<1>1. ctx \in [Ends -> StreamContexts] /\ quic \in [Ends -> QuicViews]
  BY LiveShape
<1>2. \A e \in Ends : ctx[e] = NoStream /\ wire[e] = <<>> /\ closed_with[e] = "none"
  BY DEF ControlInv, UnopenedOK
<1>3. \A e \in Ends : LiveAt(e)
  BY DEF LiveInv
<1>4. \A e \in Ends : quic[e].open => ~quic[e].fin
  BY <1>2, <1>3, NoShape DEF LiveAt, PollAt, Gone
<1>5. PICK q : q = Marked(quic["client"], TRUE)
  OBVIOUS
<1>6. q \in QuicViews /\ q.open /\ ~q.fin /\ q.active
  BY <1>1, <1>4, <1>5, MarkedActive
<1>7. /\ ctx'["client"] = s /\ quic'["client"] = q
      /\ ctx'["server"] = NoStream /\ quic'["server"] = quic["server"]
  BY <1>1, <1>2, <1>5
<1>8. LiveAt("client")'
  BY <1>2, <1>6, <1>7 DEF LiveAt, PollAt, Polled, Gone
<1>9. LiveAt("server")'
  BY <1>2, <1>3, <1>7, LiveAtKept DEF Gone
<1>10. FinTold("client")' /\ FinTold("server")'
  BY <1>4, <1>6, <1>7 DEF FinTold
<1>11. NoStream.send_state = "ready" /\ ~NoStream.alive /\ ~NoStream.is_final_sent
  BY NewShape, NoShape
<1>12. ctx'[Sender'] \in {s, NoStream}
  BY <1>7 DEF Sender
<1>13. StartTold' /\ FinalTold' /\ SenderStays'
  <2>1. kind' = "request" => ctx'[Sender'] = NoStream
    BY <1>7 DEF Sender
  <2> QED
    BY <1>11, <1>12, <2>1 DEF StartTold, FinalTold, SenderStays, Sending
<1>14. AcceptTold'
  BY <1>7 DEF AcceptTold
<1> QED
  BY <1>8, <1>9, <1>10, <1>13, <1>14 DEF LiveInv, Ends

LEMMA SubscribeMediaLive ==
    ASSUME ControlInv, LiveInv, NEW i \in Intents, SubscribeMedia(i)
    PROVE  LiveInv'
<1> DEFINE m == Message("REQUEST", i, FALSE)
<1>1. PICK s : s = [Queue(NewStream, "initial", m)
                        EXCEPT !.receive_state = "fragment", !.media_id = TRUE]
  OBVIOUS
<1>2. m \in Messages
  BY StartPoints DEF Message, Messages, MessageTypes
<1>3. Queue(NewStream, "initial", m) =
        [NewStream EXCEPT !.send_state = "initial", !.message_sent = m, !.left = 2]
  BY DEF Queue, Message
<1> HIDE DEF m
<1>4. Queue(NewStream, "initial", m) \in StreamContexts
  BY <1>2, NewStreamType, QueueType DEF SendStates
<1>5. s \in StreamContexts
  BY <1>1, <1>4 DEF StreamContexts, ReceiveStates
<1>6. /\ s.alive /\ s.send_state = "initial" /\ s.receive_state # "done"
      /\ ~s.is_local_finished /\ ~s.is_peer_finished /\ ~s.is_final_sent /\ ~s.is_start_sent
  BY <1>1, <1>3 DEF NewStream
<1>7. /\ kind = "none" /\ quic["client"].open /\ kind' = "request"
      /\ ctx' = [ctx EXCEPT !["client"] = s]
      /\ quic' = [quic EXCEPT !["client"] = Marked(@, TRUE)]
      /\ UNCHANGED <<wire, rcv, closed_with>>
  BY <1>1 DEF SubscribeMedia, m
<1> QED
  BY <1>5, <1>6, <1>7, OpenLive

LEMMA PostMediaLive ==
    ASSUME ControlInv, LiveInv, PostMedia
    PROVE  LiveInv'
<1>1. PICK n : n = Subscribed(NewStream)
  OBVIOUS
<1>2. src.start \in Points /\ src.is_cache_real_time \in BOOLEAN
  BY LiveShape DEF SourceRecords
<1>3. /\ n \in StreamContexts /\ n.start = src.start
      /\ n.is_cache_real_time = src.is_cache_real_time
      /\ n.alive /\ ~n.is_local_finished /\ ~n.is_peer_finished /\ ~n.is_final_sent
  <2>1. n = [NewStream EXCEPT !.media_source = TRUE, !.start = src.start,
                              !.is_cache_real_time = src.is_cache_real_time]
    BY <1>1 DEF Subscribed
  <2>2. n \in StreamContexts
    BY <1>2, <2>1, NewStreamType DEF StreamContexts
  <2> QED
    BY <2>1, <2>2 DEF NewStream
<1>4. PICK m : m = Message("POST", n.start, n.is_cache_real_time)
  OBVIOUS
<1>5. m \in Messages /\ m.point = src.start /\ m.type = "POST"
  BY <1>2, <1>3, <1>4 DEF Message, Messages, MessageTypes
<1>6. PICK u : u = Queue(n, "initial", m)
  OBVIOUS
<1>7. /\ u = [n EXCEPT !.send_state = "initial", !.message_sent = m, !.left = 2]
      /\ u \in StreamContexts
  BY <1>3, <1>5, <1>6, QueueType DEF Queue, SendStates
<1>8. PICK b \in BOOLEAN, p \in BOOLEAN : b = (n.start # 0) /\ p = n.is_cache_real_time
  BY <1>2, <1>3
<1>9. PICK s : s = [u EXCEPT !.is_sender = TRUE, !.receive_state = "confirmation",
                             !.is_start_sent = b, !.is_cache_policy_sent = p]
  OBVIOUS
<1>10. s \in StreamContexts
  <2>1. u \in StreamContexts
    BY <1>7
  <2> QED
    BY <1>9, <2>1 DEF StreamContexts, ReceiveStates
<1>11. /\ s.alive /\ s.send_state = "initial" /\ s.receive_state # "done"
       /\ ~s.is_local_finished /\ ~s.is_peer_finished /\ ~s.is_final_sent
       /\ s.is_start_sent = b /\ s.message_sent = m
  BY <1>3, <1>7, <1>9, <1>10 DEF StreamContexts
<1>12. s.is_start_sent => s.message_sent.point # 0
  BY <1>3, <1>5, <1>8, <1>11
<1>13. /\ kind = "none" /\ quic["client"].open /\ kind' = "post"
       /\ ctx' = [ctx EXCEPT !["client"] = s]
       /\ quic' = [quic EXCEPT !["client"] = Marked(@, TRUE)]
       /\ UNCHANGED <<wire, rcv, closed_with>>
  BY <1>1, <1>4, <1>6, <1>8, <1>9 DEF PostMedia
<1> QED
  BY <1>10, <1>11, <1>12, <1>13, OpenLive

LEMMA CloseLive ==
    ASSUME ControlInv, LiveInv, NEW e \in Ends, Close(e)
    PROVE  LiveInv'
<1> USE TwoEnds
<1>1. PICK d \in Ends : d = Peer(e)
  OBVIOUS
<1>2. d # e /\ Peer(d) = e /\ Peer(e) = d /\ Ends = {d, e}
  BY <1>1 DEF Peer, Ends
<1>3. /\ ctx \in [Ends -> StreamContexts] /\ quic \in [Ends -> QuicViews]
      /\ wire \in [Ends -> Seq(Chunks)] /\ closed_with \in [Ends -> Reasons \cup {"none"}]
  BY LiveShape
<1>4. /\ ctx' = [ctx EXCEPT ![e] = NoStream]
      /\ quic' = [quic EXCEPT ![e] = [open |-> FALSE, active |-> FALSE, fin |-> TRUE]]
      /\ wire' = [wire EXCEPT ![d] = <<>>]
      /\ closed_with' = closed_with \/ \E r : closed_with' = [closed_with EXCEPT ![e] = r]
      /\ UNCHANGED <<kind, src, rcv>>
  BY <1>1 DEF Close
<1>5. /\ ctx'[e] = NoStream /\ ctx'[d] = ctx[d] /\ quic'[d] = quic[d]
      /\ ~quic'[e].open /\ ~quic'[e].active /\ quic'[e].fin
      /\ wire'[e] = wire[e] /\ closed_with'[d] = closed_with[d]
  BY <1>2, <1>3, <1>4
<1>6. Gone(e)' /\ (Gone(d)' <=> Gone(d))
  BY <1>5 DEF Gone
<1>7. LiveAt(d)'
  BY <1>5, <1>6, LiveAtKept DEF LiveInv
<1>8. LiveAt(e)'
  BY <1>5, <1>6, NoShape DEF LiveAt, PollAt
<1>9. FinTold(e)' /\ FinTold(d)'
  BY <1>2, <1>5, <1>6 DEF FinTold
<1>10. Sender' = Sender /\ Receiver' = Receiver
  BY <1>4 DEF Sender, Receiver
<1>11. ~NoStream.is_final_sent
  BY NewShape
<1>12. StartTold /\ FinalTold /\ AcceptTold /\ SenderStays
  BY DEF LiveInv
<1>13. CASE e = Sender
  <2>1. StartTold' /\ FinalTold' /\ SenderStays'
    BY <1>5, <1>10, <1>11, <1>13, NoShape DEF StartTold, FinalTold, SenderStays, Sending
  <2>2. AcceptTold'
    <3>1. kind' = "post" => ctx'["client"] = NoStream
      BY <1>5, <1>10, <1>13 DEF Sender
    <3> QED
      BY <3>1, NoShape DEF AcceptTold
  <2> QED
    BY <1>2, <1>7, <1>8, <1>9, <2>1, <2>2 DEF LiveInv
<1>14. CASE e = Receiver
  <2>1. d = Sender
    BY <1>1, <1>14
  <2>2. StartTold' /\ FinalTold' /\ SenderStays'
    BY <1>4, <1>5, <1>6, <1>10, <1>12, <1>14, <2>1 DEF StartTold, FinalTold, SenderStays, Sending
  <2>3. AcceptTold'
    <3>1. kind' = "post" => Gone("server")'
      BY <1>6, <1>10, <1>14 DEF Sender, Receiver, Peer
    <3> QED
      BY <3>1 DEF AcceptTold
  <2> QED
    BY <1>2, <1>7, <1>8, <1>9, <2>2, <2>3 DEF LiveInv
<1> QED
  BY <1>13, <1>14

\* A server that has not got the message that opens the stream has not given FIN.
LEMMA UntouchedStays ==
    ASSUME ControlInv, LiveInv, quic["server"].open, wire["client"] # <<>>, Untouched
    PROVE  ~Gone("server") /\ ~quic["server"].fin
<1> USE TwoEnds
<1>1. closed_with["server"] = "none"
  BY DEF ControlInv, FinOK, FinAt
<1>2. ~ctx["server"].is_local_finished
  BY NewShape DEF Untouched
<1>3. PollAt("server")
  BY DEF LiveInv, LiveAt
<1> QED
  BY <1>1, <1>2, <1>3 DEF PollAt, Gone

\* The server takes a part of the message that opens the stream, or its end, and
\* has context x from then on, q being picoquic's view.
LEMMA ServerLive ==
    ASSUME ControlInv, LiveInv, quic["server"].open, wire["client"] # <<>>,
           NEW c, c = Head(wire["client"]), Opens(c), Untouched,
           wire' = [wire EXCEPT !["client"] = Tail(@)],
           UNCHANGED <<kind, rcv, closed_with>>, src'.final = src.final,
           NEW x \in StreamContexts, ctx' = [ctx EXCEPT !["server"] = x],
           x.alive, ~x.is_peer_finished, ~x.is_local_finished,
           ~x.is_start_sent, ~x.is_final_sent,
           x.send_state \in {"ready", "initial", "start_point"},
           NEW q \in QuicViews, quic' = [quic EXCEPT !["server"] = q],
           q.open, ~q.fin, Polled(x, q),
           kind = "post" /\ c.whole => x.send_state = "initial" /\ x.start = c.msg.point,
           kind = "request" =>
             /\ Sending(x) => x.receive_state = "done" /\ x.final = src.final
             /\ x.send_state = "start_point" => x.start # 0 /\ x.receive_state = "done"
    PROVE  LiveInv'
<1> USE TwoEnds
<1>1. /\ ctx \in [Ends -> StreamContexts] /\ quic \in [Ends -> QuicViews]
      /\ wire \in [Ends -> Seq(Chunks)]
  BY LiveShape
<1>2. ~Gone("server") /\ ~quic["server"].fin
  BY UntouchedStays
<1>3. /\ ctx'["server"] = x /\ ctx'["client"] = ctx["client"]
      /\ quic'["server"] = q /\ quic'["client"] = quic["client"]
  BY <1>1
<1>4. kind # "none"
  BY DEF ControlInv, UnopenedOK
<1>5. ~c.fin /\ c.msg.type = Opening
  BY DEF Opens
<1>6. PICK d \in Ends : d = "client"
  OBVIOUS
<1>7. TakenFrom(d, c)
  BY <1>1, <1>6, TakingKeeps
<1>8. \A e \in Ends : Gone(e)' <=> Gone(e)
  <2>1. /\ quic'["client"].open <=> quic["client"].open
        /\ quic'["server"].open <=> quic["server"].open
    BY <1>3
  <2> QED
    BY <2>1 DEF Gone, Ends
<1>9. LiveAt("client")'
  BY <1>3, <1>8, LiveAtKept DEF LiveInv
<1>10. LiveAt("server")'
  BY <1>2, <1>3, <1>8 DEF LiveAt, PollAt
<1>11. FinTold("server")'
  BY <1>3 DEF FinTold
<1>12. FinTold("client")'
  <2>1. ~ctx["server"].is_peer_finished
    BY NewShape DEF Untouched
  <2>2. FinOnTheWay("client") => FinOnTheWay("client")'
    BY <1>5, <1>7 DEF TakenFrom
  <2> QED
    BY <1>2, <1>3, <2>1, <2>2 DEF FinTold, LiveInv
<1>13. Sender' = Sender /\ Receiver' = Receiver
  BY DEF Sender, Receiver
<1>14. ctx["server"].start = 0 /\ ctx["server"].send_state = "ready"
  BY NewShape DEF Untouched
<1>15. StartTold /\ FinalTold /\ AcceptTold /\ SenderStays
  BY DEF LiveInv
<1>16. CASE kind = "post"
  <2>1. Sender = "client" /\ Receiver = "server" /\ Opening = "POST"
    BY <1>16 DEF Sender, Receiver, Peer, Opening
  <2>2. StartTold'
    <3>1. StartOnTheWay => StartOnTheWay' \/ x.start # 0
      BY <1>7, <1>16 DEF TakenFrom
    <3> QED
      BY <1>2, <1>3, <1>13, <1>14, <1>15, <2>1, <3>1 DEF StartTold
  <2>3. FinalTold'
    <3>1. OnTheWay("client", "FIN_DATAGRAM") => OnTheWay("client", "FIN_DATAGRAM")'
      <4>1. c.msg.type # "FIN_DATAGRAM" /\ "FIN_DATAGRAM" \in MessageTypes
        BY <1>5, <2>1 DEF MessageTypes
      <4> QED
        BY <1>7, <4>1 DEF TakenFrom
    <3> QED
      BY <1>3, <1>8, <1>13, <1>15, <2>1, <3>1 DEF FinalTold
  <2>4. AcceptTold'
    <3>1. OnTheWay("client", "POST") => OnTheWay("client", "POST")' \/ x.send_state = "initial"
      <4>1. "POST" \in MessageTypes
        BY DEF MessageTypes
      <4> QED
        BY <1>7, <1>16, <4>1 DEF TakenFrom
    <3>2. OnTheWay("server", "ACCEPT") => OnTheWay("server", "ACCEPT")'
      <4>1. "ACCEPT" \in MessageTypes
        BY DEF MessageTypes
      <4> QED
        BY <1>6, <1>7, <4>1 DEF TakenFrom
    <3> QED
      BY <1>2, <1>3, <1>14, <1>15, <3>1, <3>2 DEF AcceptTold
  <2>5. SenderStays'
    BY <1>3, <1>13, <1>15, <2>1 DEF SenderStays
  <2> QED
    BY <1>9, <1>10, <1>11, <1>12, <2>2, <2>3, <2>4, <2>5 DEF LiveInv, Ends
<1>17. CASE kind = "request"
  <2>1. Sender = "server" /\ Receiver = "client"
    BY <1>17 DEF Sender, Receiver, Peer
  <2>2. StartTold' /\ FinalTold' /\ SenderStays'
    BY <1>3, <1>13, <1>17, <2>1 DEF StartTold, FinalTold, SenderStays
  <2>3. AcceptTold'
    BY <1>17 DEF AcceptTold
  <2> QED
    BY <1>9, <1>10, <1>11, <1>12, <2>2, <2>3 DEF LiveInv, Ends
<1> QED
  BY <1>4, <1>16, <1>17 DEF ControlInv, ControlTypeOK

LEMMA ReceivePartLive ==
    ASSUME ControlInv, LiveInv, quic["server"].open, wire["client"] # <<>>,
           NEW c, c = Head(wire["client"]), Opens(c), Untouched,
           wire' = [wire EXCEPT !["client"] = Tail(@)],
           UNCHANGED <<kind, quic, src, rcv, closed_with>>,
           ctx' = [ctx EXCEPT !["server"] = NewStream],
           ~c.whole \/ kind = "request"
    PROVE  LiveInv'
<1>1. quic \in [Ends -> QuicViews]
  BY LiveShape
<1>2. PICK q \in QuicViews : q = quic["server"]
  BY <1>1, TwoEnds
<1>3. ~q.fin
  BY <1>2, UntouchedStays
<1>4. quic' = [quic EXCEPT !["server"] = q]
  BY <1>1, <1>2
<1>5. /\ NewStream.alive /\ ~NewStream.is_peer_finished /\ ~NewStream.is_local_finished
      /\ ~NewStream.is_start_sent /\ ~NewStream.is_final_sent
      /\ NewStream.send_state = "ready" /\ NewStream.receive_state # "done"
  BY NewShape
<1>6. Polled(NewStream, q)
  BY <1>5 DEF Polled
<1>7. ~Sending(NewStream)
  BY NewShape DEF Sending
<1> QED
  BY <1>2, <1>3, <1>4, <1>5, <1>6, <1>7, NewStreamType, ServerLive

LEMMA ReceivePostLive ==
    ASSUME ControlInv, LiveInv, quic["server"].open, wire["client"] # <<>>,
           NEW c \in Chunks, c = Head(wire["client"]), Opens(c), Untouched, kind # "request",
           wire' = [wire EXCEPT !["client"] = Tail(@)],
           UNCHANGED kind, ReceivePost("server", c.msg)
    PROVE  LiveInv'
<1> USE TwoEnds
<1>1. quic["server"] \in QuicViews
  BY LiveShape
<1>2. ~quic["server"].fin
  BY UntouchedStays
<1>3. PICK m : m = Message("ACCEPT", 0, FALSE)
  OBVIOUS
<1>4. m \in Messages /\ m.type = "ACCEPT"
  BY <1>3, PointsNat DEF Message, Messages, MessageTypes
<1>5. PICK u : u = Queue(NewStream, "initial", m)
  OBVIOUS
<1>6. /\ u = [NewStream EXCEPT !.send_state = "initial", !.message_sent = m, !.left = 1]
      /\ u \in StreamContexts
  BY <1>4, <1>5, NewStreamType, QueueType DEF Queue, SendStates
<1>7. PICK p \in Points : p = c.msg.point
  BY DEF Chunks, Messages
<1>8. PICK x : x = [u EXCEPT !.receive_state = "fragment", !.media_id = TRUE, !.start = p]
  OBVIOUS
<1>9. x \in StreamContexts
  <2>1. u \in StreamContexts
    BY <1>6
  <2> QED
    BY <1>8, <2>1 DEF StreamContexts, ReceiveStates
<1>10. /\ x.alive /\ ~x.is_peer_finished /\ ~x.is_local_finished
       /\ ~x.is_start_sent /\ ~x.is_final_sent /\ x.send_state = "initial" /\ x.start = p
  BY <1>6, <1>8 DEF NewStream
<1>11. PICK q : q = Marked(quic["server"], TRUE)
  OBVIOUS
<1>12. q \in QuicViews /\ q.open /\ ~q.fin /\ q.active
  BY <1>1, <1>2, <1>11, MarkedActive
<1>13. /\ ctx' = [ctx EXCEPT !["server"] = x] /\ quic' = [quic EXCEPT !["server"] = q]
       /\ UNCHANGED <<src, rcv, closed_with>>
  BY <1>3, <1>5, <1>7, <1>8, <1>11, UntouchedFound DEF ReceivePost
<1>14. Polled(x, q)
  BY <1>10, <1>12 DEF Polled
<1> QED
  BY <1>7, <1>9, <1>10, <1>12, <1>13, <1>14, ServerLive

\* quicrq_wakeup_media_stream has a stream polled that has something to say.
LEMMA WakeActive ==
    ASSUME NEW q \in QuicViews, ~q.fin, NEW s \in StreamContexts, NEW source,
           NEW t, t = WakeupCopied(s, source), NEW r, r = WakeupMarked(s, q, source),
           StartPending(t) \/ PolicyPending(t) \/ FinalPending(t)
    PROVE  r.active
<1>1. r = Marked(q, TRUE)
  BY DEF WakeupMarked
<1> QED
  BY <1>1, MarkedActive

LEMMA ReceiveRequestLive ==
    ASSUME ControlInv, LiveInv, quic["server"].open, wire["client"] # <<>>,
           NEW c \in Chunks, c = Head(wire["client"]), Opens(c), Untouched, kind = "request",
           wire' = [wire EXCEPT !["client"] = Tail(@)],
           UNCHANGED kind, ReceiveRequest("server", c.msg)
    PROVE  LiveInv'
<1> USE TwoEnds
<1>1. PICK z \in QuicViews : z = quic["server"]
  BY LiveShape
<1>2. ~z.fin
  BY <1>1, UntouchedStays
<1>3. src \in SourceRecords
  BY LiveShape
<1>4. PICK source \in SourceRecords : source = src
  BY <1>3
<1>5. PICK p \in Points : p = c.msg.point
  BY DEF Chunks, Messages
<1>6. PICK s : s = Subscribed(NewStream)
  OBVIOUS
<1>7. /\ s \in StreamContexts /\ s.alive /\ s.media_source /\ s.send_state = "ready"
      /\ s.final = 0 /\ ~s.is_start_sent /\ ~s.is_final_sent
      /\ ~s.is_peer_finished /\ ~s.is_local_finished
  <2>1. src.start \in Points /\ src.is_cache_real_time \in BOOLEAN
    BY <1>3 DEF SourceRecords
  <2>2. s \in StreamContexts
    BY <1>6, <2>1, NewStreamType DEF Subscribed, StreamContexts
  <2> QED
    BY <1>6, <2>2 DEF Subscribed, NewStream
<1>8. PICK u, q : u = WakeupCopied(s, source) /\ q = WakeupMarked(s, z, source)
  OBVIOUS
<1>9. LiveAt("server")
  BY DEF LiveInv
<1>10. z.active => ~z.fin
  BY <1>2
<1>11. /\ Alike(s, u) /\ u.is_final_sent = s.is_final_sent
       /\ u.is_local_finished = s.is_local_finished
       /\ q \in QuicViews /\ q.open = z.open /\ q.fin = z.fin
       /\ u.final = IF ~s.is_final_sent /\ s.media_source /\ source.final # 0
                    THEN source.final ELSE s.final
  BY <1>2, <1>7, <1>8, <1>10, WakePolled
<1>12. u \in StreamContexts
  BY <1>3, <1>4, <1>7, <1>8, WakeupShape
<1>13. u.final = src.final
  BY <1>4, <1>7, <1>11
<1>14. StartPending(u) \/ PolicyPending(u) \/ FinalPending(u) => q.active
  BY <1>2, <1>7, <1>8, WakeActive
<1>15. PICK t : t = [u EXCEPT !.is_sender = TRUE, !.media_id = TRUE, !.receive_state = "done"]
  OBVIOUS
<1>16. /\ t \in StreamContexts /\ t.send_state = "ready" /\ t.receive_state = "done"
       /\ t.alive /\ ~t.is_peer_finished /\ ~t.is_local_finished
       /\ ~t.is_start_sent /\ ~t.is_final_sent /\ t.final = src.final
       /\ t.start = u.start /\ t.is_cache_real_time = u.is_cache_real_time
       /\ t.is_cache_policy_sent = u.is_cache_policy_sent
       /\ ~u.is_start_sent /\ ~u.is_final_sent
  <2>1. t \in StreamContexts
    BY <1>12, <1>15 DEF StreamContexts, ReceiveStates
  <2> QED
    BY <1>7, <1>11, <1>12, <1>13, <1>15, <2>1 DEF StreamContexts, Alike
<1>17. /\ \/ /\ p > 0
             /\ ctx' = [ctx EXCEPT !["server"] =
                         Queue([t EXCEPT !.start = p], "start_point",
                               Message("START_POINT", p, FALSE))]
             /\ quic' = [quic EXCEPT !["server"] = Marked(q, TRUE)]
             /\ src' = [src EXCEPT !.from = p]
          \/ /\ ctx' = [ctx EXCEPT !["server"] = t]
             /\ quic' = [quic EXCEPT !["server"] = q]
             /\ src' = [src EXCEPT !.from = src.start]
       /\ UNCHANGED <<rcv, closed_with>>
  BY <1>1, <1>4, <1>5, <1>6, <1>8, <1>15, UntouchedFound DEF ReceiveRequest
<1>18. CASE /\ p > 0
            /\ ctx' = [ctx EXCEPT !["server"] =
                         Queue([t EXCEPT !.start = p], "start_point",
                               Message("START_POINT", p, FALSE))]
            /\ quic' = [quic EXCEPT !["server"] = Marked(q, TRUE)]
            /\ src' = [src EXCEPT !.from = p]
  <2>1. PICK a, m : a = [t EXCEPT !.start = p] /\ m = Message("START_POINT", p, FALSE)
    OBVIOUS
  <2>2. a \in StreamContexts
    BY <1>16, <2>1 DEF StreamContexts
  <2>3. m \in Messages /\ m.type = "START_POINT"
    BY <2>1 DEF Message, Messages, MessageTypes
  <2>4. PICK b : b = Queue(a, "start_point", m)
    OBVIOUS
  <2>5. b \in StreamContexts
    BY <2>2, <2>3, <2>4, QueueType DEF SendStates
  <2>6. b = [a EXCEPT !.send_state = "start_point", !.message_sent = m, !.left = 1]
    BY <2>3, <2>4 DEF Queue
  <2>7. /\ b.alive /\ b.send_state = "start_point" /\ b.receive_state = "done"
        /\ ~b.is_peer_finished /\ ~b.is_local_finished
        /\ ~b.is_start_sent /\ ~b.is_final_sent /\ b.final = src.final /\ b.start = p
    BY <1>16, <2>1, <2>2, <2>6 DEF StreamContexts
  <2>8. PICK k : k = Marked(q, TRUE)
    OBVIOUS
  <2>9. k \in QuicViews /\ k.open /\ ~k.fin /\ k.active
    <3>1. q.open /\ ~q.fin
      BY <1>1, <1>2, <1>11
    <3> QED
      BY <1>11, <2>8, <3>1, MarkedActive
  <2>10. Polled(b, k)
    BY <2>7, <2>9 DEF Polled
  <2>11. b.start # 0
    BY <1>18, <2>7, PointsNat
  <2>12. src'.final = src.final
    BY <1>3, <1>18 DEF SourceRecords
  <2>13. ctx' = [ctx EXCEPT !["server"] = b] /\ quic' = [quic EXCEPT !["server"] = k]
    BY <1>18, <2>1, <2>4, <2>8
  <2> QED
    BY <1>17, <2>5, <2>7, <2>9, <2>10, <2>11, <2>12, <2>13, ServerLive
<1>19. CASE /\ ctx' = [ctx EXCEPT !["server"] = t]
            /\ quic' = [quic EXCEPT !["server"] = q]
            /\ src' = [src EXCEPT !.from = src.start]
  <2>1. src'.final = src.final
    BY <1>3, <1>19 DEF SourceRecords
  <2>2. Polled(t, q)
    <3>1. StartPending(t) => StartPending(u)
      BY <1>16 DEF StartPending
    <3>2. PolicyPending(t) => PolicyPending(u)
      BY <1>16 DEF PolicyPending
    <3>3. FinalPending(t) => FinalPending(u)
      BY <1>13, <1>16 DEF FinalPending
    <3> QED
      BY <1>14, <1>16, <3>1, <3>2, <3>3 DEF Polled
  <2>3. q.open /\ ~q.fin
    BY <1>1, <1>2, <1>11
  <2> QED
    BY <1>11, <1>16, <1>17, <1>19, <2>1, <2>2, <2>3, ServerLive
<1> QED
  BY <1>17, <1>18, <1>19

\* The client that posts a media and gets ACCEPT, or waits for it, is not closing.
LEMMA WaitingClient ==
    ASSUME ControlInv, LiveInv, Sender = "client", quic["client"].open,
           wire["server"] # <<>>, ctx["client"].receive_state # "done"
    PROVE  /\ Sending(ctx["client"]) /\ ctx["client"].send_state = "ready"
           /\ ~ctx["client"].is_local_finished /\ ~ctx["client"].is_peer_finished
           /\ ~Gone("client") /\ ~quic["client"].fin
<1> USE TwoEnds
<1>1. FinAt("client") /\ RoleOK /\ OpeningOK /\ UnopenedOK
  BY DEF ControlInv, FinOK
<1>2. ~Gone("client") /\ ~ctx["client"].is_peer_finished
  BY <1>1 DEF FinAt, Gone
<1>3. kind # "none" /\ ctx["client"].alive
  BY <1>1, <1>2 DEF UnopenedOK, RoleOK, Gone
<1>4. Sending(ctx["client"])
  BY <1>1, <1>3 DEF RoleOK
<1>5. ctx["client"].send_state \notin {"fin", "no_more", "start_point"}
  BY <1>2 DEF LiveInv, SenderStays
<1>6. ctx["client"].send_state # "initial"
  BY <1>1 DEF OpeningOK, Untouched
<1>7. PollAt("client")
  BY DEF LiveInv, LiveAt
<1> QED
  BY <1>2, <1>4, <1>5, <1>6, <1>7 DEF PollAt, Sending

LEMMA ReceiveAcceptLive ==
    ASSUME ControlInv, LiveInv, quic["client"].open, wire["server"] # <<>>,
           NEW c, c = Head(wire["server"]), ~c.fin,
           ctx["client"].receive_state # "done", Sender = "client", Receiver = "server",
           wire' = [wire EXCEPT !["server"] = Tail(@)],
           UNCHANGED kind, ReceiveAccept("client", c.msg)
    PROVE  LiveInv'
<1> USE TwoEnds
<1> DEFINE f == ctx["client"]
<1>1. /\ ctx \in [Ends -> StreamContexts] /\ quic \in [Ends -> QuicViews]
      /\ wire \in [Ends -> Seq(Chunks)] /\ src \in SourceRecords
  BY LiveShape
<1>2. /\ Sending(f) /\ f.send_state = "ready"
      /\ ~f.is_local_finished /\ ~f.is_peer_finished
      /\ ~Gone("client") /\ ~quic["client"].fin
  BY WaitingClient
<1>3. PICK source \in SourceRecords : source = src
  BY <1>1
<1>4. Found("client") = f /\ f \in StreamContexts
  BY <1>1, <1>2 DEF Found, Sending
<1>5. PICK s : s = [f EXCEPT !.is_sender = TRUE, !.media_id = TRUE,
                             !.send_state = "ready", !.receive_state = "done"]
  OBVIOUS
<1>6. /\ s \in StreamContexts /\ s.send_state = "ready" /\ s.receive_state = "done"
      /\ s.alive /\ s.media_source /\ ~s.is_local_finished /\ ~s.is_peer_finished
      /\ s.is_start_sent = f.is_start_sent /\ s.is_final_sent = f.is_final_sent
      /\ s.start = f.start /\ s.final = f.final
  <2>1. s \in StreamContexts
    BY <1>4, <1>5 DEF StreamContexts, ReceiveStates, SendStates
  <2>2. f.alive /\ f.media_source
    BY <1>2 DEF Sending
  <2> HIDE DEF f
  <2> QED
    BY <1>2, <1>4, <1>5, <2>1, <2>2 DEF StreamContexts
<1>7. PICK on \in BOOLEAN : on = (StartPending(s) \/ PolicyPending(s))
  OBVIOUS
<1>8. PICK z : z = Marked(quic["client"], on)
  OBVIOUS
<1>9. z \in QuicViews /\ z.open /\ ~z.fin
  <2>1. quic["client"] \in QuicViews
    BY <1>1
  <2> QED
    BY <1>2, <1>7, <1>8, <2>1, MarkedShape
<1>10. PICK t, q : t = WakeupCopied(s, source) /\ q = WakeupMarked(s, z, source)
  OBVIOUS
<1>11. /\ Alike(s, t) /\ t.is_final_sent = s.is_final_sent
       /\ t.is_local_finished = s.is_local_finished /\ t.start = s.start
       /\ q \in QuicViews /\ q.open = z.open /\ q.fin = z.fin
       /\ t.final = IF ~s.is_final_sent /\ s.media_source /\ source.final # 0
                    THEN source.final ELSE s.final
  <2>1. z.active => ~z.fin
    BY <1>9
  <2>2. s \in StreamContexts /\ z \in QuicViews /\ ~z.fin
    BY <1>6, <1>9
  <2>3. t = WakeupCopied(s, source) /\ q = WakeupMarked(s, z, source)
    BY <1>10
  <2> QED
    BY <2>1, <2>2, <2>3, WakePolled
<1>12. StartPending(t) \/ PolicyPending(t) \/ FinalPending(t) => q.active
  BY <1>6, <1>9, <1>10, WakeActive
<1>13. /\ t.send_state = "ready" /\ t.receive_state = "done" /\ t.alive
       /\ ~t.is_local_finished /\ ~t.is_peer_finished
       /\ t.is_start_sent = f.is_start_sent /\ t.is_final_sent = f.is_final_sent
  BY <1>6, <1>11 DEF Alike
<1>14. Polled(t, q)
  BY <1>12, <1>13 DEF Polled
<1>15. /\ ctx' = [ctx EXCEPT !["client"] = t] /\ quic' = [quic EXCEPT !["client"] = q]
       /\ UNCHANGED <<src, rcv, closed_with>>
  BY <1>3, <1>4, <1>5, <1>7, <1>8, <1>10 DEF ReceiveAccept
<1>16. /\ ctx'["client"] = t /\ ctx'["server"] = ctx["server"]
       /\ quic'["client"] = q /\ quic'["server"] = quic["server"] /\ q.open /\ ~q.fin
  BY <1>1, <1>9, <1>11, <1>15
<1>17. \A e \in Ends : Gone(e)' <=> Gone(e)
  <2>1. /\ quic'["client"].open <=> quic["client"].open
        /\ quic'["server"].open <=> quic["server"].open
    BY <1>16
  <2> QED
    BY <1>15, <2>1 DEF Gone, Ends
<1>18. LiveAt("client")'
  BY <1>2, <1>13, <1>14, <1>16, <1>17 DEF LiveAt, PollAt
<1>19. LiveAt("server")'
  BY <1>16, <1>17, LiveAtKept DEF LiveInv
<1>20. PICK d \in Ends : d = "server"
  OBVIOUS
<1>21. TakenFrom(d, c)
  BY <1>1, <1>20, TakingKeeps
<1>22. Sender' = Sender /\ Receiver' = Receiver
  BY DEF Sender, Receiver
<1>23. FinTold("client")' /\ FinTold("server")'
  <2>1. FinOnTheWay("server") => FinOnTheWay("server")'
    BY <1>20, <1>21 DEF TakenFrom
  <2> QED
    BY <1>2, <1>16, <1>17, <2>1 DEF FinTold, LiveInv
<1>24. StartTold'
  <2>1. StartOnTheWay => StartOnTheWay'
    BY <1>20, <1>21 DEF TakenFrom
  <2> QED
    BY <1>2, <1>13, <1>16, <1>17, <1>22, <2>1 DEF StartTold, LiveInv
<1>25. FinalTold'
  <2>1. OnTheWay("client", "FIN_DATAGRAM") => OnTheWay("client", "FIN_DATAGRAM")'
    BY <1>20, <1>21 DEF TakenFrom, MessageTypes
  <2>2. FinalTold /\ f.final \in {0, src.final}
    BY DEF LiveInv, ControlInv, PointsOK
  <2>3. t.final = src.final
    BY <1>3, <1>6, <1>11, <2>2 DEF FinalTold
  <2> QED
    BY <1>13, <1>15, <1>16, <1>17, <1>22, <2>1, <2>2, <2>3 DEF FinalTold
<1>26. AcceptTold' /\ SenderStays'
  BY <1>13, <1>16, <1>22 DEF AcceptTold, SenderStays
<1> QED
  BY <1>18, <1>19, <1>23, <1>24, <1>25, <1>26 DEF LiveInv, Ends

\* FIN comes: what the end finds of its context, and that it has not given FIN
\* unless it has finished its side.
LEMMA FinComes ==
    ASSUME ControlInv, LiveInv, NEW e \in Ends, quic[e].open, NEW d \in Ends, d = Peer(e),
           wire[d] # <<>>, NEW f, f = Found(e)
    PROVE  /\ f \in StreamContexts /\ f.alive
           /\ \/ f = ctx[e] /\ ctx[e].alive
              \/ f = NewStream /\ ctx[e] = NoStream /\ e = "server"
           /\ ~Gone(e) /\ ~f.is_peer_finished
           /\ quic[e].fin => f = ctx[e] /\ f.is_local_finished
           /\ f.is_local_finished => f = ctx[e] /\ quic[e].fin /\ e = Receiver
<1> USE TwoEnds
<1>1. /\ UnopenedOK /\ FinAt(e) /\ RoleOK /\ ctx \in [Ends -> StreamContexts]
  BY LiveShape DEF ControlInv, FinOK
<1>2. ~Gone(e) /\ ~ctx[e].is_peer_finished /\ kind # "none" /\ closed_with[e] = "none"
  BY <1>1 DEF FinAt, Gone, UnopenedOK
<1>3. \/ f = ctx[e] /\ ctx[e].alive
      \/ f = NewStream /\ ctx[e] = NoStream /\ e = "server"
  <2>1. e = "client" => ctx[e].alive
    BY <1>1, <1>2 DEF RoleOK
  <2> QED
    BY <1>1, <2>1 DEF Found, FinAt, Ends
<1>4. f \in StreamContexts /\ f.alive /\ ~f.is_peer_finished
  BY <1>1, <1>2, <1>3, NewStreamType, NewShape
<1>5. PollAt(e) /\ SenderStays
  BY DEF LiveInv, LiveAt
<1>6. quic[e].fin => f = ctx[e] /\ f.is_local_finished
  BY <1>2, <1>3, <1>5, NoShape DEF PollAt
<1>7. f.is_local_finished => f = ctx[e] /\ quic[e].fin
  BY <1>3, <1>5, NewShape DEF PollAt
<1>8. f.is_local_finished => e # Sender
  BY <1>5, <1>7 DEF PollAt, SenderStays
<1> QED
  BY <1>2, <1>3, <1>4, <1>6, <1>7, <1>8

\* What the stream keeps when end e takes FIN of its peer d.
LEMMA FinTaken ==
    ASSUME kind' = kind, wire \in [Ends -> Seq(Chunks)], NEW d \in Ends, wire[d] # <<>>,
           wire' = [wire EXCEPT ![d] = Tail(@)], NEW c, c = Head(wire[d]), c.fin
    PROVE  /\ StartOnTheWay => StartOnTheWay'
           /\ \A e \in Ends : e # d => (FinOnTheWay(e) => FinOnTheWay(e)')
           /\ OnTheWay(Sender, "FIN_DATAGRAM") => OnTheWay(Sender, "FIN_DATAGRAM")'
<1>1. Sender' = Sender /\ Sender \in Ends
  BY DEF Sender, Ends
<1>2. TakenFrom(d, c)
  BY TakingKeeps
<1>3. "FIN_DATAGRAM" \in MessageTypes
  BY DEF MessageTypes
<1> QED
  BY <1>1, <1>2, <1>3 DEF TakenFrom

\* The receiver, which gave FIN before, is done with the stream.
LEMMA FinLastLive ==
    ASSUME ControlInv, LiveInv, NEW e \in Ends, quic[e].open, NEW d \in Ends, d = Peer(e),
           wire[d] # <<>>, NEW c, c = Head(wire[d]), c.fin,
           wire' = [wire EXCEPT ![d] = Tail(@)], UNCHANGED <<kind, src, rcv>>,
           ctx[e].alive, ctx[e].is_local_finished,
           ctx' = [ctx EXCEPT ![e] = NoStream],
           quic' = [quic EXCEPT ![e] = [@ EXCEPT !.active = FALSE, !.fin = TRUE]],
           NEW r \in Reasons, closed_with' = [closed_with EXCEPT ![e] = r]
    PROVE  LiveInv'
<1> USE TwoEnds
<1>1. /\ ctx \in [Ends -> StreamContexts] /\ quic \in [Ends -> QuicViews]
      /\ wire \in [Ends -> Seq(Chunks)] /\ closed_with \in [Ends -> Reasons \cup {"none"}]
  BY LiveShape
<1>2. Found(e) = ctx[e]
  BY DEF Found
<1>3. quic[e].fin /\ e = Receiver /\ d = Sender
  BY <1>2, FinComes
<1>4. d # e /\ Ends = {d, e} /\ Peer(d) = e
  BY DEF Peer, Ends
<1>5. quic[e] \in QuicViews
  BY <1>1
<1>6. /\ ctx'[e] = NoStream /\ ctx'[d] = ctx[d] /\ quic'[d] = quic[d]
      /\ ~quic'[e].active /\ quic'[e].fin /\ quic'[e].open
      /\ closed_with'[d] = closed_with[d] /\ closed_with'[e] = r
  <2>1. quic'[e] = [quic[e] EXCEPT !.active = FALSE, !.fin = TRUE]
    BY <1>1
  <2> QED
    BY <1>1, <1>4, <1>5, <2>1 DEF QuicViews
<1>7. Gone(e)' /\ (Gone(d)' <=> Gone(d))
  BY <1>6 DEF Gone, Reasons
<1>8. LiveAt(d)'
  BY <1>6, <1>7, LiveAtKept DEF LiveInv
<1>9. LiveAt(e)'
  BY <1>6, <1>7, NoShape DEF LiveAt, PollAt
<1>10. /\ StartOnTheWay => StartOnTheWay'
       /\ FinOnTheWay(e) => FinOnTheWay(e)'
  BY <1>1, <1>4, FinTaken
<1>11. FinTold(d)'
  BY <1>4, <1>7 DEF FinTold
<1>12. FinTold(e)'
  BY <1>3, <1>6, <1>7, <1>10 DEF FinTold, LiveInv
<1>13. Sender' = Sender /\ Receiver' = Receiver
  BY DEF Sender, Receiver
<1>14. StartTold' /\ FinalTold' /\ SenderStays'
  BY <1>3, <1>6, <1>7, <1>13 DEF StartTold, FinalTold, SenderStays, LiveInv
<1>15. AcceptTold'
  <2>1. kind' = "post" => e = "server"
    BY <1>3 DEF Sender, Receiver, Peer
  <2> QED
    BY <1>7, <2>1 DEF AcceptTold
<1> QED
  BY <1>4, <1>8, <1>9, <1>11, <1>12, <1>14, <1>15 DEF LiveInv

\* The end closes its side because its peer has.
LEMMA FinFirstLive ==
    ASSUME ControlInv, LiveInv, NEW e \in Ends, quic[e].open, NEW d \in Ends, d = Peer(e),
           wire[d] # <<>>, NEW c, c = Head(wire[d]), c.fin,
           wire' = [wire EXCEPT ![d] = Tail(@)], UNCHANGED <<kind, src, rcv, closed_with>>,
           NEW f, f = Found(e), ~f.is_local_finished, NEW y \in StreamContexts,
           y = [f EXCEPT !.is_peer_finished = TRUE, !.send_state = "fin"],
           ctx' = [ctx EXCEPT ![e] = y], quic' = [quic EXCEPT ![e] = Marked(@, TRUE)]
    PROVE  LiveInv'
<1> USE TwoEnds
<1>1. /\ ctx \in [Ends -> StreamContexts] /\ quic \in [Ends -> QuicViews]
      /\ wire \in [Ends -> Seq(Chunks)]
  BY LiveShape
<1>2. /\ f \in StreamContexts /\ f.alive
      /\ \/ f = ctx[e] /\ ctx[e].alive
         \/ f = NewStream /\ ctx[e] = NoStream /\ e = "server"
      /\ ~Gone(e) /\ ~quic[e].fin
  BY FinComes
<1>3. /\ y.alive /\ y.send_state = "fin" /\ y.is_peer_finished /\ ~y.is_local_finished
      /\ y.is_sender = f.is_sender /\ y.media_source = f.media_source
      /\ y.is_start_sent = f.is_start_sent /\ y.is_final_sent = f.is_final_sent
      /\ y.start = f.start /\ y.final = f.final /\ y.receive_state = f.receive_state
  BY <1>2 DEF StreamContexts
<1>4. PICK q : q = Marked(quic[e], TRUE)
  OBVIOUS
<1>5. q.open /\ ~q.fin /\ q.active
  <2>1. quic[e] \in QuicViews
    BY <1>1
  <2> QED
    BY <1>2, <1>4, <2>1, MarkedActive
<1>6. d # e /\ Ends = {d, e} /\ Peer(d) = e
  BY DEF Peer, Ends
<1>7. /\ ctx'[e] = y /\ quic'[e] = q /\ ctx'[d] = ctx[d] /\ quic'[d] = quic[d]
  BY <1>1, <1>4, <1>6
<1>8. (Gone(d)' <=> Gone(d)) /\ (Gone(e)' <=> Gone(e))
  <2>1. (quic'[e].open <=> quic[e].open) /\ quic'[d] = quic[d]
    BY <1>5, <1>7
  <2> QED
    BY <2>1 DEF Gone
<1>9. LiveAt(d)'
  BY <1>7, <1>8, LiveAtKept DEF LiveInv
<1>10. LiveAt(e)'
  BY <1>2, <1>3, <1>5, <1>7, <1>8 DEF LiveAt, PollAt, Polled
<1>11. /\ StartOnTheWay => StartOnTheWay'
       /\ OnTheWay(Sender, "FIN_DATAGRAM") => OnTheWay(Sender, "FIN_DATAGRAM")'
  BY <1>1, FinTaken
<1>12. FinTold(e)' /\ FinTold(d)'
  BY <1>3, <1>5, <1>6, <1>7 DEF FinTold
<1>13. Sender' = Sender /\ Receiver' = Receiver
  BY DEF Sender, Receiver
<1>14. StartTold /\ FinalTold /\ SenderStays
  BY DEF LiveInv
<1>15. AcceptTold'
  <2>1. CASE e = "client"
    BY <1>3, <1>7, <2>1 DEF AcceptTold
  <2>2. CASE e = "server"
    <3>1. ctx'["server"].send_state = "fin"
      BY <1>3, <1>7, <2>2
    <3> QED
      BY <3>1 DEF AcceptTold
  <2> QED
    BY <2>1, <2>2 DEF Ends
<1>16. CASE e = Receiver
  <2>1. d = Sender
    BY <1>16
  <2>2. ctx[Receiver].start = y.start
    BY <1>2, <1>3, <1>16, NewShape
  <2>3. StartTold' /\ FinalTold' /\ SenderStays'
    BY <1>7, <1>8, <1>11, <1>13, <1>14, <1>16, <2>1, <2>2 DEF StartTold, FinalTold, SenderStays
  <2> QED
    BY <1>6, <1>9, <1>10, <1>12, <1>15, <2>3 DEF LiveInv
<1>17. CASE e = Sender
  <2>1. d = Receiver
    BY <1>17
  <2>2. Sending(y) => f = ctx[e] /\ Sending(ctx[e])
    <3>1. Sending(y) => f.media_source
      BY <1>3 DEF Sending
    <3>2. f.media_source => f = ctx[e]
      BY <1>2, NewShape
    <3>3. f = ctx[e] /\ f.media_source => Sending(ctx[e])
      BY <1>2, <1>17, FreshShape DEF ControlInv, RoleOK
    <3> QED
      BY <3>1, <3>2, <3>3
  <2>3. SenderStays'
    BY <1>3, <1>7, <1>13, <1>14, <1>17, <2>2 DEF SenderStays
  <2>4. ctx[e].send_state # "initial"
    <3>1. e = "client" => wire["server"] # <<>>
      OBVIOUS
    <3>2. OpeningOK /\ RoleOK
      BY DEF ControlInv
    <3>3. CASE e = "client"
      BY <3>1, <3>2, <3>3 DEF OpeningOK, Untouched
    <3>4. CASE e = "server"
      BY <1>17, <3>2, <3>4 DEF RoleOK
    <3> QED
      BY <3>3, <3>4 DEF Ends
  <2>5. StartTold'
    BY <1>3, <1>7, <1>8, <1>11, <1>13, <1>14, <1>17, <2>1, <2>2, <2>4 DEF StartTold
  <2>6. FinalTold'
    <3>1. y.is_final_sent => f = ctx[e]
      BY <1>2, <1>3, NewShape
    <3> QED
      BY <1>3, <1>7, <1>8, <1>11, <1>13, <1>14, <1>17, <2>1, <2>2, <3>1 DEF FinalTold
  <2> QED
    BY <1>6, <1>9, <1>10, <1>12, <1>15, <2>3, <2>5, <2>6 DEF LiveInv
<1> QED
  BY <1>16, <1>17

LEMMA ReceiveFinLive ==
    ASSUME ControlInv, LiveInv, NEW e \in Ends, quic[e].open, wire[Peer(e)] # <<>>,
           Head(wire[Peer(e)]).fin, wire' = [wire EXCEPT ![Peer(e)] = Tail(@)],
           UNCHANGED kind, ReceiveFin(e)
    PROVE  LiveInv'
<1> USE TwoEnds
<1>1. PICK d \in Ends : d = Peer(e)
  OBVIOUS
<1>2. PICK c, f : c = Head(wire[d]) /\ f = Found(e)
  OBVIOUS
<1>3. f \in StreamContexts /\ (f.is_local_finished => f = ctx[e] /\ ctx[e].alive)
  BY <1>1, <1>2, FinComes
<1>4. PICK s : s = [f EXCEPT !.is_peer_finished = TRUE]
  OBVIOUS
<1>5. s \in StreamContexts /\ s.is_local_finished = f.is_local_finished
  BY <1>3, <1>4 DEF StreamContexts
<1>6. CASE f.is_local_finished
  <2>1. PICK r : r = WithReason(s, "remote_application").close_reason
    OBVIOUS
  <2>2. r \in Reasons
    <3>1. WithReason(s, "remote_application") \in StreamContexts
      BY <1>5, ReasonShape DEF Reasons
    <3> QED
      BY <2>1, <3>1 DEF StreamContexts, Reasons
  <2>3. /\ ctx' = [ctx EXCEPT ![e] = NoStream]
        /\ quic' = [quic EXCEPT ![e] = [@ EXCEPT !.active = FALSE, !.fin = TRUE]]
        /\ closed_with' = [closed_with EXCEPT ![e] = r] /\ UNCHANGED <<src, rcv>>
    BY <1>2, <1>4, <1>5, <1>6, <2>1 DEF ReceiveFin, Delete
  <2> QED
    BY <1>1, <1>2, <1>3, <1>6, <2>2, <2>3, FinLastLive
<1>7. CASE ~f.is_local_finished
  <2>1. PICK y : y = [s EXCEPT !.send_state = "fin"]
    OBVIOUS
  <2>2. y \in StreamContexts
    BY <1>5, <2>1 DEF StreamContexts, SendStates
  <2>3. /\ ctx' = [ctx EXCEPT ![e] = y] /\ quic' = [quic EXCEPT ![e] = Marked(@, TRUE)]
        /\ UNCHANGED <<src, rcv, closed_with>>
    BY <1>2, <1>4, <1>5, <1>7, <2>1 DEF ReceiveFin
  <2>4. y = [f EXCEPT !.is_peer_finished = TRUE, !.send_state = "fin"]
    BY <1>4, <2>1
  <2> QED
    BY <1>1, <1>2, <1>7, <2>2, <2>3, <2>4, FinFirstLive
<1> QED
  BY <1>6, <1>7

\* Only picoquic's view changes, and each end is still polled for what it has to say.
LEMMA ViewLive ==
    ASSUME LiveInv, UNCHANGED <<kind, ctx, wire, src, rcv, closed_with>>,
           \A e \in Ends : /\ quic'[e].open <=> quic[e].open
                           /\ quic'[e].fin <=> quic[e].fin
                           /\ LiveAt(e)'
    PROVE  LiveInv'
<1> USE TwoEnds
<1>1. Sender' = Sender /\ Receiver' = Receiver
  BY DEF Sender, Receiver
<1>2. \A e \in Ends : Gone(e)' <=> Gone(e)
  BY DEF Gone
<1>3. OnTheWayKept
  BY GrowingKeeps
<1>4. \A e \in Ends : FinTold(e)'
  BY <1>2, <1>3 DEF LiveInv, FinTold, OnTheWayKept
<1>5. StartTold' /\ SenderStays'
  BY <1>1, <1>2, <1>3 DEF LiveInv, StartTold, SenderStays, OnTheWayKept
<1>6. /\ OnTheWay(Sender, "FIN_DATAGRAM") => OnTheWay(Sender, "FIN_DATAGRAM")'
      /\ \A e \in Ends, type \in {"POST", "ACCEPT"} : OnTheWay(e, type) => OnTheWay(e, type)'
  BY <1>3, KeptForReceiver
<1>7. FinalTold'
  BY <1>1, <1>2, <1>6 DEF LiveInv, FinalTold
<1>8. AcceptTold'
  BY <1>2, <1>6 DEF LiveInv, AcceptTold
<1> QED
  BY <1>4, <1>5, <1>7, <1>8 DEF LiveInv

LEMMA PrepareIdleLive ==
    ASSUME ControlInv, LiveInv, NEW e \in Ends, ctx[e].alive, ~quic[e].fin, PrepareIdle(e),
           UNCHANGED <<kind, src, rcv>>
    PROVE  LiveInv'
<1> USE TwoEnds
<1> DEFINE s == ctx[e]
<1>1. s \in StreamContexts /\ quic \in [Ends -> QuicViews] /\ RoleOK
  BY LiveShape DEF ControlInv
<1>2. /\ Chosen(s).send_state = "ready" /\ quic' = [quic EXCEPT ![e].active = FALSE]
      /\ UNCHANGED <<ctx, wire, closed_with>>
  BY DEF PrepareIdle
<1>3. PICK q : q = [quic[e] EXCEPT !.active = FALSE]
  OBVIOUS
<1>4. quic[e] \in QuicViews
  BY <1>1
<1>5. q.open = quic[e].open /\ q.fin = quic[e].fin /\ ~q.active
  BY <1>3, <1>4 DEF QuicViews
<1>6. quic'[e] = q /\ \A d \in Ends : d # e => quic'[d] = quic[d]
  BY <1>1, <1>2, <1>3
<1>7. s.send_state = "ready"
  BY <1>2 DEF Chosen
<1>8. s.receive_state = "done" => s.is_sender
  BY <1>1, FreshShape DEF RoleOK, Receiving, Sending
<1>9. s.is_sender => ~StartPending(s) /\ ~PolicyPending(s) /\ ~FinalPending(s)
  <2>1. ASSUME NEW state, NEW m, Chosen(s) = Queue(s, state, m)
        PROVE  state = "ready"
    <3>1. Queue(s, state, m).send_state = state
      BY <1>1 DEF Queue, StreamContexts
    <3> QED
      BY <1>2, <2>1, <3>1
  <2>2. ASSUME s.is_sender, StartPending(s)
        PROVE  FALSE
    <3>1. Chosen(s) = Queue(s, "start_point", Message("START_POINT", s.start, FALSE))
      BY <1>7, <2>2 DEF Chosen
    <3> QED
      BY <2>1, <3>1
  <2>3. ASSUME s.is_sender, ~StartPending(s), FinalPending(s)
        PROVE  FALSE
    <3>1. Chosen(s) = Queue(s, "final_point", Message("FIN_DATAGRAM", s.final, FALSE))
      BY <1>7, <2>3 DEF Chosen
    <3> QED
      BY <2>1, <3>1
  <2>4. ASSUME s.is_sender, ~StartPending(s), ~FinalPending(s), PolicyPending(s)
        PROVE  FALSE
    <3>1. Chosen(s) = Queue(s, "cache_policy", Message("CACHE_POLICY", 0, TRUE))
      BY <1>7, <2>4 DEF Chosen
    <3> QED
      BY <2>1, <3>1
  <2> QED
    BY <2>2, <2>3, <2>4
<1>10. Polled(s, q)
  BY <1>7, <1>8, <1>9 DEF Polled
<1>11. \A d \in Ends : Gone(d)' <=> Gone(d)
  BY <1>2, <1>5, <1>6 DEF Gone
<1>12. LiveAt(e)'
  <2>1. PollAt(e)
    BY DEF LiveInv, LiveAt
  <2>2. PollAt(e)'
    BY <1>2, <1>5, <1>6, <1>11, <2>1 DEF PollAt
  <2> QED
    BY <1>2, <1>6, <1>10, <2>2 DEF LiveAt
<1>13. ASSUME NEW d \in Ends, d # e
       PROVE  LiveAt(d)'
  BY <1>2, <1>6, <1>11, <1>13, LiveAtKept DEF LiveInv
<1>14. \A d \in Ends : (quic'[d].open <=> quic[d].open) /\ (quic'[d].fin <=> quic[d].fin)
  BY <1>5, <1>6
<1> QED
  BY <1>2, <1>12, <1>13, <1>14, ViewLive

\* What is on the way after end e has sent FIN.
LEMMA FinSent ==
    ASSUME kind' = kind, wire \in [Ends -> Seq(Chunks)], NEW e \in Ends,
           wire' = [wire EXCEPT ![e] = Append(@, Fin)]
    PROVE  OnTheWayKept /\ FinOnTheWay(e)'
<1>1. Fin \in Chunks /\ Fin.fin
  BY PointsNat DEF Fin, Chunks, NoMessage, Message, Messages, MessageTypes
<1>2. PICK w \in Seq(Chunks) : w = wire[e]
  OBVIOUS
<1>3. Extended(Append(w, Fin), w, Fin)
  BY <1>1, AppendExtended
<1>4. wire'[e] = Append(w, Fin) /\ \A d \in Ends : d # e => wire'[d] = wire[d]
  BY <1>2
<1>5. \A d \in Ends : \A i \in DOMAIN wire[d] :
            i \in DOMAIN wire'[d] /\ wire'[d][i] = wire[d][i]
  BY <1>2, <1>3, <1>4 DEF Extended
<1>6. OnTheWayKept
  BY <1>5, GrowingKeeps
<1>7. FinOnTheWay(e)'
  <2>1. PICK v : v = Append(w, Fin)
    OBVIOUS
  <2>2. Len(v) \in DOMAIN v /\ v[Len(v)] = Fin
    BY <1>3, <2>1 DEF Extended
  <2>3. wire'[e] = v
    BY <1>4, <2>1
  <2> QED
    BY <1>1, <2>2, <2>3 DEF FinOnTheWay
<1> QED
  BY <1>6, <1>7

LEMMA PrepareFinLive ==
    ASSUME ControlInv, LiveInv, NEW e \in Ends, quic[e].open, ctx[e].alive, ~quic[e].fin,
           PrepareFin(e), UNCHANGED <<kind, src, rcv>>
    PROVE  LiveInv'
<1> USE TwoEnds
<1> DEFINE s == ctx[e]
<1>1. /\ ctx \in [Ends -> StreamContexts] /\ quic \in [Ends -> QuicViews]
      /\ wire \in [Ends -> Seq(Chunks)] /\ closed_with \in [Ends -> Reasons \cup {"none"}]
  BY LiveShape
<1>2. PICK d \in Ends : d = Peer(e)
  OBVIOUS
<1>3. d # e /\ Ends = {d, e} /\ Peer(d) = e
  BY <1>2 DEF Peer, Ends
<1>4. s.send_state = "fin" /\ wire' = [wire EXCEPT ![e] = Append(@, Fin)]
  BY DEF PrepareFin
<1>5. quic' = [quic EXCEPT ![e] = [@ EXCEPT !.active = FALSE, !.fin = TRUE]]
  BY DEF PrepareFin, Delete
<1>6. quic'[e].open /\ quic'[e].fin /\ ~quic'[e].active /\ quic'[d] = quic[d]
  <2>1. quic[e] \in QuicViews
    BY <1>1
  <2>2. quic'[e] = [quic[e] EXCEPT !.active = FALSE, !.fin = TRUE]
    BY <1>1, <1>5
  <2> QED
    BY <1>1, <1>3, <1>5, <2>1, <2>2 DEF QuicViews
<1>7. OnTheWayKept /\ FinOnTheWay(e)'
  BY <1>1, <1>4, FinSent
<1>8. /\ StartOnTheWay => StartOnTheWay'
      /\ OnTheWay(Sender, "FIN_DATAGRAM") => OnTheWay(Sender, "FIN_DATAGRAM")'
      /\ \A x \in Ends : FinOnTheWay(x) => FinOnTheWay(x)'
      /\ \A x \in Ends, type \in {"POST", "ACCEPT"} : OnTheWay(x, type) => OnTheWay(x, type)'
  BY <1>7, KeptForReceiver
<1>9. FinTold(e)'
  BY <1>7 DEF FinTold
<1>10. Sender' = Sender /\ Receiver' = Receiver
  BY DEF Sender, Receiver
<1>11. StartTold /\ FinalTold /\ AcceptTold /\ SenderStays /\ LiveAt(d) /\ FinTold(d)
  BY DEF LiveInv
<1>12. CASE s.is_peer_finished
  <2>1. PICK r : r = WithReason(s, "remote_application").close_reason
    OBVIOUS
  <2>2. r \in Reasons
    <3>1. WithReason(s, "remote_application") \in StreamContexts
      BY <1>1, ReasonShape DEF Reasons
    <3> QED
      BY <2>1, <3>1 DEF StreamContexts, Reasons
  <2>3. /\ ctx' = [ctx EXCEPT ![e] = NoStream]
        /\ closed_with' = [closed_with EXCEPT ![e] = r]
    BY <1>12, <2>1 DEF PrepareFin, Delete
  <2>4. /\ ctx'[e] = NoStream /\ ctx'[d] = ctx[d]
        /\ closed_with'[d] = closed_with[d] /\ closed_with'[e] = r
    BY <1>1, <1>3, <2>3
  <2>5. Gone(e)' /\ (Gone(d)' <=> Gone(d))
    BY <1>6, <2>2, <2>4 DEF Gone, Reasons
  <2>6. LiveAt(d)'
    BY <1>6, <1>11, <2>4, <2>5, LiveAtKept
  <2>7. LiveAt(e)'
    BY <1>6, <2>4, <2>5, NoShape DEF LiveAt, PollAt
  <2>8. FinTold(d)'
    BY <1>3, <2>5 DEF FinTold
  <2>9. CASE e = Sender
    <3>1. StartTold' /\ FinalTold' /\ SenderStays'
      <4>1. ~NoStream.is_final_sent
        BY NewShape
      <4> QED
        BY <1>10, <2>4, <2>9, <4>1, NoShape DEF StartTold, FinalTold, SenderStays, Sending
    <3>2. AcceptTold'
      <4>1. kind' = "post" => ctx'["client"] = NoStream
        BY <2>4, <2>9 DEF Sender
      <4> QED
        BY <4>1, NoShape DEF AcceptTold
    <3> QED
      BY <1>3, <1>9, <2>6, <2>7, <2>8, <3>1, <3>2 DEF LiveInv
  <2>10. CASE e = Receiver
    <3>1. d = Sender
      BY <1>2, <2>10
    <3>2. StartTold' /\ FinalTold' /\ SenderStays'
      BY <1>10, <1>11, <2>4, <2>5, <2>10, <3>1 DEF StartTold, FinalTold, SenderStays
    <3>3. AcceptTold'
      <4>1. kind' = "post" => e = "server"
        BY <2>10 DEF Sender, Receiver, Peer
      <4> QED
        BY <2>5, <4>1 DEF AcceptTold
    <3> QED
      BY <1>3, <1>9, <2>6, <2>7, <2>8, <3>2, <3>3 DEF LiveInv
  <2> QED
    BY <2>9, <2>10
<1>13. CASE ~s.is_peer_finished
  <2>1. e = Receiver /\ d = Sender
    BY <1>2, <1>4, <1>11, <1>13 DEF SenderStays
  <2>2. PICK t : t = [s EXCEPT !.send_state = "no_more", !.is_local_finished = TRUE]
    OBVIOUS
  <2>3. /\ t.alive /\ t.send_state = "no_more" /\ t.is_local_finished
        /\ ~t.is_peer_finished /\ t.start = s.start
    <3>1. s \in StreamContexts
      BY <1>1
    <3> QED
      BY <1>13, <2>2, <3>1 DEF StreamContexts
  <2>4. ctx' = [ctx EXCEPT ![e] = t] /\ closed_with' = closed_with
    BY <1>1, <1>13, <2>2 DEF PrepareFin
  <2>5. ctx'[e] = t /\ ctx'[d] = ctx[d]
    BY <1>1, <1>3, <2>4
  <2>6. (Gone(e)' <=> Gone(e)) /\ (Gone(d)' <=> Gone(d))
    BY <1>6, <2>4 DEF Gone
  <2>7. LiveAt(d)'
    BY <1>6, <1>11, <2>5, <2>6, LiveAtKept
  <2>8. LiveAt(e)'
    BY <1>6, <2>3, <2>5 DEF LiveAt, PollAt, Polled
  <2>9. FinTold(d)'
    BY <1>3, <1>6, <1>8, <1>11, <1>13, <2>3, <2>5, <2>6 DEF FinTold
  <2>10. StartTold' /\ FinalTold' /\ SenderStays'
    BY <1>8, <1>10, <1>11, <2>1, <2>3, <2>5, <2>6 DEF StartTold, FinalTold, SenderStays
  <2>11. AcceptTold'
    <3>1. CASE kind = "post"
      <4>1. e = "server"
        BY <2>1, <3>1 DEF Sender, Receiver, Peer
      <4>2. ctx'["server"].send_state = "no_more"
        BY <2>3, <2>5, <4>1
      <4> QED
        BY <4>2 DEF AcceptTold
    <3>2. CASE kind # "post"
      BY <3>2 DEF AcceptTold
    <3> QED
      BY <3>1, <3>2
  <2> QED
    BY <1>3, <1>9, <2>7, <2>8, <2>9, <2>10, <2>11 DEF LiveInv
<1> QED
  BY <1>12, <1>13

-----------------------------------------------------------------------------
(* An end says something.                                                  *)

\* What is on the way after end e has sent chunk c.
LEMMA ChunkSent ==
    ASSUME kind' = kind, NEW e \in Ends, NEW c, Extended(wire'[e], wire[e], c),
           wire'[Peer(e)] = wire[Peer(e)]
    PROVE  /\ OnTheWayKept
           /\ ~c.fin /\ c.whole => OnTheWay(e, c.msg.type)'
           /\ /\ e = Sender /\ ~c.fin /\ c.whole
              /\ c.msg.type \in {"START_POINT", "POST"} /\ c.msg.point # 0
              => StartOnTheWay'
<1> USE TwoEnds
<1>1. \A d \in Ends : d = e \/ d = Peer(e)
  BY DEF Ends, Peer
<1>2. \A d \in Ends : \A i \in DOMAIN wire[d] :
            i \in DOMAIN wire'[d] /\ wire'[d][i] = wire[d][i]
  BY <1>1 DEF Extended
<1>3. OnTheWayKept
  BY <1>2, GrowingKeeps
<1>4. \E i \in DOMAIN wire'[e] : wire'[e][i] = c
  BY DEF Extended
<1>5. Sender' = Sender
  BY DEF Sender
<1>6. ~c.fin /\ c.whole => OnTheWay(e, c.msg.type)'
  BY <1>4 DEF OnTheWay
<1>7. /\ e = Sender /\ ~c.fin /\ c.whole
      /\ c.msg.type \in {"START_POINT", "POST"} /\ c.msg.point # 0
      => StartOnTheWay'
  BY <1>4, <1>5 DEF StartOnTheWay
<1> QED
  BY <1>3, <1>6, <1>7

\* End e has sent c and has context t from then on.
LEMMA SendsLive ==
    ASSUME ControlInv, LiveInv, NEW e \in Ends, NEW c, NEW t, Sends(e, c, t),
           ctx[e].send_state \notin {"fin", "no_more"},
           t.send_state \in {"initial", "ready"},
           t.is_local_finished = ctx[e].is_local_finished, Polled(t, quic'[e])
    PROVE  /\ \A d \in Ends : LiveAt(d)' /\ FinTold(d)' /\ (Gone(d)' <=> Gone(d))
           /\ ctx'[e] = t /\ \A d \in Ends : d # e => ctx'[d] = ctx[d]
           /\ Sender' = Sender /\ Receiver' = Receiver
           /\ OnTheWayKept
           /\ ~c.fin /\ (c.whole => OnTheWay(e, c.msg.type)')
           /\ /\ e = Sender /\ c.whole
              /\ c.msg.type \in {"START_POINT", "POST"} /\ c.msg.point # 0
              => StartOnTheWay'
<1> USE TwoEnds
<1>1. /\ Sender' = Sender /\ Receiver' = Receiver
      /\ Extended(wire'[e], wire[e], c) /\ wire'[Peer(e)] = wire[Peer(e)]
      /\ ctx'[e] = t /\ ctx'[Peer(e)] = ctx[Peer(e)]
      /\ \A x \in Ends : quic'[x].open = quic[x].open /\ quic'[x].fin = quic[x].fin
  BY MessageFrame
<1>2. /\ ~quic[e].fin /\ ~c.fin /\ Sent(ctx[e], t) /\ UNCHANGED <<kind, closed_with>>
      /\ \E b \in BOOLEAN : quic' = [quic EXCEPT ![e].active = b]
  BY DEF Sends
<1>3. \A d \in Ends : d = e \/ d = Peer(e)
  BY DEF Ends, Peer
<1>4. quic \in [Ends -> QuicViews]
  BY LiveShape
<1>5. quic'[Peer(e)] = quic[Peer(e)]
  BY <1>2, <1>4
<1>6. \A d \in Ends : Gone(d)' <=> Gone(d)
  BY <1>1, <1>2 DEF Gone
<1>7. LiveAt(Peer(e))'
  <2>1. PICK d \in Ends : d = Peer(e)
    OBVIOUS
  <2> QED
    BY <1>1, <1>5, <1>6, <2>1, LiveAtKept DEF LiveInv
<1>8. LiveAt(e)'
  <2>1. PollAt(e)
    BY DEF LiveInv, LiveAt
  <2>2. ~quic'[e].fin /\ ~t.is_local_finished /\ ~t.is_peer_finished
    BY <1>1, <1>2, <2>1 DEF PollAt, Sent
  <2>3. PollAt(e)'
    BY <1>1, <1>2, <1>6, <2>1, <2>2 DEF PollAt
  <2> QED
    BY <1>1, <2>3 DEF LiveAt
<1>9. /\ OnTheWayKept
      /\ c.whole => OnTheWay(e, c.msg.type)'
      /\ /\ e = Sender /\ c.whole
         /\ c.msg.type \in {"START_POINT", "POST"} /\ c.msg.point # 0
         => StartOnTheWay'
  BY <1>1, <1>2, ChunkSent
<1>10. FinTold(e)'
  BY <1>1, <1>2 DEF FinTold
<1>11. FinTold(Peer(e))'
  <2>1. PICK d \in Ends : d = Peer(e)
    OBVIOUS
  <2>2. Peer(d) = e /\ FinTold(d) /\ ~ctx[e].is_peer_finished
    BY <2>1 DEF Peer, Ends, LiveInv, LiveAt, PollAt
  <2>3. FinTold(d)'
    BY <1>1, <1>6, <1>9, <2>1, <2>2 DEF FinTold, OnTheWayKept
  <2> QED
    BY <2>1, <2>3
<1>12. \A d \in Ends : LiveAt(d)' /\ FinTold(d)'
  <2>1. PICK d \in Ends : d = Peer(e)
    OBVIOUS
  <2> QED
    BY <1>3, <1>7, <1>8, <1>10, <1>11, <2>1
<1>13. \A d \in Ends : d # e => ctx'[d] = ctx[d]
  BY <1>1, <1>3
<1> QED
  BY <1>1, <1>2, <1>6, <1>9, <1>12, <1>13

\* The receiver sends REQUEST or ACCEPT, or a part of it.
LEMMA ReceiverSendsLive ==
    ASSUME ControlInv, LiveInv, NEW e \in Ends, e = Receiver, NEW c, NEW t, Sends(e, c, t),
           ctx[e].send_state = "initial", c.msg = ctx[e].message_sent,
           t.send_state \in {"initial", "ready"}, t.send_state = "ready" => c.whole,
           t.is_local_finished = ctx[e].is_local_finished, Polled(t, quic'[e])
    PROVE  LiveInv'
<1> USE TwoEnds
<1>1. /\ \A d \in Ends : LiveAt(d)' /\ FinTold(d)' /\ (Gone(d)' <=> Gone(d))
      /\ ctx'[e] = t /\ \A d \in Ends : d # e => ctx'[d] = ctx[d]
      /\ Sender' = Sender /\ Receiver' = Receiver /\ OnTheWayKept
      /\ c.whole => OnTheWay(e, c.msg.type)'
  BY SendsLive
<1>2. Sent(ctx[e], t) /\ UNCHANGED <<kind, src, rcv>>
  BY DEF Sends
<1>3. /\ StartOnTheWay => StartOnTheWay'
      /\ OnTheWay(Sender, "FIN_DATAGRAM") => OnTheWay(Sender, "FIN_DATAGRAM")'
      /\ \A x \in Ends, type \in {"POST", "ACCEPT"} : OnTheWay(x, type) => OnTheWay(x, type)'
  BY <1>1, <1>2, KeptForReceiver
<1>4. ctx'[Sender] = ctx[Sender] /\ ctx'[Receiver].start = ctx[Receiver].start
  BY <1>1, <1>2 DEF Sent
<1>5. StartTold' /\ SenderStays'
  BY <1>1, <1>2, <1>3, <1>4 DEF LiveInv, StartTold, SenderStays
<1>6. FinalTold'
  BY <1>1, <1>2, <1>3, <1>4 DEF LiveInv, FinalTold
<1>7. AcceptTold'
  <2>1. CASE kind = "post"
    <3>1. e = "server" /\ Receiver = "server" /\ Sender = "client"
      BY <2>1 DEF Sender, Receiver, Peer
    <3>2. c.msg.type = "ACCEPT"
      BY <3>1 DEF ControlInv, ReceiverSays
    <3>3. ctx'["server"].send_state = "initial" \/ OnTheWay("server", "ACCEPT")'
      BY <1>1, <3>1, <3>2
    <3> QED
      BY <3>3 DEF AcceptTold
  <2>2. CASE kind # "post"
    BY <1>2, <2>2 DEF AcceptTold
  <2> QED
    BY <2>1, <2>2
<1> QED
  BY <1>1, <1>5, <1>6, <1>7 DEF LiveInv

\* The sender sends POST, or a part of it.
LEMMA SenderOpensLive ==
    ASSUME ControlInv, LiveInv, NEW e \in Ends, e = Sender, NEW c, NEW t, Sends(e, c, t),
           ctx[e].send_state = "initial", c.msg = ctx[e].message_sent,
           t.send_state \in {"initial", "ready"}, t.send_state = "ready" => c.whole,
           t.send_state = "initial" => t.message_sent = ctx[e].message_sent,
           t.is_start_sent = ctx[e].is_start_sent, t.is_final_sent = ctx[e].is_final_sent,
           t.is_local_finished = ctx[e].is_local_finished, Polled(t, quic'[e])
    PROVE  LiveInv'
<1> USE TwoEnds
<1>1. /\ \A d \in Ends : LiveAt(d)' /\ FinTold(d)' /\ (Gone(d)' <=> Gone(d))
      /\ ctx'[e] = t /\ \A d \in Ends : d # e => ctx'[d] = ctx[d]
      /\ Sender' = Sender /\ Receiver' = Receiver /\ OnTheWayKept
      /\ c.whole => OnTheWay(e, c.msg.type)'
      /\ c.whole /\ c.msg.type \in {"START_POINT", "POST"} /\ c.msg.point # 0
         => StartOnTheWay'
  BY SendsLive
<1>2. Sent(ctx[e], t) /\ ctx[e].alive /\ UNCHANGED <<kind, src, rcv>>
  BY DEF Sends
<1>3. /\ StartOnTheWay => StartOnTheWay'
      /\ OnTheWay(Sender, "FIN_DATAGRAM") => OnTheWay(Sender, "FIN_DATAGRAM")'
      /\ \A x \in Ends, type \in {"POST", "ACCEPT"} : OnTheWay(x, type) => OnTheWay(x, type)'
  BY <1>1, <1>2, KeptForReceiver
<1>4. e = "client" /\ kind # "request"
  <2>1. RoleOK
    BY DEF ControlInv
  <2> QED
    BY <2>1 DEF RoleOK, Sender, Ends
<1>5. c.msg.type = "POST"
  BY <1>4 DEF ControlInv, OpeningOK, Opening
<1>6. Sending(ctx[e])
  <2>1. RoleOK
    BY DEF ControlInv
  <2> QED
    BY <1>2, <2>1, FreshShape DEF RoleOK
<1>7. ctx'[Receiver] = ctx[Receiver] /\ ctx'[Sender] = t
  BY <1>1
<1>8. StartTold'
  BY <1>1, <1>3, <1>5, <1>6, <1>7 DEF LiveInv, StartTold
<1>9. FinalTold'
  BY <1>1, <1>2, <1>3, <1>6, <1>7 DEF LiveInv, FinalTold, Sent
<1>10. SenderStays'
  BY <1>1, <1>2, <1>4, <1>7 DEF SenderStays
<1>11. AcceptTold'
  <2>1. t.send_state = "ready" => OnTheWay("client", "POST")'
    BY <1>1, <1>4, <1>5
  <2>2. ctx'["client"] = t
    BY <1>1, <1>4
  <2> QED
    BY <2>1, <2>2 DEF AcceptTold
<1> QED
  BY <1>1, <1>8, <1>9, <1>10, <1>11 DEF LiveInv

\* The sender announces a start point, the final point or the policy.
LEMMA SenderAnnouncesLive ==
    ASSUME ControlInv, LiveInv, NEW e \in Ends, e = Sender, NEW c, NEW t, Sends(e, c, t),
           c.whole, Sending(ctx[e]), ctx[e].send_state \in {"ready", "start_point"},
           t.send_state = "ready", Announced(ctx[e], c.msg, t),
           t.is_local_finished = ctx[e].is_local_finished,
           t.is_final_sent => ctx[e].is_final_sent \/ c.msg.type = "FIN_DATAGRAM",
           Polled(t, quic'[e])
    PROVE  LiveInv'
<1> USE TwoEnds
<1>1. /\ \A d \in Ends : LiveAt(d)' /\ FinTold(d)' /\ (Gone(d)' <=> Gone(d))
      /\ ctx'[e] = t /\ \A d \in Ends : d # e => ctx'[d] = ctx[d]
      /\ Sender' = Sender /\ Receiver' = Receiver /\ OnTheWayKept
      /\ OnTheWay(e, c.msg.type)'
      /\ c.msg.type \in {"START_POINT", "POST"} /\ c.msg.point # 0 => StartOnTheWay'
  BY SendsLive
<1>2. Sent(ctx[e], t) /\ UNCHANGED <<kind, src, rcv>>
  BY DEF Sends
<1>3. /\ StartOnTheWay => StartOnTheWay'
      /\ OnTheWay(Sender, "FIN_DATAGRAM") => OnTheWay(Sender, "FIN_DATAGRAM")'
      /\ \A x \in Ends, type \in {"POST", "ACCEPT"} : OnTheWay(x, type) => OnTheWay(x, type)'
  BY <1>1, <1>2, KeptForReceiver
<1>4. ctx'[Receiver] = ctx[Receiver] /\ ctx'[Sender] = t
  BY <1>1
<1>5. StartTold /\ FinalTold /\ AcceptTold /\ SenderStays
  BY DEF LiveInv
<1>6. StartTold'
  <2>1. CASE c.msg.type = "START_POINT"
    BY <1>1, <2>1 DEF StartTold, Announced
  <2>2. CASE c.msg.type # "START_POINT"
    <3>1. t.is_start_sent = ctx[e].is_start_sent
      BY <2>2 DEF Announced
    <3> QED
      BY <1>1, <1>3, <1>4, <1>5, <3>1 DEF StartTold
  <2> QED
    BY <2>1, <2>2
<1>7. FinalTold'
  <2>1. /\ t.is_final_sent =>
             /\ t.final = src.final /\ src.final # 0
             /\ rcv.final # 0 \/ Gone(Receiver) \/ OnTheWay(Sender, "FIN_DATAGRAM")'
    <3>1. CASE c.msg.type = "FIN_DATAGRAM"
      <4>1. ctx[e].final \in {0, src.final} /\ ctx[e].final # 0
        BY <3>1 DEF ControlInv, PointsOK, Announced
      <4>2. t.final = src.final /\ src.final # 0
        BY <1>2, <4>1 DEF Sent
      <4>3. OnTheWay(Sender, "FIN_DATAGRAM")'
        BY <1>1, <3>1
      <4> QED
        BY <4>2, <4>3
    <3>2. CASE c.msg.type # "FIN_DATAGRAM"
      BY <1>2, <1>3, <1>5, <3>2 DEF FinalTold, Sent
    <3> QED
      BY <3>1, <3>2
  <2>2. t.receive_state = "done" => t.final = src.final
    BY <1>2, <1>5 DEF FinalTold, Sent
  <2> QED
    BY <1>1, <1>2, <1>4, <2>1, <2>2 DEF FinalTold
<1>8. SenderStays'
  BY <1>1, <1>2, <1>4, <1>5 DEF SenderStays, Sent
<1>9. AcceptTold'
  <2>1. CASE kind = "post"
    <3>1. e = "client" /\ Receiver = "server"
      BY <2>1 DEF Sender, Receiver, Peer
    <3>2. ctx'["client"] = t /\ ctx'["server"] = ctx["server"]
      BY <1>1, <3>1
    <3>3. t.receive_state # "done" => ctx["client"].send_state = "ready"
      BY <1>2, <1>5, <3>1 DEF SenderStays, Sent
    <3> QED
      BY <1>1, <1>2, <1>3, <1>5, <3>1, <3>2, <3>3 DEF AcceptTold, Sent
  <2>2. CASE kind # "post"
    BY <1>2, <2>2 DEF AcceptTold
  <2> QED
    BY <2>1, <2>2
<1> QED
  BY <1>1, <1>6, <1>7, <1>8, <1>9 DEF LiveInv

\* After the last part of its opening message, or one that is not the last, an end
\* is as before but for the message.
LEMMA UnderWayFlags ==
    ASSUME NEW s \in StreamContexts, s.send_state = "initial", NEW n, NEW t,
           t = IF n = s.left THEN AfterMessage(s) ELSE [s EXCEPT !.left = @ - n]
    PROVE  /\ t.is_local_finished = s.is_local_finished
           /\ t.is_final_sent = s.is_final_sent
<1>1. CASE n = s.left
  <2>1. t = [s EXCEPT !.send_state = "ready", !.message_sent = NoMessage, !.left = 0]
    BY <1>1 DEF AfterMessage
  <2> QED
    BY <2>1 DEF StreamContexts
<1>2. CASE n # s.left
  <2>1. t = [s EXCEPT !.left = s.left - n]
    BY <1>2
  <2> QED
    BY <2>1 DEF StreamContexts
<1> QED
  BY <1>1, <1>2

\* After an announcement the stream is polled for what is still to be announced,
\* except the policy after the final point and the final point after a start point
\* (which is why NeverStuck does not promise them).
LEMMA AnnouncedFlags ==
    ASSUME NEW s \in StreamContexts, Sending(s), s.send_state \in {"ready", "start_point"},
           s.send_state = "start_point" => s.start # 0,
           NEW u, u = Chosen(s), u.send_state # "ready", NEW t, t = AfterMessage(u)
    PROVE  /\ t.is_local_finished = s.is_local_finished
           /\ t.is_final_sent => s.is_final_sent \/ u.message_sent.type = "FIN_DATAGRAM"
           /\ ~StartPending(t) /\ ~(FinalPending(t) /\ t.start = 0)
           /\ PolicyPending(t) /\ ~t.is_final_sent => MoreToSend(u)
<1>1. s.is_sender
  BY DEF Sending
<1>2. \/ u = s /\ s.send_state = "start_point" /\ s.start # 0
      \/ /\ StartPending(s)
         /\ u = Queue(s, "start_point", Message("START_POINT", s.start, FALSE))
      \/ /\ ~StartPending(s) /\ FinalPending(s)
         /\ u = Queue(s, "final_point", Message("FIN_DATAGRAM", s.final, FALSE))
      \/ /\ ~StartPending(s) /\ ~FinalPending(s) /\ PolicyPending(s)
         /\ u = Queue(s, "cache_policy", Message("CACHE_POLICY", 0, TRUE))
  <2>1. CASE s.send_state # "ready"
    BY <2>1 DEF Chosen
  <2>2. CASE s.send_state = "ready"
    BY <1>1, <2>2 DEF Chosen
  <2> QED
    BY <2>1, <2>2
<1>3. u \in StreamContexts /\ u.left = 1
  BY AnnouncementShape
<1>4. PICK r : r = [u EXCEPT !.send_state = "ready", !.message_sent = NoMessage, !.left = 0]
  OBVIOUS
<1>5. /\ r.is_local_finished = u.is_local_finished /\ r.is_final_sent = u.is_final_sent
      /\ r.start = u.start /\ r.is_start_sent = u.is_start_sent /\ r.final = u.final
      /\ r.is_cache_real_time = u.is_cache_real_time
      /\ r.is_cache_policy_sent = u.is_cache_policy_sent
      /\ r \in StreamContexts
  <2>1. NoMessage \in Messages
    BY PointsNat DEF NoMessage, Message, Messages, MessageTypes
  <2>2. 0 \in 0..2 /\ "ready" \in SendStates
    BY DEF SendStates
  <2>3. r \in StreamContexts
    BY <1>3, <1>4, <2>1, <2>2 DEF StreamContexts
  <2> QED
    BY <1>3, <1>4, <2>3 DEF StreamContexts
<1>6. ASSUME NEW state \in {"start_point", "final_point", "cache_policy"}, NEW m,
             u = Queue(s, state, m), m.type \in Announcements
      PROVE  /\ u.send_state = state /\ u.message_sent = m
             /\ u.is_local_finished = s.is_local_finished /\ u.is_final_sent = s.is_final_sent
             /\ u.start = s.start /\ u.is_start_sent = s.is_start_sent /\ u.final = s.final
             /\ u.is_cache_real_time = s.is_cache_real_time
             /\ u.is_cache_policy_sent = s.is_cache_policy_sent
  <2>1. u = [s EXCEPT !.send_state = state, !.message_sent = m, !.left = 1]
    BY <1>6 DEF Queue, Announcements
  <2> QED
    BY <2>1 DEF StreamContexts
<1>7. ASSUME u.send_state = "start_point", u.start # 0,
             u.is_local_finished = s.is_local_finished, u.is_final_sent = s.is_final_sent
      PROVE  /\ t.is_local_finished = s.is_local_finished /\ t.is_final_sent = s.is_final_sent
             /\ ~StartPending(t) /\ ~(FinalPending(t) /\ t.start = 0)
             /\ PolicyPending(t) => MoreToSend(u)
  <2>1. t = [r EXCEPT !.is_start_sent = TRUE]
    BY <1>4, <1>7 DEF AfterMessage
  <2>2. /\ t.is_start_sent /\ t.start = r.start /\ t.is_local_finished = r.is_local_finished
        /\ t.is_final_sent = r.is_final_sent
        /\ t.is_cache_real_time = r.is_cache_real_time
        /\ t.is_cache_policy_sent = r.is_cache_policy_sent
    BY <1>5, <2>1 DEF StreamContexts
  <2>3. MoreToSend(u) <=> PolicyPending(u)
    BY <1>7 DEF MoreToSend
  <2>4. PolicyPending(t) => PolicyPending(u)
    BY <1>5, <2>2 DEF PolicyPending
  <2> QED
    BY <1>5, <1>7, <2>2, <2>3, <2>4 DEF StartPending
<1>8. CASE u = s /\ s.send_state = "start_point" /\ s.start # 0
  BY <1>7, <1>8
<1>9. CASE /\ StartPending(s)
           /\ u = Queue(s, "start_point", Message("START_POINT", s.start, FALSE))
  <2>1. PICK m : m = Message("START_POINT", s.start, FALSE)
    OBVIOUS
  <2>2. m.type \in Announcements
    BY <2>1 DEF Message, Announcements
  <2> QED
    BY <1>6, <1>7, <1>9, <2>1, <2>2 DEF StartPending
<1>10. CASE /\ ~StartPending(s) /\ FinalPending(s)
            /\ u = Queue(s, "final_point", Message("FIN_DATAGRAM", s.final, FALSE))
  <2>1. PICK m : m = Message("FIN_DATAGRAM", s.final, FALSE)
    OBVIOUS
  <2>2. m.type = "FIN_DATAGRAM"
    BY <2>1 DEF Message
  <2>3. /\ u.send_state = "final_point" /\ u.message_sent = m
        /\ u.is_local_finished = s.is_local_finished
        /\ u.start = s.start /\ u.is_start_sent = s.is_start_sent
    BY <1>6, <1>10, <2>1, <2>2 DEF Announcements
  <2>4. PICK x : x = [r EXCEPT !.is_final_sent = TRUE]
    OBVIOUS
  <2>5. /\ x \in StreamContexts /\ x.is_final_sent /\ x.start = r.start
        /\ x.is_start_sent = r.is_start_sent /\ x.is_local_finished = r.is_local_finished
    BY <1>5, <2>4 DEF StreamContexts
  <2>6. t = WithReason(x, "finished")
    BY <1>4, <2>3, <2>4 DEF AfterMessage
  <2>7. t = x \/ t = [x EXCEPT !.close_reason = "finished"]
    BY <2>5, <2>6, ReasonShape DEF Reasons
  <2>8. /\ t.is_final_sent /\ t.start = x.start
        /\ t.is_start_sent = x.is_start_sent /\ t.is_local_finished = x.is_local_finished
    BY <2>5, <2>7 DEF StreamContexts
  <2>9. ~StartPending(t)
    BY <1>5, <1>10, <2>3, <2>5, <2>8 DEF StartPending
  <2>10. ~FinalPending(t)
    BY <2>8 DEF FinalPending
  <2> QED
    BY <1>5, <2>2, <2>3, <2>5, <2>8, <2>9, <2>10
<1>11. CASE /\ ~StartPending(s) /\ ~FinalPending(s) /\ PolicyPending(s)
            /\ u = Queue(s, "cache_policy", Message("CACHE_POLICY", 0, TRUE))
  <2>1. PICK m : m = Message("CACHE_POLICY", 0, TRUE)
    OBVIOUS
  <2>2. m.type \in Announcements
    BY <2>1 DEF Message, Announcements
  <2>3. /\ u.send_state = "cache_policy"
        /\ u.is_local_finished = s.is_local_finished /\ u.is_final_sent = s.is_final_sent
        /\ u.start = s.start /\ u.is_start_sent = s.is_start_sent /\ u.final = s.final
    BY <1>6, <1>11, <2>1, <2>2
  <2>4. t = [r EXCEPT !.is_cache_policy_sent = TRUE]
    BY <1>4, <2>3 DEF AfterMessage
  <2>5. /\ t.is_cache_policy_sent /\ t.start = r.start
        /\ t.is_start_sent = r.is_start_sent /\ t.is_local_finished = r.is_local_finished
        /\ t.is_final_sent = r.is_final_sent /\ t.final = r.final
    BY <1>5, <2>4 DEF StreamContexts
  <2>6. ~StartPending(t)
    BY <1>5, <1>11, <2>3, <2>5 DEF StartPending
  <2>7. ~FinalPending(t)
    BY <1>5, <1>11, <2>3, <2>5 DEF FinalPending
  <2>8. ~PolicyPending(t)
    BY <2>5 DEF PolicyPending
  <2> QED
    BY <1>5, <2>3, <2>5, <2>6, <2>7, <2>8
<1> QED
  BY <1>2, <1>8, <1>9, <1>10, <1>11

LEMMA PrepareMessageLive ==
    ASSUME ControlInv, LiveInv, NEW e \in Ends, quic[e].open, ctx[e].alive, ~quic[e].fin,
           NEW n \in 1..2, PrepareMessage(e, n), UNCHANGED <<kind, src, rcv, air, failure>>
    PROVE  LiveInv'
<1> USE TwoEnds
<1>1. PICK s \in StreamContexts : s = ctx[e]
  BY LiveShape
<1>2. PICK u : u = Chosen(s)
  OBVIOUS
<1>3. PICK c, t : /\ c = Chunk(u.message_sent, n = u.left)
                  /\ t = IF n = u.left THEN AfterMessage(u) ELSE [u EXCEPT !.left = @ - n]
  OBVIOUS
<1>4. PICK b \in BOOLEAN : b = (n < u.left \/ MoreToSend(u))
  OBVIOUS
<1>5. /\ u.send_state \notin {"ready", "fin", "no_more"} /\ n \in 1..u.left
      /\ wire' = [wire EXCEPT ![e] = Append(@, c)]
      /\ ctx' = [ctx EXCEPT ![e] = t]
      /\ quic' = [quic EXCEPT ![e].active = b]
      /\ UNCHANGED closed_with
  BY <1>1, <1>2, <1>3, <1>4 DEF PrepareMessage
<1>6. RoleOK /\ OpeningOK /\ ReceiverSays /\ SenderStays /\ quic \in [Ends -> QuicViews]
  BY LiveShape DEF ControlInv, LiveInv
<1>7. quic'[e].active = b
  <2>1. quic[e] \in QuicViews
    BY <1>6
  <2> QED
    BY <1>5, <1>6, <2>1 DEF QuicViews
<1>8. s.send_state # "ready" \/ ~s.is_sender => u = s
  BY <1>2 DEF Chosen
<1>9. ASSUME u \in StreamContexts
      PROVE  /\ c \in Chunks /\ ~c.fin /\ c.msg = u.message_sent
             /\ c.whole <=> n = u.left
  BY <1>3, <1>9 DEF Chunk, Chunks, StreamContexts
<1>10. /\ e = Receiver => Receiving(s) \/ Fresh(s)
       /\ e = Sender => Sending(s) \/ Fresh(s)
  BY <1>1, <1>6 DEF RoleOK
<1>11. ~Fresh(s)
  BY <1>5, <1>8, FreshShape
<1>12. CASE s.send_state = "initial"
  <2>1. u = s
    BY <1>8, <1>12
  <2>2. s.left \in {1, 2} /\ s.receive_state # "done"
    <3>1. CASE e = "client"
      BY <1>1, <1>6, <1>12, <3>1 DEF OpeningOK, Untouched
    <3>2. CASE e = "server"
      <4>1. e = Receiver
        BY <1>1, <1>6, <1>12, <3>2 DEF RoleOK
      <4>2. s.left = 1
        BY <1>1, <1>6, <1>12, <3>2, <4>1 DEF ReceiverSays
      <4> QED
        BY <1>10, <1>11, <4>1, <4>2 DEF Receiving
    <3> QED
      BY <3>1, <3>2 DEF Ends
  <2>3. t = IF n = s.left THEN AfterMessage(s) ELSE [s EXCEPT !.left = @ - n]
    BY <1>3, <2>1
  <2>4. /\ t \in StreamContexts /\ Sent(s, t) /\ t.is_start_sent = s.is_start_sent
        /\ \/ /\ n # s.left /\ t.send_state = "initial" /\ s.left = 2
              /\ t.message_sent = s.message_sent
           \/ n = s.left /\ t.send_state = "ready"
    BY <1>5, <1>12, <2>1, <2>2, <2>3, UnderWayShape
  <2>5. t.is_local_finished = s.is_local_finished /\ t.is_final_sent = s.is_final_sent
    BY <1>12, <2>3, UnderWayFlags
  <2>6. c \in Chunks /\ ~c.fin /\ c.msg = s.message_sent /\ (c.whole <=> n = s.left)
    BY <1>9, <2>1
  <2>7. Sends(e, c, t)
    BY <1>1, <1>5, <2>4, <2>6 DEF Sends
  <2>8. Polled(t, quic'[e])
    <3>1. t.receive_state # "done"
      BY <2>2, <2>4 DEF Sent
    <3>2. ASSUME t.send_state = "initial"
          PROVE  b
      <4>1. n # s.left /\ s.left = 2
        BY <2>4, <3>2
      <4>2. n < u.left
        BY <2>1, <4>1
      <4> QED
        BY <1>4, <4>2, Zenon
    <3> QED
      BY <1>7, <2>4, <3>1, <3>2 DEF Polled
  <2>9. CASE e = Receiver
    BY <1>1, <1>12, <2>4, <2>5, <2>6, <2>7, <2>8, <2>9, ReceiverSendsLive
  <2>10. CASE e = Sender
    BY <1>1, <1>12, <2>4, <2>5, <2>6, <2>7, <2>8, <2>10, SenderOpensLive
  <2> QED
    BY <2>9, <2>10
<1>13. CASE s.send_state # "initial"
  <2>1. e = Sender /\ Sending(s)
    BY <1>5, <1>8, <1>10, <1>11, <1>13 DEF Receiving
  <2>2. s.send_state \in {"ready", "start_point"}
    BY <1>5, <1>8, <1>13, <2>1 DEF Sending
  <2>3. s.send_state = "start_point" => s.start # 0
    BY <1>1, <1>6, <2>1 DEF SenderStays
  <2>4. PICK a : a = AfterMessage(u)
    OBVIOUS
  <2>5. /\ u \in StreamContexts /\ u.left = 1 /\ a \in StreamContexts
        /\ Sent(s, a) /\ a.send_state = "ready" /\ Announced(s, u.message_sent, a)
    BY <1>2, <1>5, <2>1, <2>2, <2>4, AnnouncementShape
  <2>6. /\ a.is_local_finished = s.is_local_finished
        /\ a.is_final_sent => s.is_final_sent \/ u.message_sent.type = "FIN_DATAGRAM"
        /\ ~StartPending(a) /\ ~(FinalPending(a) /\ a.start = 0)
        /\ PolicyPending(a) /\ ~a.is_final_sent => MoreToSend(u)
    BY <1>2, <1>5, <2>1, <2>2, <2>3, <2>4, AnnouncedFlags
  <2>7. t = a
    BY <1>3, <1>5, <2>4, <2>5
  <2>8. c \in Chunks /\ ~c.fin /\ c.msg = u.message_sent /\ c.whole
    BY <1>5, <1>9, <2>5
  <2>9. Sends(e, c, t)
    BY <1>1, <1>5, <2>5, <2>7, <2>8 DEF Sends
  <2>10. Polled(t, quic'[e])
    BY <1>4, <1>7, <2>5, <2>6, <2>7 DEF Polled
  <2> QED
    BY <1>1, <2>1, <2>2, <2>5, <2>6, <2>7, <2>8, <2>9, <2>10, SenderAnnouncesLive
<1> QED
  BY <1>12, <1>13

LEMMA PrepareLive ==
    ASSUME ControlInv, LiveInv, NEW e \in Ends, Prepare(e)
    PROVE  LiveInv'
<1>1. /\ quic[e].open /\ ctx[e].alive /\ ~quic[e].fin
      /\ UNCHANGED <<kind, src, rcv, air, failure>>
      /\ (\E n \in 1..2 : PrepareMessage(e, n)) \/ PrepareIdle(e) \/ PrepareFin(e)
  BY DEF Prepare
<1>2. CASE \E n \in 1..2 : PrepareMessage(e, n)
  BY <1>1, <1>2, PrepareMessageLive
<1>3. CASE PrepareIdle(e)
  BY <1>1, <1>3, PrepareIdleLive
<1>4. CASE PrepareFin(e)
  BY <1>1, <1>4, PrepareFinLive
<1> QED
  BY <1>1, <1>2, <1>3, <1>4

\* The receiver of the media gets a chunk that is not FIN.
LEMMA ReceiverGetsLive ==
    ASSUME ControlInv, LiveInv, Receive(Receiver), ~Head(wire[Sender]).fin
    PROVE  LiveInv'
<1> USE TwoEnds
<1> DEFINE c == Head(wire[Sender])
<1>1. /\ quic[Receiver].open /\ wire[Sender] # <<>>
      /\ wire' = [wire EXCEPT ![Sender] = Tail(@)] /\ UNCHANGED kind
  BY DEF Receive
<1>2. /\ ~Unexpected(Receiver, c)
      /\ \/ /\ Sender = "client" /\ Receiver = "server" /\ Opens(c) /\ Untouched
            /\ c.msg.type = "POST"
         \/ Announces(c) /\ Receiving(ctx[Receiver])
  BY <1>1, NeverUnexpected, NextForReceiver
<1>3. \/ ~c.whole /\ ReceivePart(Receiver)
      \/ c.whole /\ ReceiveMessage(Receiver, c.msg)
  BY <1>2 DEF Receive
<1>4. c \in Chunks
  <2>1. wire[Sender] \in Seq(Chunks)
    BY DEF ControlInv, WireOK
  <2> QED
    BY <1>1, <2>1, TailShifted
<1> HIDE DEF c
<1>5. CASE /\ Sender = "client" /\ Receiver = "server" /\ Opens(c) /\ Untouched
           /\ c.msg.type = "POST"
  <2>1. CASE ~c.whole /\ ReceivePart(Receiver)
    <3>1. ctx' = [ctx EXCEPT !["server"] = NewStream]
      BY <1>5, <2>1, UntouchedFound DEF ReceivePart
    <3> QED
      BY <1>1, <1>5, <2>1, <3>1, ReceivePartLive DEF ReceivePart, c
  <2>2. CASE c.whole /\ ReceiveMessage(Receiver, c.msg)
    <3>1. ReceivePost("server", c.msg)
      BY <1>5, <2>2 DEF ReceiveMessage
    <3>2. kind # "request"
      BY <1>5 DEF Sender
    <3> QED
      BY <1>1, <1>4, <1>5, <2>2, <3>1, <3>2, ReceivePostLive DEF c
  <2> QED
    BY <1>3, <2>1, <2>2
<1>6. CASE Announces(c) /\ Receiving(ctx[Receiver])
  <2>1. ~c.fin /\ c.msg.type \in Announcements /\ ReceiveMessage(Receiver, c.msg)
    BY <1>3, <1>6 DEF Announces
  <2> QED
    BY <1>1, <1>4, <1>6, <2>1, ReceiveAnnouncementLive DEF c
<1> QED
  BY <1>2, <1>5, <1>6

\* The sender of the media gets a chunk that is not FIN.
LEMMA SenderGetsLive ==
    ASSUME ControlInv, LiveInv, Receive(Sender), ~Head(wire[Receiver]).fin
    PROVE  LiveInv'
<1> USE TwoEnds
<1> DEFINE c == Head(wire[Receiver])
<1>1. /\ quic[Sender].open /\ wire[Receiver] # <<>>
      /\ wire' = [wire EXCEPT ![Receiver] = Tail(@)] /\ UNCHANGED kind
  BY DEF Receive
<1>2. /\ ~Unexpected(Sender, c)
      /\ \/ /\ Receiver = "client" /\ Sender = "server" /\ Opens(c) /\ Untouched
            /\ c.msg.type = "REQUEST" /\ kind = "request"
         \/ /\ Receiver = "server" /\ Sender = "client"
            /\ c.whole /\ c.msg.type = "ACCEPT" /\ ctx[Sender].receive_state # "done"
  BY <1>1, NeverUnexpected, NextForSender
<1>3. \/ ~c.whole /\ ReceivePart(Sender)
      \/ c.whole /\ ReceiveMessage(Sender, c.msg)
  BY <1>2 DEF Receive
<1>4. c \in Chunks
  <2>1. wire[Receiver] \in Seq(Chunks)
    BY DEF ControlInv, WireOK
  <2> QED
    BY <1>1, <2>1, TailShifted
<1>5. ~c.fin
  OBVIOUS
<1> HIDE DEF c
<1>6. CASE /\ Receiver = "client" /\ Sender = "server" /\ Opens(c) /\ Untouched
           /\ c.msg.type = "REQUEST" /\ kind = "request"
  <2>1. Found("server") = NewStream
    BY <1>6, UntouchedFound
  <2>2. CASE ~c.whole /\ ReceivePart(Sender)
    <3>1. ctx' = [ctx EXCEPT !["server"] = NewStream]
      BY <1>6, <2>1, <2>2 DEF ReceivePart
    <3> QED
      BY <1>1, <1>6, <2>2, <3>1, ReceivePartLive DEF ReceivePart, c
  <2>3. CASE c.whole /\ ReceiveRequest("server", c.msg)
    BY <1>1, <1>4, <1>6, <2>3, ReceiveRequestLive DEF c
  <2>4. CASE c.whole /\ Fail("server", "no_source")
    <3>1. ctx' = [ctx EXCEPT !["server"] = NewStream]
      BY <2>1, <2>4 DEF Fail
    <3> QED
      BY <1>1, <1>6, <2>4, <3>1, ReceivePartLive DEF Fail, c
  <2>5. c.whole => ReceiveRequest("server", c.msg) \/ Fail("server", "no_source")
    BY <1>3, <1>6 DEF ReceiveMessage
  <2> QED
    BY <1>3, <2>2, <2>3, <2>4, <2>5
<1>7. CASE /\ Receiver = "server" /\ Sender = "client"
           /\ c.whole /\ c.msg.type = "ACCEPT" /\ ctx[Sender].receive_state # "done"
  <2>1. ReceiveAccept("client", c.msg)
    BY <1>3, <1>7 DEF ReceiveMessage
  <2> QED
    BY <1>1, <1>5, <1>7, <2>1, ReceiveAcceptLive DEF c
<1> QED
  BY <1>2, <1>6, <1>7

LEMMA ReceiveLive ==
    ASSUME ControlInv, LiveInv, NEW e \in Ends, Receive(e)
    PROVE  LiveInv'
<1> USE TwoEnds
<1>1. CASE Head(wire[Peer(e)]).fin
  <2>1. /\ quic[e].open /\ wire[Peer(e)] # <<>> /\ ReceiveFin(e)
        /\ wire' = [wire EXCEPT ![Peer(e)] = Tail(@)] /\ UNCHANGED kind
    BY <1>1 DEF Receive
  <2> QED
    BY <1>1, <2>1, ReceiveFinLive
<1>2. CASE ~Head(wire[Peer(e)]).fin
  BY <1>2, ReceiverGetsLive, SenderGetsLive
<1> QED
  BY <1>1, <1>2

LEMMA InitLive == ControlInit => LiveInv
<1> SUFFICES ASSUME ControlInit
             PROVE  LiveInv
  OBVIOUS
<1> USE TwoEnds
<1>1. \A e \in Ends : /\ ctx[e] = NoStream /\ quic[e].open /\ ~quic[e].active /\ ~quic[e].fin
                      /\ closed_with[e] = "none"
  BY DEF ControlInit
<1>2. \A e \in Ends : LiveAt(e) /\ FinTold(e)
  BY <1>1, NoShape DEF LiveAt, PollAt, FinTold, Gone
<1>3. ~NoStream.is_final_sent
  BY NewShape
<1>4. StartTold /\ FinalTold /\ AcceptTold /\ SenderStays
  BY <1>1, <1>3, NoShape DEF StartTold, FinalTold, AcceptTold, SenderStays, Sending
<1> QED
  BY <1>2, <1>4 DEF LiveInv

LEMMA NextLive == ControlInv /\ LiveInv /\ [ControlNext]_vars => LiveInv'
<1> SUFFICES ASSUME ControlInv, LiveInv, [ControlNext]_vars
             PROVE  LiveInv'
  OBVIOUS
<1>1. CASE \E i \in Intents : SubscribeMedia(i)
  BY <1>1, SubscribeMediaLive
<1>2. CASE PostMedia
  BY <1>2, PostMediaLive
<1>3. CASE Abandon
  BY <1>3, AbandonLive
<1>4. CASE PublishObject
  BY <1>4, PublishObjectLive
<1>5. CASE LearnStart
  BY <1>5, LearnStartLive
<1>6. CASE SetRealTime
  BY <1>6, SetRealTimeLive
<1>7. CASE LearnEnd
  BY <1>7, LearnEndLive
<1>8. CASE \E k \in Points : SendMedia(k)
  BY <1>8, LiveUnchanged DEF SendMedia
<1>9. CASE \E k \in Points : ReceiveMedia(k)
  BY <1>9, ReceiveMediaLive
<1>10. CASE \E e \in Ends : Prepare(e)
  BY <1>10, PrepareLive
<1>11. CASE \E e \in Ends : Receive(e)
  BY <1>11, ReceiveLive
<1>12. CASE \E e \in Ends : Close(e)
  BY <1>12, CloseLive
<1>13. CASE UNCHANGED vars
  BY <1>13, LiveUnchanged DEF vars
<1> QED
  BY <1>1, <1>2, <1>3, <1>4, <1>5, <1>6, <1>7, <1>8, <1>9, <1>10, <1>11, <1>12, <1>13
     DEF ControlNext

\* An end that is closing its side keeps the stream moving.
LEMMA ClosingMoves ==
    ASSUME ControlInv, LiveInv, ~Broken, NEW e \in Ends, ctx[e].alive,
           ctx[e].send_state \in {"fin", "no_more"}
    PROVE  Moving
<1> USE TwoEnds
<1>1. PICK d \in Ends : d = Peer(e)
  OBVIOUS
<1>2. Peer(d) = e
  BY <1>1 DEF Peer, Ends
<1>3. quic[e].open /\ quic[d].open /\ ~Gone(e)
  BY AliveStays DEF Broken
<1>4. /\ PollAt(e) /\ Polled(ctx[e], quic[e]) /\ FinTold(e)
      /\ PollAt(d) /\ (ctx[d].alive => Polled(ctx[d], quic[d])) /\ FinTold(d)
      /\ FinAt(d)
  BY DEF LiveInv, LiveAt, ControlInv, FinOK
<1>5. CASE quic[e].active
  BY <1>5 DEF Moving
<1>6. CASE ctx[e].is_local_finished
  <2>1. quic[e].fin /\ ~ctx[e].is_peer_finished
    BY <1>4, <1>6 DEF PollAt
  <2>2. FinOnTheWay(e) \/ ctx[d].is_peer_finished \/ Gone(d)
    BY <1>1, <1>3, <1>4, <2>1 DEF FinTold
  <2>3. CASE FinOnTheWay(e)
    BY <2>3 DEF FinOnTheWay, Moving
  <2>4. CASE ctx[d].is_peer_finished
    <3>1. ctx[d].alive
      BY <1>4, <2>4, NoShape DEF FinAt
    <3>2. quic[d].active
      BY <1>4, <2>4, <3>1 DEF PollAt, Polled
    <3> QED
      BY <3>1, <3>2 DEF Moving
  <2>5. CASE Gone(d)
    <3>1. quic[d].fin
      BY <1>4, <2>5 DEF PollAt
    <3>2. FinOnTheWay(d)
      BY <1>2, <1>3, <1>4, <2>1, <3>1 DEF FinTold
    <3> QED
      BY <3>2 DEF FinOnTheWay, Moving
  <2> QED
    BY <2>2, <2>3, <2>4, <2>5
<1> QED
  BY <1>4, <1>5, <1>6 DEF PollAt, Polled

\* A sender that has something to announce keeps the stream moving.
LEMMA PendingMoves ==
    ASSUME ControlInv, LiveInv, ~Broken, ctx[Sender].is_sender,
           NEW s, s = ctx[Sender],
           \/ StartPending(s)
           \/ PolicyPending(s) /\ ~s.is_final_sent
           \/ src.final # 0 /\ ~s.is_final_sent /\ s.start = 0
    PROVE  Moving
<1> USE TwoEnds
<1>1. s.alive /\ Sending(s)
  BY NoShape, FreshShape DEF ControlInv, FinOK, FinAt, RoleOK
<1>2. Polled(s, quic[Sender]) /\ FinalTold /\ AcceptTold /\ SenderStays
  BY <1>1 DEF LiveInv, LiveAt
<1>3. CASE s.send_state \in {"initial", "start_point"}
  BY <1>1, <1>2, <1>3 DEF Polled, Moving
<1>4. CASE s.send_state \in {"fin", "no_more"}
  BY <1>1, <1>4, ClosingMoves
<1>5. CASE s.send_state = "ready" /\ s.receive_state = "done"
  <2>1. s.final = src.final
    BY <1>1, <1>2, <1>5 DEF FinalTold
  <2>2. quic[Sender].active
    BY <1>2, <1>5, <2>1 DEF Polled, FinalPending
  <2> QED
    BY <1>1, <2>2 DEF Moving
<1>6. CASE s.send_state = "ready" /\ s.receive_state # "done"
  <2>1. kind = "post" /\ Sender = "client"
    <3>1. kind # "none"
      BY <1>1, NoShape DEF ControlInv, UnopenedOK
    <3> QED
      BY <1>1, <1>2, <1>6, <3>1 DEF ControlInv, ControlTypeOK, SenderStays, Sender
  <2>2. \/ OnTheWay("client", "POST") \/ OnTheWay("server", "ACCEPT")
        \/ ctx["server"].send_state \in {"initial", "fin", "no_more"} \/ Gone("server")
    BY <1>1, <1>2, <1>6, <2>1 DEF AcceptTold
  <2>3. CASE OnTheWay("client", "POST") \/ OnTheWay("server", "ACCEPT")
    BY <2>3 DEF OnTheWay, Moving
  <2>4. CASE ctx["server"].send_state \in {"initial", "fin", "no_more"}
    <3>1. ctx["server"].alive
      BY <2>4, NoShape DEF ControlInv, FinOK, FinAt
    <3>2. CASE ctx["server"].send_state = "initial"
      BY <3>1, <3>2 DEF LiveInv, LiveAt, Polled, Moving
    <3>3. CASE ctx["server"].send_state \in {"fin", "no_more"}
      BY <3>1, <3>3, ClosingMoves
    <3> QED
      BY <2>4, <3>2, <3>3
  <2>5. CASE Gone("server")
    <3>1. quic["client"].fin
      BY <2>5 DEF ControlInv, FinOK, FinAt, Gone, Broken
    <3>2. ~Gone("client")
      BY <1>1, <2>1, AliveStays
    <3> QED
      BY <1>6, <2>1, <3>1, <3>2, FinGiven
  <2> QED
    BY <2>2, <2>3, <2>4, <2>5
<1> QED
  BY <1>1, <1>3, <1>4, <1>5, <1>6 DEF Sending

\* While the connection lasts, each end is polled for what it has to say, and what
\* it has told is on the way or has arrived: quicrq_wakeup_media_stream, the marks
\* of the handlers and the more-to-send flag of quicrq_prepare_to_send_on_stream
\* lose neither a start point, nor the final point of a media without one, nor FIN.
THEOREM LiveInvariantHolds == ControlSpec => []LiveInv
BY InitHolds, NextHolds, InitLive, NextLive, PTL DEF ControlSpec

\* The stream never comes to rest with something to say: whenever an end is closing
\* it, or the receiver lacks a start point, or the final point of a media without
\* start point, or the policy, that the sender knows, some end is polled by picoquic
\* or some chunk is on the way.  This is the safety part of StartPointReaches,
\* FinalPointReachesFromZero and BothEndsClose.
THEOREM StreamNeverStuck == ControlSpec => []NeverStuck
<1>1. ControlInv /\ LiveInv => NeverStuck
  <2> SUFFICES ASSUME ControlInv, LiveInv, ~Broken
               PROVE  NeverStuck
    BY DEF NeverStuck
  <2> USE TwoEnds
  <2>1. ASSUME NEW e \in Ends, ctx[e].alive, ctx[e].send_state \in {"fin", "no_more"}
        PROVE  Moving
    BY <2>1, ClosingMoves
  <2>2. ASSUME SenderHas(ctx[Sender].start # 0), ctx[Receiver].alive, ctx[Receiver].start = 0
        PROVE  Moving
    <3>1. ctx[Sender].is_sender /\ ctx[Sender].start # 0
      BY <2>2 DEF SenderHas
    <3>2. CASE ~ctx[Sender].is_start_sent
      BY <3>1, <3>2, PendingMoves DEF StartPending
    <3>3. CASE ctx[Sender].is_start_sent
      <4>1. ctx[Sender].alive /\ Sending(ctx[Sender])
        BY <3>1, NoShape, FreshShape DEF ControlInv, FinOK, FinAt, RoleOK
      <4>2. ~Gone(Receiver)
        BY <2>2, AliveStays
      <4>3. StartOnTheWay \/ ctx[Sender].send_state = "initial"
        BY <2>2, <3>3, <4>1, <4>2 DEF LiveInv, StartTold
      <4>4. CASE StartOnTheWay
        BY <4>4 DEF StartOnTheWay, Moving
      <4>5. CASE ctx[Sender].send_state = "initial"
        BY <4>1, <4>5 DEF LiveInv, LiveAt, Polled, Moving
      <4> QED
        BY <4>3, <4>4, <4>5
    <3> QED
      BY <3>2, <3>3
  <2>3. ASSUME SenderHas(src.final # 0 /\ ctx[Sender].start = 0), ctx[Receiver].alive,
               rcv.final = 0
        PROVE  Moving
    <3>1. ctx[Sender].is_sender /\ src.final # 0 /\ ctx[Sender].start = 0
      BY <2>3 DEF SenderHas
    <3>2. CASE ~ctx[Sender].is_final_sent
      BY <3>1, <3>2, PendingMoves
    <3>3. CASE ctx[Sender].is_final_sent
      <4>1. ~Gone(Receiver)
        BY <2>3, AliveStays
      <4>2. OnTheWay(Sender, "FIN_DATAGRAM")
        BY <2>3, <3>3, <4>1 DEF LiveInv, FinalTold
      <4> QED
        BY <4>2 DEF OnTheWay, Moving
    <3> QED
      BY <3>2, <3>3
  <2>4. ASSUME SenderHas(PolicyPending(ctx[Sender]) /\ ~ctx[Sender].is_final_sent)
        PROVE  Moving
    BY <2>4, PendingMoves DEF SenderHas
  <2> QED
    BY <2>1, <2>2, <2>3, <2>4 DEF NeverStuck
<1> QED
  BY <1>1, ControlInvariantHolds, LiveInvariantHolds, PTL

=============================================================================
