---------------------------- MODULE DatagramAck ----------------------------
(***************************************************************************)
(* Acknowledgement and repair of the fragments that a stream sends as      *)
(* datagrams (quicrq_datagram_... functions of lib/quicrq.c).              *)
(*                                                                         *)
(* Every datagram sent has a record in a tree ordered by key and offset.   *)
(* picoquic reports each transmission as acknowledged or as lost, and may  *)
(* report a loss that turns out to be spurious.  A lost fragment is        *)
(* repeated, cut again when it does not fit in a queued datagram; an extra *)
(* copy may be scheduled.  Records below the horizon were acknowledged and *)
(* are forgotten.                                                          *)
(*                                                                         *)
(* The initial horizon, UINT64_MAX in the code, is -1: the code compares   *)
(* by signed differences.  Time is abstracted to the rank of each          *)
(* transmission of a fragment; the extra repeat delay is taken to be more  *)
(* than the millisecond of tolerance of quicrq_datagram_handle_lost.       *)
(* The loop that collapses the horizon takes one step per turn.            *)
(***************************************************************************)
EXTENDS Media, FiniteSets, Sequences

CONSTANTS Pieces,          \* for each object, the [offset, data_length] it is sent in
          Delayed,         \* the objects that were delayed at a previous hop
          Placeholders,    \* the objects without bytes sent with flags 0xff
          MaxRepeat,       \* bytes that fit in a queued datagram
          MaxRepeats,      \* bound: times that a fragment of each object is repeated
          extra_repeat_on_nack,
          extra_repeat_after_received_delayed

ASSUME AckAssumption ==
    /\ MaxRepeat \in Nat \ {0} /\ MaxRepeats \in [Key -> Nat]
    /\ Delayed \subseteq Key /\ Placeholders \subseteq Key
    /\ extra_repeat_on_nack \in BOOLEAN
    /\ extra_repeat_after_received_delayed \in BOOLEAN
    /\ \A k \in Key : \A p \in Pieces[k] :
        /\ p.offset \in Nat /\ p.data_length \in Nat
        /\ p.offset + p.data_length <= ObjectLength[k]
        /\ p.data_length = 0 => ObjectLength[k] = 0
        /\ \A q \in Pieces[k] :  \* the publisher cuts one piece after the other
             p # q => \/ p.offset + p.data_length <= q.offset /\ p.data_length > 0
                      \/ q.offset + q.data_length <= p.offset /\ q.data_length > 0

VARIABLES
    datagram_ack_tree,  \* the records
    horizon,            \* <<horizon_group_id, horizon_object_id, horizon_offset>>
    horizon_is_last_fragment,
    extra,              \* the list extra_first .. extra_last: [key, offset]
    pc,                 \* "idle", "collapse" in the loop of handle_ack,
                        \* "closed" once released
    in_flight,          \* transmissions that picoquic has to report on
    sent,               \* history: the pieces sent by the publisher
    received            \* history: what the peer got, <<key, byte>>

ack_vars == <<datagram_ack_tree, horizon, horizon_is_last_fragment, extra, pc,
              in_flight, sent, received>>

\* The bytes of a fragment; the empty one of an object without bytes counts as 0.
Units(offset, length) == IF length = 0 THEN {0} ELSE Bytes(offset, length)

UnitsOf(d) == {d.key} \X Units(d.offset, d.length)

AckRecord == [key : Key, offset : Nat, length : Nat, is_acked : BOOLEAN,
              is_extra_queued : BOOLEAN, last_sent : Nat]

IsRecord(das) == das \in AckRecord /\ das.last_sent <= MaxRepeats[das.key]

\* Type invariant of the acknowledgement context.
AckTypeOK ==
    /\ \A das \in datagram_ack_tree : IsRecord(das)
    /\ \A d, e \in datagram_ack_tree : d.key = e.key /\ d.offset = e.offset => d = e
    /\ horizon \in Int \X Int \X Int
    /\ horizon_is_last_fragment \in BOOLEAN
    /\ \A i \in DOMAIN extra : \E das \in datagram_ack_tree :
            das.key = extra[i].key /\ das.offset = extra[i].offset /\ das.is_extra_queued
    /\ pc \in {"idle", "collapse", "closed"}

\* quicrq_datagram_ack_ctx_init.
AckInit ==
    /\ datagram_ack_tree = {}
    /\ horizon = <<-1, -1, -1>>
    /\ horizon_is_last_fragment = TRUE
    /\ extra = <<>>
    /\ pc = "idle"
    /\ in_flight = {} /\ sent = {} /\ received = {}

----------------------------------------------------------------------------
(* Order of the tree and of the horizon.                                   *)

HorizonKey == <<horizon[1], horizon[2]>>

\* quicrq_datagram_check_horizon(...) < 0.
BelowHorizon(k, offset) ==
    Before(k, HorizonKey) \/ (k = HorizonKey /\ offset < horizon[3])

AckLess(d, e) == Before(d.key, e.key) \/ (d.key = e.key /\ d.offset < e.offset)

\* quicrq_datagram_ack_find, as a set of at most one record.
AckFind(k, offset) == {das \in datagram_ack_tree : das.key = k /\ das.offset = offset}

\* A transmission handed to picoquic.
Datagram(k, offset, length, rank) ==
    [key |-> k, offset |-> offset, length |-> length, rank |-> rank,
     arrived |-> FALSE, lost |-> FALSE]

\* A record made by quicrq_datagram_ack_init, queued for an extra repeat when
\* the fragment was delayed.
Record(k, offset, length, rank) ==
    [key |-> k, offset |-> offset, length |-> length, is_acked |-> FALSE,
     is_extra_queued |-> extra_repeat_after_received_delayed /\ k \in Delayed,
     last_sent |-> rank]

Id(das) == [key |-> das.key, offset |-> das.offset]

----------------------------------------------------------------------------
(* The publisher sends a datagram and records it.                          *)

\* The first of the objects sent.
FirstSent == {s[1] : s \in {t \in sent : \A u \in sent : ~Before(u[1], t[1])}}

\* quicrq_datagram_ack_init after a transmission by the publisher, which sends
\* the fragments in the order in which they came and passes over those of
\* objects older than the first one it sent.
SendFragment(k, p) ==
    /\ pc = "idle"
    /\ <<k, p>> \notin sent
    /\ \A j \in FirstSent : ~Before(k, j)
    /\ sent' = sent \cup {<<k, p>>}
    /\ in_flight' = in_flight \cup {Datagram(k, p.offset, p.data_length, 0)}
    /\ IF BelowHorizon(k, p.offset)
       THEN UNCHANGED <<datagram_ack_tree, extra>>
       ELSE LET das == Record(k, p.offset, p.data_length, 0)
            IN /\ datagram_ack_tree' = datagram_ack_tree \cup {das}
               /\ extra' = IF das.is_extra_queued THEN Append(extra, Id(das)) ELSE extra
    /\ UNCHANGED <<horizon, horizon_is_last_fragment, pc, received>>

----------------------------------------------------------------------------
(* quicrq_datagram_handle_ack.                                             *)

\* The part of the datagram that is not below the horizon starts here.
AckedOffset(d) ==
    IF d.key = HorizonKey /\ d.offset < horizon[3] THEN horizon[3] ELSE d.offset

AckBelowHorizon(d) ==
    \/ Before(d.key, HorizonKey)
    \/ d.key = HorizonKey /\ d.offset + d.length < horizon[3]

AckEnd(d) == d.offset + d.length

\* Mutant of Covered: the record at the start of the datagram stands for all.
CoveredFirst(d) ==
    {das \in datagram_ack_tree :
        das.key = d.key /\ das.offset >= AckedOffset(d) /\ AckEnd(d) > AckedOffset(d)}

\* The records that the datagram covers: the one at the offset, then the ones
\* that follow it without a gap, as long as bytes are left.
Covered(d) ==
    LET from == AckedOffset(d)
        Following == {das \in datagram_ack_tree : das.key = d.key /\ das.offset >= from}
    IN {das \in Following :
          /\ das.offset < AckEnd(d)
          /\ AckFind(d.key, from) # {}
          /\ \A b \in from..(das.offset - 1) :
               \E e \in Following :
                 b \in Bytes(e.offset, e.length) /\ e.offset + e.length <= das.offset}

\* Whether the ack may move the horizon.
ShouldCheckHorizon(d) ==
    \/ d.key = HorizonKey /\ ~AckBelowHorizon(d) /\ d.offset <= horizon[3]
    \/ /\ d.key = <<horizon[1], horizon[2] + 1>>
       /\ horizon_is_last_fragment /\ d.offset = 0
    \/ horizon[1] = -1

HandleAck(d) ==
    /\ datagram_ack_tree' =
         IF AckBelowHorizon(d) THEN datagram_ack_tree
         ELSE (datagram_ack_tree \ Covered(d))
                \cup {[das EXCEPT !.is_acked = TRUE] : das \in Covered(d)}
    /\ pc' = IF ShouldCheckHorizon(d) THEN "collapse" ELSE "idle"
    /\ UNCHANGED <<horizon, horizon_is_last_fragment, extra>>

\* Mutant of JustAfter: the group may be entered before the end of the last.
JustAfterAnyCount(das) ==
    IF das.key[1] = horizon[1]
    THEN IF das.key = HorizonKey THEN das.offset = horizon[3]
         ELSE /\ horizon_is_last_fragment
              /\ das.key[2] = horizon[2] + 1 /\ das.offset = 0
    ELSE /\ horizon_is_last_fragment
         /\ das.key[1] = horizon[1] + 1 /\ das.offset = 0

\* The record follows the horizon.
JustAfter(das) ==
    IF das.key[1] = horizon[1]
    THEN IF das.key = HorizonKey THEN das.offset = horizon[3]
         ELSE /\ horizon_is_last_fragment
              /\ das.key[2] = horizon[2] + 1 /\ das.offset = 0
    ELSE /\ horizon_is_last_fragment
         /\ das.key[1] = horizon[1] + 1 /\ das.offset = 0
         /\ NbPrevious(das.key) = horizon[2] + 1

\* The first record of the tree, when it is acknowledged and follows the horizon.
Collapsible ==
    {das \in datagram_ack_tree :
        /\ \A e \in datagram_ack_tree : ~AckLess(e, das)
        /\ das.is_acked /\ JustAfter(das)}

\* quicrq_datagram_ack_extra_dequeue: the list without id, if it is there.
Unqueue(id) ==
    IF \E i \in DOMAIN extra : extra[i] = id
    THEN LET at == CHOOSE i \in DOMAIN extra : extra[i] = id
         IN [i \in 1..(Len(extra) - 1) |-> IF i < at THEN extra[i] ELSE extra[i + 1]]
    ELSE extra

\* Mutant of CollapseStep: the extra repeat of the record stays in the list.
CollapseKeepsExtra ==
    /\ pc = "collapse"
    /\ \E das \in Collapsible :
        /\ horizon' = <<das.key[1], das.key[2], das.offset + das.length>>
        /\ horizon_is_last_fragment' = (das.offset + das.length >= ObjectLength[das.key])
        /\ datagram_ack_tree' = datagram_ack_tree \ {das}
    /\ UNCHANGED <<extra, pc, in_flight, sent, received>>

\* One turn of the loop: the record is forgotten, with its extra repeat.
CollapseStep ==
    /\ pc = "collapse"
    /\ \E das \in Collapsible :
        /\ horizon' = <<das.key[1], das.key[2], das.offset + das.length>>
        /\ horizon_is_last_fragment' = (das.offset + das.length >= ObjectLength[das.key])
        /\ datagram_ack_tree' = datagram_ack_tree \ {das}
        /\ extra' = Unqueue(Id(das))
    /\ UNCHANGED <<pc, in_flight, sent, received>>

CollapseEnd ==
    /\ pc = "collapse"
    /\ Collapsible = {}
    /\ pc' = "idle"
    /\ UNCHANGED <<datagram_ack_tree, horizon, horizon_is_last_fragment, extra,
                   in_flight, sent, received>>

----------------------------------------------------------------------------
(* quicrq_datagram_handle_repeat.                                          *)

Least(a, b) == IF a < b THEN a ELSE b

\* The offsets at which length bytes from offset on are cut.
Chunks(offset, length) ==
    {offset + i * MaxRepeat : i \in 0..((IF length = 0 THEN 0 ELSE length - 1) \div MaxRepeat)}

ChunkLength(o, offset, length) == Least(MaxRepeat, offset + length - o)

\* Mutant of Recut: only the first part of a fragment that was cut is sent.
RecutFirst(das, length) == {das.offset}

\* The offsets at which the bytes of das are sent again, up to the first one
\* that has a record of its own already, which is an error.
Recut(das, length) ==
    LET others == Chunks(das.offset, length) \ {das.offset}
    IN {o \in Chunks(das.offset, length) :
          \A q \in others : q <= o => AckFind(das.key, q) = {}}

\* The record of the part at offset o: das keeps the first part.
RepeatRecord(das, length, prepare_extra, o) ==
    LET rank == das.last_sent + 1
        made == IF o = das.offset THEN das ELSE Record(das.key, o, 0, rank)
    IN [made EXCEPT
          !.length = IF length <= MaxRepeat THEN das.length
                     ELSE ChunkLength(o, das.offset, length),
          !.last_sent = rank,
          !.is_extra_queued = @ \/ prepare_extra]

\* The ids of the parts that join the extra list, in the order of offsets.
NewExtra(das, length, prepare_extra) ==
    LET joins == {o \in Recut(das, length) :
                    /\ RepeatRecord(das, length, prepare_extra, o).is_extra_queued
                    /\ o = das.offset => ~das.is_extra_queued}
    IN [i \in 1..Cardinality(joins) |->
          [key |-> das.key,
           offset |-> CHOOSE o \in joins : Cardinality({q \in joins : q < o}) = i - 1]]

\* Send length bytes of the record das again; flight and queue are the
\* transmissions and the extra list without the one being handled.
Repeat(das, length, prepare_extra, flight, queue) ==
    /\ das.last_sent < MaxRepeats[das.key]
    /\ in_flight' = flight \cup
         {Datagram(das.key, o, ChunkLength(o, das.offset, length), das.last_sent + 1) :
            o \in Recut(das, length)}
    /\ datagram_ack_tree' = (datagram_ack_tree \ {das}) \cup
         {RepeatRecord(das, length, prepare_extra, o) : o \in Recut(das, length)}
    /\ extra' = queue \o NewExtra(das, length, prepare_extra)

----------------------------------------------------------------------------
(* The events of picoquic and of the timer.                                *)

\* The transmission reaches the peer, also after it was declared lost.
Arrive(d) ==
    /\ pc = "idle" /\ ~d.arrived
    /\ in_flight' = (in_flight \ {d}) \cup {[d EXCEPT !.arrived = TRUE]}
    /\ received' = received \cup UnitsOf(d)
    /\ UNCHANGED <<datagram_ack_tree, horizon, horizon_is_last_fragment, extra, pc, sent>>

\* picoquic_callback_datagram_acked, or _spurious after a loss.
AckEvent(d) ==
    /\ pc = "idle" /\ d.arrived
    /\ in_flight' = in_flight \ {d}
    /\ HandleAck(d)
    /\ UNCHANGED <<sent, received>>

\* Mutant of IsLatest: a loss is repeated whatever was sent since.
IsLatestAlways(das, d) == TRUE

\* No copy of the fragment was sent after d, as far as the code looks.
IsLatest(das, d) == ~das.is_extra_queued \/ das.last_sent <= d.rank

\* quicrq_datagram_handle_repeat sends nothing for an empty object that is not
\* a placeholder.
Repeatable(k, length) == length > 0 \/ k \in Placeholders

\* The record, if any, that quicrq_datagram_handle_lost repeats.
ToRepeat(d) ==
    {das \in AckFind(d.key, d.offset) :
        ~das.is_acked /\ IsLatest(das, d) /\ Repeatable(d.key, d.length)}

Flying(d) == (in_flight \ {d}) \cup {[d EXCEPT !.lost = TRUE]}

\* picoquic_callback_datagram_lost: d is repeated.
LostRepeated(d) ==
    /\ pc = "idle" /\ ~d.lost
    /\ \E das \in ToRepeat(d) :
        Repeat(das, d.length, extra_repeat_on_nack, Flying(d), extra)
    /\ UNCHANGED <<horizon, horizon_is_last_fragment, pc, sent, received>>

\* picoquic_callback_datagram_lost: the record is below the horizon or
\* acknowledged, or a later copy was sent.
LostIgnored(d) ==
    /\ pc = "idle" /\ ~d.lost
    /\ ToRepeat(d) = {}
    /\ in_flight' = Flying(d)
    /\ UNCHANGED <<datagram_ack_tree, horizon, horizon_is_last_fragment, extra, pc,
                   sent, received>>

\* quicrq_handle_extra_repeat: the delay of the first of the list has passed.
ExtraRepeat ==
    /\ pc = "idle" /\ extra # <<>>
    /\ \E das \in AckFind(Head(extra).key, Head(extra).offset) :
        IF Repeatable(das.key, das.length)
        THEN Repeat(das, das.length, FALSE, in_flight, Tail(extra))
        ELSE extra' = Tail(extra) /\ UNCHANGED <<in_flight, datagram_ack_tree>>
    /\ UNCHANGED <<horizon, horizon_is_last_fragment, pc, sent, received>>

\* quicrq_datagram_ack_ctx_release: the stream is deleted; later reports find
\* no stream.
Release ==
    /\ pc = "idle" /\ pc' = "closed"
    /\ datagram_ack_tree' = {} /\ extra' = <<>> /\ in_flight' = {}
    /\ UNCHANGED <<horizon, horizon_is_last_fragment, sent, received>>

Report(d) == Arrive(d) \/ AckEvent(d) \/ LostRepeated(d) \/ LostIgnored(d)

AckNext ==
    \/ \E k \in Sent : \E p \in Pieces[k] : SendFragment(k, p)
    \/ \E d \in in_flight : Report(d)
    \/ CollapseStep \/ CollapseEnd \/ ExtraRepeat \/ Release

AckSpec == AckInit /\ [][AckNext]_ack_vars

----------------------------------------------------------------------------
(* Properties.                                                             *)

\* A byte that was sent and that the peer does not have is in a transmission
\* that is not declared lost: whatever the order of reports, of repeats cut
\* otherwise and of extra copies, the sender never takes a byte for repaired
\* that is not, and never drops its record below the horizon.
RepairPending ==
    pc # "closed" =>
        \A s \in sent : \A u \in {s[1]} \X Units(s[2].offset, s[2].data_length) :
            u \in received \/ \E d \in in_flight : ~d.lost /\ u \in UnitsOf(d)

\* A record marked acknowledged, and every byte sent below the horizon, is at
\* the peer: an ack of a part never stands for the rest.
AckedMeansReceived ==
    /\ \A das \in datagram_ack_tree : das.is_acked => UnitsOf(das) \subseteq received
    /\ \A s \in sent :
        \A b \in Bytes(s[2].offset, s[2].data_length) :
            BelowHorizon(s[1], b) => <<s[1], b>> \in received

\* The bytes that the report of d can touch.
AboveHorizon(d) == {b \in Bytes(d.offset, d.length) : ~BelowHorizon(d.key, b)}

\* The bytes of each transmission that are not below the horizon each have
\* exactly one record, none of which reaches across its end: the walk of
\* quicrq_datagram_handle_ack over the tree, which does not test for the end
\* of the tree, ends with the datagram, also when the repeats of a fragment
\* were cut otherwise.
RecordsTile ==
    pc # "closed" =>
        \A d \in in_flight : \A b \in AboveHorizon(d) :
            LET at == {das \in datagram_ack_tree :
                         das.key = d.key /\ b \in Bytes(das.offset, das.length)}
            IN Cardinality(at) = 1 /\ \A das \in at : das.offset + das.length <= AckEnd(d)

\* No report of a loss, and no extra repeat, is cut where there is a record
\* already ("TODO: handle whether we can have overlapping fragments. We will
\* assume that we will not"): such a repeat would stop half way with an error.
NeverCollides ==
    pc = "idle" =>
        /\ \A d \in in_flight : ~d.lost =>
             \A das \in ToRepeat(d) : Recut(das, d.length) = Chunks(das.offset, d.length)
        /\ \A i \in DOMAIN extra : \A das \in AckFind(extra[i].key, extra[i].offset) :
             Recut(das, das.length) = Chunks(das.offset, das.length)

\* When no call is under way, the horizon has passed every acknowledged
\* fragment that follows it ("if next fragment is different group id: progress
\* group and object id if the current fragment is fully received").
HorizonCollapsed == pc = "idle" => Collapsible = {}

----------------------------------------------------------------------------
(* The inductive invariant behind these properties.                        *)

IsSent(k, b) ==
    \E s \in sent : s[1] = k /\ b \in Units(s[2].offset, s[2].data_length)

\* The horizon has passed unit b of object k.
Passed(k, b) ==
    \/ Before(k, HorizonKey)
    \/ k = HorizonKey /\ (b < horizon[3] \/ horizon_is_last_fragment)

\* Pieces are sent from the first object on.
SentOK ==
    /\ \A s \in sent : s[1] \in Sent /\ s[2] \in Pieces[s[1]] /\ s = <<s[1], s[2]>>
    /\ sent # {} => \E f \in sent : \A s \in sent : ~Before(s[1], f[1])

HorizonOK ==
    \/ horizon = <<-1, -1, -1>> /\ horizon_is_last_fragment
    \/ /\ sent # {} /\ horizon = <<horizon[1], horizon[2], horizon[3]>>
       /\ HorizonKey \in Key /\ horizon[3] \in 0..ObjectLength[HorizonKey]
       /\ horizon_is_last_fragment <=> horizon[3] >= ObjectLength[HorizonKey]

\* What the horizon has passed is at the peer, or older than all that is sent.
PassedOK ==
    \A k \in Key : \A b \in Units(0, ObjectLength[k]) : Passed(k, b) =>
        \/ IsSent(k, b) /\ <<k, b>> \in received
        \/ \A s \in sent : Before(k, s[1])

FragmentOK(x) ==
    /\ x.key \in Sent /\ x.offset + x.length <= ObjectLength[x.key]
    /\ x.length = 0 => ObjectLength[x.key] = 0
    /\ \A b \in Units(x.offset, x.length) : IsSent(x.key, b)

RecordsOK ==
    \A das \in datagram_ack_tree :
        /\ IsRecord(das) /\ FragmentOK(das)
        /\ \A b \in Units(das.offset, das.length) : ~Passed(das.key, b)
        /\ das.is_acked => UnitsOf(das) \subseteq received

\* x and y have a unit in common.
Meet(x, y) ==
    x.key = y.key /\ Units(x.offset, x.length) \cap Units(y.offset, y.length) # {}

\* The records are a partition of what is sent and not passed.
Disjoint(tree) == \A d, e \in tree : Meet(d, e) => d = e

CoverOK ==
    pc # "closed" => \A k \in Key : \A b \in Units(0, ObjectLength[k]) : IsSent(k, b) /\ ~Passed(k, b) =>
        \E das \in datagram_ack_tree :
            das.key = k /\ b \in Units(das.offset, das.length)

Transmission == [key : Key, offset : Nat, length : Nat, rank : Nat,
                 arrived : BOOLEAN, lost : BOOLEAN]

SameStart(x, y) == x.key = y.key /\ x.offset = y.offset

FlightOK(flight) ==
    /\ \A d \in flight :
        /\ d \in Transmission /\ FragmentOK(d)
        /\ d.arrived => UnitsOf(d) \subseteq received
    /\ \A d, e \in flight : SameStart(d, e) /\ d.rank = e.rank => d = e

\* Records are only ever cut: none reaches across an end of a transmission.
Aligned(flight, tree) ==
    \A d \in flight, das \in tree :
        Meet(d, das) => d.offset <= das.offset /\ das.offset + das.length <= AckEnd(d)

\* last_sent tells whether the record was cut after d was sent, and unless
\* an extra copy was queued, no earlier transmission is still to be reported.
RanksOK(flight, tree) ==
    \A d \in flight, das \in tree : SameStart(d, das) =>
        /\ d.rank <= das.last_sent
        /\ d.rank = das.last_sent => d.length = das.length
        /\ ~d.lost /\ ~das.is_extra_queued => d.rank = das.last_sent

\* The last transmission of a record is not lost, or not needed.
PendingOK(flight, tree) ==
    \A das \in tree :
        \/ UnitsOf(das) \subseteq received
        \/ ~Repeatable(das.key, das.length)
        \/ \E d \in flight : ~d.lost /\ SameStart(d, das) /\ d.rank = das.last_sent

ExtraOK ==
    /\ extra \in Seq([key : Key, offset : Nat])
    /\ \A i, j \in DOMAIN extra : extra[i] = extra[j] => i = j
    /\ \A i \in DOMAIN extra : \E das \in datagram_ack_tree :
            Id(das) = extra[i] /\ das.is_extra_queued

\* Inductive invariant of the acknowledgement and repair of datagrams.
AckInv ==
    /\ SentOK /\ HorizonOK /\ PassedOK
    /\ RecordsOK /\ Disjoint(datagram_ack_tree) /\ CoverOK
    /\ FlightOK(in_flight) /\ Aligned(in_flight, datagram_ack_tree)
    /\ RanksOK(in_flight, datagram_ack_tree)
    /\ PendingOK(in_flight, datagram_ack_tree)
    /\ ExtraOK
    /\ pc \in {"idle", "collapse", "closed"}
    /\ received \subseteq Key \X Nat /\ horizon_is_last_fragment \in BOOLEAN
=============================================================================
