# TLA+ models of quicrq

quicrq is a library that carries realtime media over QUIC (picoquic): clients
publish media objects or subscribe to them through relays, and relays cache
what passes. This project models the parts of it that decide *which object is
handed to whom, when, and how often*, and checks them with TLC. The safety of the
reassembly, of the object consumer, of the fragment cache, of the datagram acks,
of the control stream and of the four transport modes is also proved with TLAPS,
for media of any size.
`PROJECT.json` lists components, runs, mutants,
the map from definitions to source lines, findings, hazards and theorems.

## 1. The system

A *media* is a sequence of groups, each a sequence of objects; the key of an
object is `<<group_id, object_id>>`. The first object of a group carries the
number of objects of the previous one, the only way to tell that a group is
over. Objects are cut in *fragments*. A receiver may join at a *start point*;
a *final point* is announced at the end.

| Part | State | Operations | Talks to |
|---|---|---|---|
| Reassembly (`lib/reassembly.c`) | tree of objects under reassembly, a list of packets in each, next point, final point, `is_finished` | `input`, `learn_start_point`, `learn_final_object_id`, `release` | calls `ready_fn` for each complete object: in sequence, peek, or repair |
| Object consumer (`lib/object_consumer.c`) | order asked for, next point of its own | `bridge_ready`, `bridge_fn` | between reassembly and application |
| Object source (`lib/object_source.c`) | next numbers | publish object, set start, fin | proposes fragments to the cache |
| Fragment cache (`lib/fragment.c`) | tree of fragments, list in order of arrival, first, next and final point | propose, progress, learn start and end point, purge | filled by a source or by the relay; read by the publishers |
| Single stream publisher (`fragment.c`, `quicrq.c`) | current object, group and offset | `quicrq_fragment_publisher_fn`, `prepare_to_send_media_to_stream` | pulls from the cache, fills a QUIC stream |
| Datagram publisher (`fragment.c`) | current fragment, tree of objects sent or dropped | check, send, prune | pulls from the cache, fills datagrams |
| Datagram acks (`lib/quicrq.c`) | tree of ack records, horizon, list of extra repeats | ack init, ack, lost, spurious, extra repeat | called by the datagram publisher and by picoquic |
| Congestion (`lib/congestion.c`) | per connection threshold of priorities | evaluate for stream, warp, datagram | asks the cache for its backlog |
| Control streams (`quicrq.c`, `proto.c`) | send and receive state of each stream | request, post, accept, start point, cache policy, final point, fin | one bidirectional stream per media |
| Warp and rush streams (`quicrq.c`) | send and receive state of each unidirectional stream | open, header, object header, data, close | one stream per group or per object |
| Relay and origin (`lib/relay.c`) | upstream connection, consumer contexts | subscribe upstream, fill the cache, close, purge, delete | consumer of one connection, source of others |
| Patterns (`quicrq.c`, `relay.c`) | subscriptions to a prefix, notifications | subscribe, notify | control streams |
| Wire encoding (`proto.c`) | none | encode and decode each message | |
| Life cycle (`quicrq.c`) | lists of connections, streams, sources | create, delete | |

The library is single threaded: picoquic calls it back for data, datagrams,
acks, losses, and to fill packets; the application calls it to publish. So what
is hard is not data races. It is the *order* of these calls (fragments, control
messages, acks and loss reports come in any order, late or twice), repeats that
are cut otherwise than the original, state that several parts derive separately
from the same fragments (next point of the reassembly, of the bridge, of the
cache; horizon of the acks), and what happens at the edges: start point after
the data, end of the feed in the middle of an object, empty objects, the first
and last object of a group.

What makes each part correct:

* reassembly and bridge: every object once, in the order asked for, no gap,
  finished exactly when everything was handed over;
* cache: the next point is exactly what is held, each object is counted once,
  nothing purged returns, what is announced as final can be served;
* acks: a byte is forgotten only when the peer has it, a lost byte is sent again;
* publishers and streams: everything in the cache is sent once, under the right
  label, in the order of the mode, or replaced by a placeholder; an end is
  announced only when nothing is missing; no stream sleeps with work to do; a
  purge does not take away what a reader still needs;
* control streams: no message that the peer refuses, every announcement arrives,
  both contexts die, and neither before the last data for it.

## 2. Modules

| Module | Models | Remarks |
|---|---|---|
| `Media` | the media itself | constants shared by the others, order of keys |
| `Reassembly` | `reassembly.c` | one action per path of `quicrq_reassembly_input`, per turn of the update loop, per control event |
| `PacketList` | `quicrq_reassembly_object_add_packet`, `_reassemble` | its two loops take a step per turn; justifies the set of bytes that `Reassembly` keeps of an object |
| `ObjectDelivery` | nothing: the promise | abstract specification, implemented by `Reassembly` |
| `ObjectConsumer` | `object_consumer.c` | composed with `Reassembly`: each `ready_fn` call is one step of the bridge |
| `FragmentCache` | the cache of `fragment.c`, the consumer callback and the cache life of `relay.c` | loops take a step per turn |
| `DatagramAck` | ack tree, horizon, repeat, extra repeat of `quicrq.c` | picoquic is external: what it reports, and in which order, is free |
| `MediaSource` | the cache as its readers see it: order of arrival and order of the media, lookups, purge with readers; the fields of the reader's stream, REQUEST with any intent and start point, wake-up | base of the next three; each piece comes once |
| `StreamPublisher` | single stream mode: `quicrq_fragment_publisher_fn`, `is_ready_to_send`, `quicrq_prepare_to_send_media_to_stream`; REQUEST, and the polls that send START_POINT and CACHE_POLICY | the reader's position and the numbering of the stream are separate, as in the code; an arrival may fall between the REQUEST and the poll that makes the stream inactive |
| `DatagramPublisher` | datagram mode: `quicrq_fragment_datagram_publisher_fn` with its list of objects | sends in order of arrival |
| `UniStreams` | warp and rush: wake-ups of `proto.c`, both ends of the unidirectional streams in `quicrq.c` | streams are reliable, independent of each other; `opened_twice` records that a wake-up created a second stream for the same group or object, `passed_by` which objects a stale `next_rush_object_id` hides |
| `Transport` | composition of the three publishers with one source, the purge and the wake-ups | one reader, whose mode is chosen initially |
| `ControlStream` | the control stream of a media, both ends: `prepare_to_send_on_stream`, `receive_stream_data`, request, post, accept, wake-up, abandon, deletion | datagram mode; one action per callback or call |
| `Media_proofs` | | lemmas on keys and their order, used by all the others but `PacketList_proofs` and `ControlStream_proofs` |
| `Reassembly_proofs` | | theorems about `Reassembly`, and that it implements `ObjectDelivery` |
| `PacketList_proofs` | | theorems about `PacketList` |
| `Consumer_proofs` | | theorems about `ObjectConsumer`, from those on `Reassembly` |
| `DatagramAck_proofs`, `FragmentCache_proofs`, `ControlStream_proofs`, `Transport_proofs` | | theorems about the module of that name |
| `MC...` | | instances for TLC |

**Correspondence.** Variables have the names of the fields they stand for
(`next_point` and `first_point` in `FragmentCache`, `horizon` in `DatagramAck`
group the coordinates). Variables marked *history* are not in the code; the
properties speak about them. `pc` says whether a call is under way: a loop of
the code whose turns matter is a series of steps, and nothing else is enabled
until the call returns.

**Abstractions.** Payload is left out; the bytes of an object are its offsets.
`PacketList` keeps for each packet the position its data was copied from, which
is what a wrong copy would get wrong. In `ControlStream` points are object ids within one group, and picoquic's view of
a stream is whether it is polled (`active`) and whether FIN was given to it: after
FIN, marking it active has no effect. Flags, delays and clocks are left out; in
`DatagramAck` time is the rank of a transmission among those of its fragment.
`UINT64_MAX` as the initial horizon is -1, as the code compares by signed
differences. Failures of malloc are left out; failures of `ready_fn` and
contradictory lengths are in.

`Reassembly` receives any piece of any object, cut anywhere, any number of
times, and placeholders repeated under another length (the sender repeats a
dropped object with the length in its ack record). `FragmentCache` receives the
pieces that `Pieces` lists.

The list in order of arrival is a function from ranks to fragments (`in_order`): a
new fragment gets a rank above all others (`Linked`), a deleted one leaves a gap,
which is all that the publisher's walk along `next_in_order` can tell.

In `Transport` the messages that reach the consumer record the label they carry
and, as history, where their bytes were copied from, which is what
`TrueFragments` compares. How many bytes fit in a packet is free, as is whether a
datagram header fits at all. Congestion control is an over-approximation: the
code's conditions on groups, on objects sent in part and on the first object of
a group are there; the size of the backlog, the flags and the threshold per
connection are left open, so an object may or may not be dropped wherever they
could allow it. A purge may free the fragment that a publisher points to; the
code then reads freed memory, and the model stops that reader (`dangling`)
instead of guessing. The media id of a unidirectional stream is its control
stream; headers and data are messages, never cut in the middle.

## 3. Runs

| Run | Shows |
|---|---|
| `consumer` | the reassembly hands objects once, in order, without gap or stall and finishes exactly at the end, whatever the network does; it implements `ObjectDelivery` and finishes under fairness; the application behind the bridge gets each object once, in the order it asked for, and all unless it skips |
| `packet_list` | union of the pieces, whatever the overlaps; right data at each offset |
| `fragment_cache` | the next point is exactly the prefix held; objects counted once; final points can be served; the media is found complete in the end |
| `cache_late_start` (violation) | a start point learned after its objects came leaves the next point behind |
| `cache_purge` (violation) | a purge makes late objects too old |
| `datagram_ack` | a byte not at the peer is always in a transmission that is not declared lost; records are marked and forgotten only with their bytes at the peer; the walks over the tree stay within it; no repeat is cut across another record |
| `control_stream` | from REQUEST or POST to the deletion of both contexts: no end sends what the other rejects, a context dies only when nothing more can come for it, "finished" is said of whole media only, the stream never comes to rest with something left to tell or to close, start and final point arrive, both ends close |
| `control_final` (violation) | a final point known before the start point was sent is never announced |
| `transport` | all four modes, any order of arrival, REQUEST from the beginning, the middle of a group, the current or the next group, purge under a datagram reader, group congestion control: messages are labelled truly, no byte is passed twice, no object or group gets a second stream, single stream messages follow the three conditions of `doc/protocol.md`, an end comes after everything, a purge spares what a datagram reader has to send, the receiver of warp and rush streams never fails, and every object is served in the end |
| `transport_delay` (violation) | with congestion control by delay an object is skipped in the middle |
| `transport_numbering` (violation) | a single stream of a cache that was purged, or asked for from past the end of a group, labels its objects with the numbers of others |
| `transport_purge` (violation) | a purge deletes what a single stream has still to read |

**Bounds and why they are enough.** Three groups are the smallest media with a
first, a middle and a last group; groups of two objects (one in the middle
where the run allows it) give an object that opens a group, one that closes it
and one that does both. Objects have 0 to 3 bytes: empty, atomic, in two pieces,
and with a hole in the middle. The media is joined at its second object, so that
the start point differs from the initial next point. `PacketList` has objects
of up to 6 bytes (`MaxLength`), which allows a fragment to overlap three packets
and the holes between them; the empty fragments of a repeated placeholder, which
the code adds to the list each time, stop coming at `MaxPackets` packets. `DatagramAck` has a fragment of 3 bytes where 2 fit in a repeat, so
that it is cut, repeated up to twice and with an extra copy; a placeholder that
ends the group; and an object that opens the next. `MaxRepeats` bounds the
number of losses: a transmission at the bound is not declared lost.
`ControlStream` has a media of up to two objects whose first id is 0 (no start
point to announce) or 1 (`MaxStart`); the start point, the policy and the end may be known
when the stream opens or be learned at any step. Messages with a url come in one
or two parts, which is enough for an event to fall inside a message. `Transport` has groups of one, two and one objects: one byte; an empty
placeholder and an object of two bytes in one piece, which may be sent in two
messages; an object in two pieces. That gives a group that opens with an empty
object, a place where an object may be dropped (only the second of a group may),
a hole inside an object, and orders of arrival in which a group is opened before
the previous one is known. All four modes are in one run. `Intents` gives the
REQUESTs of each mode: 0/0, the object 1/1 in the middle of a group, the current
and the next group. Warp and rush readers ask for 0/0 only, because their
wake-ups ignore the intent. `RealTime` lists the modes in which the media is real
time, so that a single stream sends CACHE_POLICY after START_POINT, and
`Purged` those in which the cache is purged: the datagram mode in `transport`, the
single stream in `transport_numbering` and `transport_purge`, which show what the
purge does to it. The other two modes read by lookup and only meet a purge as a
missing object. `MaxInFlight` is 1: a stream is as slow
as any other receiver could make it, and the receiver of one stream never looks
at another. There is no symmetry: keys are ordered.

**Deadlock** is not checked where the system may stop: a released context, a
finished media, a cache that was deleted. `packet_list` never stops.

**Fairness.** `Reassembly`: weak fairness of the arrival of each byte and of the
two control messages, and of the turns of a loop. The sender repeats each
fragment until it is acknowledged (this is `RepairPending` of `DatagramAck`) and
control messages travel on a reliable stream, so each of them comes; a loop of
the code runs to its end. `FragmentCache`: the same, with strong fairness of
arrivals, since these are disabled while a call for another fragment runs.
`ControlStream`: weak fairness of the polls of an active stream, of the delivery
on a stream, and of the sending and arrival of each object, which is what
picoquic and the repair provide; the ends of the connection may close at any
time, and the liveness properties excuse that. `Transport`: weak fairness of
`Progress`, that is of arrivals, the REQUEST, the polls of active streams and
the delivery on streams. Every step of `Progress` is final (a fragment arrives
once, a message is sent and received once, a stream goes idle until the next
arrival), so behaviours without the end of the control stream and the purge are
finite and one condition is as strong as one per action; purge and the end of the
control stream are not fair. `EventuallyServed` names its exceptions one by one,
each by the state that causes it and not by its effect. `NotCalled`: no arrival
since the reader was ready for one (section 4, `Transport_start_race.cfg`).
`Abandoned`: the pointer into the cache was freed, the last datagram found no room
for its header, the control stream is closed, or the single stream starts at an
object without bytes. `LeftOut`: objects before the start point, before the first
object that a datagram reader sent, and those in `passed_by`, which the rush index
of an earlier group had already passed when their group was entered; any other
object of a rush media without a stream violates the property. Nothing is assumed of the application, the purge or the close of the feed:
`EventuallyReceived` excludes runs in which the feed closes, and those in which
the purge has cut off objects (the run `cache_purge`).

**Mutants.** Each property of a passing run has a mutant: an operator next to the
definition it replaces, with a plausible slip (a count that is not compared, a
loop that stops after one turn, a list that keeps a freed record).

## 4. Findings

1. `cache_late_start`: `quicrq_fragment_cache_learn_start_point` moves the next
   point and never runs the progress loop, so a relay whose datagrams overtake
   the START_POINT message never finds the media complete.
2. `cache_purge`: the purge moves the first point to the first fragment kept,
   also when nothing was removed; missing earlier objects are refused afterwards.
3. `control_final`: after START_POINT only the cache policy keeps the stream
   active, so a media that ended before its start point was sent never announces
   its final point. `FinalPointReachesFromZero` shows that it always arrives when
   there is no start point. In the same way a cache policy that is pending when
   the final point is sent is lost.
4. `transport_delay`: the group modes of `quicrq_evaluate_stream_congestion`
   never skip an object that was sent in part, the delay mode does
   (`congestion.c:183-201`). The stream then holds a fragment that is not the
   last of its object, followed by a placeholder at offset 0, against the order
   that `doc/protocol.md:200-211` requires; the reader also keeps `length_sent`,
   so it starts the next object in the middle.
5. `transport_numbering`: "Override the intent if impossible to meet"
   (`quicrq.c:1699`) compares the intent with fields of the stream context that are
   still 0. A REQUEST from 0/0 for a single stream of a purged cache starts reading
   at the first point of the cache and numbers from 0/0, while
   `quicrq_fragment.h:152-154` says that the client sees the numbers "from that new
   start point on". This is the counterexample that TLC prints.
6. The same run, without the purge in `Transport_past_group.cfg`: when the REQUEST
   starts past the end of a group, the probe of
   `quicrq_fragment_is_ready_to_send` (`fragment.c:563`) moves the reader to the
   next group and drops `is_new_group`. With 1/2 in a group of two, 2/0 is labelled
   1/2 and 1/3 is announced as the final point.
7. `transport_purge`: `quicrq_fragment_cache_media_purge_to_gob` takes the read
   point of a reader from a tree that only the datagram publisher fills
   (`fragment.c:412`). What a single stream has still to read is deleted, against
   "lowest of current read point for any reader" (`quicrq_fragment.h:136`,
   `fragment.c:399`). The stream then waits at a deleted object, or reads through
   the freed fragment it points to.

Three more configurations reproduce behaviours that a comment or a document
contradicts; TLC finds each of them violated.

* `Consumer_skip_gap.cfg` (`SkippedAreAnnounced`, module `MCObjectConsumer`):
  `object_consumer.c:69-71` promises placeholders for all objects dropped when the
  bridge skips; when the size of the group that is left is unknown, only some are
  sent.
* `DatagramAck_horizon.cfg` (`HorizonCollapsed`, module `MCDatagramAck`): the
  comment at `quicrq.c:766-772` describes how the horizon passes to the next group;
  the ack of the first object of a group does not trigger it (`quicrq.c:725`).
* `Transport_start_race.cfg` (`StreamServed`, module `MCTransport`): an arrival
  between the REQUEST and the poll that sends START_POINT finds the stream active
  already, and that poll then makes it inactive (`quicrq.c:1282-1287`). When it was
  the last arrival, the stream stays in `ready` for ever, although
  `doc/Relay_Architecture.md:97-101` says that an arrival marks "every stream
  waiting for the media" as ready. The cause is that of `control_final`.

The remaining exceptions in `EventuallyServed` are behaviours of the code on which
the documents are silent: a REQUEST that comes after the whole media creates no
warp or rush stream (`quicrq.c:1678`); a rush group entered while
`next_rush_object_id` is stale loses its first streams (`proto.c:1011`); a single
stream that starts at an empty object never turns to sending (`fragment.c:563`); a
datagram without room for its header is not tried again before the next arrival
(`quicrq.c:1074`); a datagram publisher passes over what comes before the first
object it sent (`fragment.c:763`).

## 5. Proofs

The theorems hold for every number of groups and objects, all lengths and start
points. What they assume of the constants is named, and TLC evaluates it in the
runs: `MediaAssumption` (groups are not empty, the start point is an object),
`PlaceholderAssumption` (only an empty object is repeated under another length),
`AckAssumption` (pieces lie within their object and follow one another, as the
publisher cuts them), `CacheAssumption` (pieces lie within their object),
`ControlAssumption` (start points and intents are numbers), `ObjectAssumption`
(so are the bounds of `PacketList`), `SourceAssumption`
(the pieces of an object cover it, do not overlap, and only that of an empty
object is empty; modes and congestion modes are those of the code, and a REQUEST
has one of its three intents and any group and object number).

| Theorem | States |
|---|---|
| *Reassembly_proofs* | |
| `TypeCorrect`, `InvariantHolds` | `TypeOK` and the inductive invariant `IInv` always hold |
| `NeverTwice` | `AtMostOnce` |
| `NoGap` | `InOrderPrefix` |
| `RepairFollowsPeek` | `RepairWasPeeked` |
| `NeverStalled` | `NoStall` |
| `FinishedIsComplete`, `CompleteIsFinished` | `FinishedMeansAll`, `AllMeansFinished` |
| `RefinesDelivery` | `Spec => ImplementsDelivery`: a behaviour of the reassembly is one of `ObjectDelivery` |
| *PacketList_proofs* | |
| `PacketInvariantHolds` | the inductive invariant `PacketInv` |
| `BytesAddedOnce` | `AddsItsBytes` |
| `ObjectReassembled` | `ReassembledWhole` |
| *Consumer_proofs* | |
| `ConsumerRefinesReassembly` | the composition is a behaviour of `Reassembly`, whose theorems carry over |
| `ConsumerImplementsDelivery` | `ImplementsDelivery`, of the composition |
| `BridgeInvariantHolds` | the inductive invariant `BridgeInv` |
| `ConsumerNeverTwice` | `DeliveredOnce` |
| `ConsumerInOrder` | `DeliveredInOrder` |
| `ConsumerComplete` | `DeliveredAll` |
| *DatagramAck_proofs* | |
| `AckInvariantHolds`, `AckTypeCorrect` | the inductive invariant `AckInv`, and `AckTypeOK` |
| `AcksAreTrue` | `AckedMeansReceived` |
| `RecordsTileFlight` | `RecordsTile` |
| `RepeatsNeverCollide` | `NeverCollides` |
| `RepairNeverForgotten` | `RepairPending`, if the empty objects are placeholders |
| *FragmentCache_proofs* | all under `StartInTime` |
| `CacheInvariantHolds`, `CacheTypeCorrect` | the inductive invariant `CacheInv`, and `CacheTypeOK` |
| `NextPointIsTrue` | `NextIsPrefix` |
| `ServedWhenComplete` | `ServedToTheEnd` |
| `ApartInvariantHolds` | the inductive invariant `ApartInv`, if `DisjointPieces` |
| `NextPointIsMaximal`, `ObjectsCountedOnce` | `NextIsMaximal`, `CountedOnce`, if `DisjointPieces` |
| *ControlStream_proofs* | |
| `ControlInvariantHolds`, `ControlTypeCorrect` | the inductive invariant `ControlInv`, and `ControlTypeOK` |
| `NeverProtocolError` | `NoProtocolError` |
| `NeverOrphanData` | `NoOrphanData` |
| `FinishedMeansWhole` | `FinishedIsWhole` |
| `LiveInvariantHolds` | the inductive invariant `LiveInv` of polls and announcements |
| `StreamNeverStuck` | `NeverStuck` |
| *Transport_proofs* | |
| `UniInvariantHolds` | the inductive invariant `UniInv` of warp and rush |
| `StreamsOpenedOnce` | the inductive invariant `OpenedInv`: no wake-up opens a second stream for a group or an object |
| `StreamsUnderstood` | `NoUniStreamError` |
| `DatagramInvariantHolds` | the inductive invariant `DatagramInv` |
| `DatagramsSpared` | `PurgeSparesDatagrams` |
| `StreamInvariantHolds` | the inductive invariant `StreamInv` of the single stream, for any REQUEST and purge, without delay |
| `TransportTypesHold` | `TransportTypeOK`, without delay |
| `FragmentsAreTrue` | `TrueFragments`, without delay, if `NumberingKept` |
| `EverythingSentOnce` | `SentOnce`, without delay |
| `EndsAreTrue` | `ClosedMeansSent`, without delay, if `NumberingKept` |
| `StreamsInOrder` | the action property `StreamInOrder`, without delay |

Some of them have a hypothesis beside the assumptions. `StartInTime` says that
no fragment comes before the START_POINT message, unless the media starts at 0/0:
without it the next point is left behind (the run `cache_late_start`), and the run
`fragment_cache` makes the same assumption. `DisjointPieces` says that the
fragments of an object do not overlap. `CacheInv` does without it; `NextIsMaximal`
and `CountedOnce` are false without it: when an object of 4 bytes comes in
overlapping pieces, TLC finds the piece behind a cached fragment stored at the
offset of the whole one (`fragment.c:250`), and both are violated.
An empty object that is not a placeholder is not repeated by the code
(`quicrq.c:835`), so `RepairNeverForgotten` excludes it. *Without delay* is the
hypothesis that the congestion control by delay is not used, or that the single
stream is not: together they give up an object in the middle and then number the
next one wrongly (the run `transport_delay`). The other three modes need no such
hypothesis, and with it the theorems speak of them under any congestion control.
`NumberingKept` says that the cache of a single stream is not purged and that no
REQUEST for one names an object past the end of a group other than the last:
without the one or the other the labels are wrong (the run `transport_numbering`).
It too concerns the single stream only.

**Reassembly.** None of the properties is inductive alone: `AtMostOnce` does not
say why an object that was peeked is not peeked again. `IInv` adds the reason.
`CallsOK` ties the calls made for each object to the state: handed in order
exactly if it is before the next point, handed in any order exactly if it is
before the next point or waits in the tree. `TreeOK` says that a record holds
bytes of its object only, is complete when it is marked reassembled, and is never
behind the next point. `NextPointOK` keeps the next point at an object or at the
end of a group, which with the count carried by the first object (`ObjectOK`)
gives that a group is entered only when the previous one is over. `FinalOK` ties
`is_finished` to the final point. These hold as long as no error occurred;
`DeliveryInv` is what outlives an error or a release. There is one lemma per kind
of step (`PartialStep`, `RepeatedStep`, `PeekStep`, `DeliverStep`,
`SequenceStep`, `UpdateDeliverStep`, ...), over lemmas about keys (`KeyShape`),
fragments (`FragmentShape`, `StoredSound`) and the move of the next point
(`Advance`, `InOrderFollows`, `EntersGroupFollows`).

**Packet list.** `PacketInv` speaks of the list at every turn of a loop. Packets
are in the order of the object and apart from each other, said of any two
positions, and hold the data of their place. During the scan, what came and is
not in the list lies in the incoming data that is left, all packets already
looked at end before it, and its data pointer is in step with its offset; so what
a turn stores overlaps nothing. `data_received` is the cardinality of the bytes
held, which lie in the object: a complete count therefore means the whole set of
bytes. A list without overlap that holds the whole set begins at 0, ends at the
length, and has no packet that starts after the end of the one before, which is
why none of the checks that are "never supposed to fire" fires, and why the copy
fills the buffer. Since the loops are steps and the order is pairwise, no
induction over the list is needed.

**Refinement of `ObjectDelivery`.** The calls of a step show up as a difference
between the calls recorded before and after it (`CallChanges`); each kind of call
is a `Hand` of the abstract specification (`PeekHands`, `SequenceHands`,
`UpdateHands`), the end of the media its `Finish`, all other steps stutter. `IInv`
supplies what the abstract guard asks: the object handed in order is the next one.

**Object consumer.** `BridgeInv` says what the application has got in terms of the
calls of the reassembly: with no order, all objects seen; in order, all objects
handed in order; when skipping, only objects before the point of the bridge, which
is why a repair of a skipped group is not passed on. A list to which objects are
added at its sorted end stays free of repeats (`ExtendSorted`, `SortedIsOnce`).

**Datagram acks.** `AckInv` has a part for each structure and one for each pair:
records do not overlap (`Disjoint`) and cover the bytes sent that the horizon has
not passed (`CoverOK`); what is passed is at the peer (`PassedOK`); a transmission
begins and ends where records do (`Aligned`), which is what the walk of an ack
needs and what a repeat that is cut preserves; a record without an ack is in a
transmission as recent as the record (`RanksOK`, `PendingOK`), which is why the
loss of the latest transmission leads to a repeat and the loss of an older one
may be ignored; the list of extra repeats holds records of the tree (`ExtraOK`).
The cut of a repeat into parts of at most `MaxRepeat` bytes is treated once
(`ChunkShape`, `PartsTile`).

**Fragment cache.** `NextIsPrefix` is inductive with `CallOK` (where a loop of the
code stands, and what of its fragment is still to be added), `GroupHeld` (a
fragment of the group of the next point stays in the tree, since a purge never
empties it) and `FinalOK` (how far the next point is when an end is declared). For
`NextIsMaximal` and `CountedOnce`, `ApartInv` adds that fragments in the tree are
whole pieces, that the walk back through the tree has passed only fragments behind
the proposed one, and which objects are complete. The first fragment in the order
of the tree exists because keys and offsets are well ordered (`FirstExists`), not
because the tree is finite.

**Control stream.** `ControlInv` describes both contexts and the chunks between
them. `FinOK`: FIN is the last chunk, and a context is deleted when both ends gave
it. `RoleOK`: the states in which a sender and a receiver can be. `OpeningOK`:
until the server has the whole REQUEST or POST, the other end has said nothing and
the client has learned nothing. `ReceiverSays` and `SenderSays`: what can be on
the way, and that an announcement comes behind the opening message, so that it
finds a receiver (`Ready`). `StartOK` and `PolicyOK`: as long as the sender has not
told the start point (the policy), the receiver does not know it and it is not on
the way; at most one such chunk is. `PointsOK`: no start point in a context or
on the way skips an object that the sender sends, and a final point is that of the
source; this is why "finished" means whole. `NeverUnexpected` then shows that the
head of a stream is never an error; there is one lemma per callback or call, over
frame lemmas for what leaves the wire alone (`SourceFrame`, `ReceiverFrame`),
takes its head (`OpeningTaken`) or adds to it (`MessageFrame`).

*What keeps the stream going.* `NeverStuck` is the part of `StartPointReaches`,
`FinalPointReachesFromZero` and `BothEndsClose` that is safety: while one of their
goals is open a poll is due or a chunk is on the way, and fairness brings that
poll or chunk. It also covers the cache policy, as long as the final point was not
sent. Each message decides by a list of its own whether the stream stays active,
so the reason is spread over all handlers; `LiveInv` collects it. `LiveAt`: an end
with something to say is polled (`Polled`), and FIN was given exactly by an end
that is gone or says so itself (`PollAt`). `StartTold`, `FinalTold`, `FinTold`: what
was told has arrived, is on the way, or the other end is gone. `AcceptTold`: a
client that waits for ACCEPT gets it or FIN. `SenderStays`: the sender of a media
closes only after the receiver, so it is there while an announcement is owed. What
`NeverStuck` leaves out is what the code does not promise: the final point behind
a start point (the run `control_final`), and the policy behind the final point.

**Transport.** The three publishers share the cache and nothing else, so there is
one inductive invariant for each; the properties of the run follow from the three
together, mode by mode (`TypesFollow`, `TruthFollows`, `EndFollows`).

*Warp and rush* (`UniInv`). The position of an end on a stream is a *place*: at the
opening, before the header of an object, at an offset of its data, at the end.
`InStep` says that the messages in flight are a chain: the first continues from
the receiver's place, each next one from where the one before leads, and the last
leads to the sender's place. A send extends the chain (`ChainExtended`), a receive
shortens it (`ChainRead`), so the receiver always finds a message that fits its
state, and `NoUniStreamError` follows. `UniReceivedOK` says that what was passed
on is exactly what the receiver is past of (`Past`, `Filled`), which gives
`SentOnce` and that a FIN comes last. After the receiver deleted its control
stream only `ControlOK` remains: its streams are new or closed (`OutlivedRead`).
`OpenedInv` is kept apart: the streams that exist belong to groups before
`next_warp_group_id`, or to objects of that group before `next_rush_object_id`
(`OpenedOK`), and a wake-up opens streams from there on (`WarpOpens`,
`RushOpens`). When a wake-up moves to the next group it may keep a stale object
index, which leaves streams out and never repeats one.

*Single stream* (`StreamInv`). The reader of the cache and the stream context keep
separate counts. `LabelsOK` says that they agree: the next label is the object that
the reader goes on with, at the reader's offset, but in the two cases of
`Misnumbered`: a stream that numbers from 0/0 while its reader starts later, and a
stream that starts past the end of its group. In these the stream still sends no
byte twice and each message follows the last one, so `SentOnce` and
`StreamInOrder` hold for every REQUEST and every purge; what is lost is that the
labels are true. `NumbersHold` shows that `NumberingKept` excludes both cases. A
start point may lie anywhere: `ReaderOK` bounds the reader by the objects of its
group once the probe has found a fragment, which is why a new group
is entered only at the end of the one before. `StreamReceivedOK` says that all that
lies before the next label was passed, and nothing else. `GetDataShape` treats the
search for the next fragment once, `MessageSent` the message.

*Datagrams* (`DatagramInv`). `CacheOK`: what was deleted lies before the first
point and in a group that was passed, so it never returns. `ListOK`: the ranks
name the fragments of the cache, each once. `CurrentOK`, `UnsentOK`: what is left of
the current fragment (`ToSend`), what is linked after it, and what has not arrived
yet (`Untouched`) was not sent, except as a dropped object, and those stay in the
list. `ObjectsOK`: the bytes counted for an object in the list are the bytes that
were sent, so that `is_sent` means complete; and what comes before the first object
of the list is complete, or precedes the first object ever sent. The last is what
the pruning must keep: an object is pruned when its successor is in the list, and
a chain of successors leaves nothing out (`NothingLeftBehind`, which uses that the
count of the previous group is true). `PurgeSparesDatagrams` is part of the
invariant: a purge stops at the first object of the list. `CheckShape` treats the
search for the next fragment, `UpdateShape` the list, `BytesCounted` and
`BytesAdded` the counting. Lists need not be finite for this: a set of keys has
a first and a last one because group numbers, and object numbers in a group, are
bounded (`FirstKey`, `LastKey`).

**Only model-checked.** Liveness (`EventuallyFinished`, `EventuallyReceived`,
`EventuallyServed` and those of `ControlStream`), which is out of reach of the
prover; of the properties of `ControlStream` the safety part is proved, as
`NeverStuck`. All other properties of the passing runs are stated by a theorem.
The inductive invariants were also checked with TLC on the
instances of the runs, `DatagramInv` with delay congestion too.

## 6. Plan

1. The upstream side of the relay and the pattern streams, once it is settled
   which streams picoquic polls.
2. Composition of the cache with a downstream `Reassembly` (a final point derived
   at the close of a feed must be one that a receiver reaches).

## 7. Not modelled

The wire encoding (pure functions on byte strings, covered message by message by
the unit tests), the applications and test drivers, logging and statistics,
memory exhaustion, and picoquic itself, of which the models use only the calls
it makes. Further:

* pattern subscription and notification, and the choice of the relay's upstream
  connection: a queued notification is sent only if picoquic polls a stream that
  was never marked active (`quicrq.c:1547`, `proto.c:1175`), which cannot be
  decided from this repository, whose tests expect it to be sent;
* headers of warp streams that are cut by the end of a packet (`quicrq.c:1453`)
  and packets with the end of an object and more behind it (`quicrq.c:1938`):
  these need the bytes of the packets;
* the exact congestion decision (backlog size, flags, end of congestion mark,
  threshold per connection): over-approximated as said above;
* a final point that contradicts the one already known, for which
  `quicrq_reassembly_learn_final_object_id` fails (`reassembly.c:539-541`): a source
  announces one final point, and no property depends on the error;
* warp and rush readers that ask for another start point than 0/0;
* a media posted on a single stream, which starts to send without a REQUEST and
  numbers from 0/0 like `Misnumbered`;
* readers of a cache whose start point is learned after they subscribed, a purge
  in warp and rush mode, empty objects that are not placeholders, and a second
  reader of the same cache, whose streams share no state with the first but for
  the purge;
* a control stream that opens for a media sent upstream on a warp stream, whose
  later fragments carry `nb_objects_previous_group` too: `MediaSource` keeps it at
  offset 0, where all readers look.

Hazards without a property have a note in `PROJECT.json` that says why.
