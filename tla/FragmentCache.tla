--------------------------- MODULE FragmentCache ---------------------------
(***************************************************************************)
(* The cache of a media at a relay or an origin (lib/fragment.c) and the   *)
(* consumer that fills it from an upstream connection (lib/relay.c).       *)
(*                                                                         *)
(* Fragments come in any order and more than once.  The cache keeps them   *)
(* in a tree ordered by key and offset, and the point up to which it holds *)
(* everything (the next point), from which the relay tells that the media  *)
(* is complete and derives a final point when the feed closes early.       *)
(*                                                                         *)
(* The loops of quicrq_fragment_propose_to_cache and of                    *)
(* quicrq_fragment_cache_progress take one step per turn; no other         *)
(* operation is enabled until the call returns (pc = "idle").  Payload,    *)
(* flags, delays and time are left out, and so is the order of arrival,    *)
(* which only the readers of the cache use.                                *)
(***************************************************************************)
EXTENDS Media, FiniteSets

CONSTANTS Pieces,      \* for each object, the [offset, data_length] it is sent in
          StartInTime  \* the start point arrives before the first fragment

ASSUME CacheAssumption ==
    /\ StartInTime \in BOOLEAN
    /\ \A k \in Key : \A p \in Pieces[k] :
        /\ p.offset \in Nat /\ p.data_length \in Nat
        /\ p.offset + p.data_length <= ObjectLength[k]
        /\ p.data_length = 0 => ObjectLength[k] = 0

VARIABLES
    fragment_tree,       \* the fragments in the cache
    next_point,          \* <<next_group_id, next_object_id, next_offset>>
    first_point,         \* <<first_group_id, first_object_id>>
    final_point,         \* <<0, 0>> if unknown
    nb_object_received,
    is_cache_real_time,  \* cache policy: old groups may be purged
    is_receive_complete, \* the consumer said that the media is complete
    is_feed_closed,
    start_learned,       \* the start point was received
    pc,                  \* what the current call is doing
    job,                 \* what is left to store of the proposed fragment
    at,                  \* the fragment that the progress loop looks at
    received             \* history: the objects that were complete at some time

feed_vars == <<is_cache_real_time, is_receive_complete, is_feed_closed, start_learned>>
cache_vars == <<fragment_tree, next_point, first_point, final_point,
                nb_object_received, feed_vars, pc, job, at, received>>

Point == Nat \X Nat

\* The fragments that can be cut out of object k.
FragmentOf(k, offset, data_length, nb) ==
    [key |-> k, offset |-> offset, data_length |-> data_length,
     object_length |-> ObjectLength[k], nb_objects_previous_group |-> nb]

IsFragment(f) ==
    /\ f.key \in Sent
    /\ f.object_length = ObjectLength[f.key]
    /\ f.offset \in Nat /\ f.data_length \in Nat
    /\ f.offset + f.data_length <= f.object_length

End(f) == f.offset + f.data_length

\* Order of the tree.
FragmentLess(e, f) ==
    Before(e.key, f.key) \/ (e.key = f.key /\ e.offset < f.offset)

\* First and last fragment of a set, as a set of at most one fragment.
FirstOf(S) == {f \in S : \A e \in S : ~FragmentLess(e, f)}
LastOf(S) == {f \in S : \A e \in S : ~FragmentLess(f, e)}

NoJob == [key |-> <<0, 0>>, offset |-> 0, data_length |-> 0, nb |-> 0,
          added |-> FALSE, cursor |-> {}]

NextKey == <<next_point[1], next_point[2]>>

\* Type invariant of the cache and its feed.  Nothing in the tree is before
\* the first point: what was purged does not come back.
CacheTypeOK ==
    /\ \A f \in fragment_tree : IsFragment(f) /\ ~Before(f.key, first_point)
    /\ next_point \in Nat \X Nat \X Nat
    /\ first_point \in Point /\ final_point \in Point
    /\ nb_object_received \in Nat
    /\ is_cache_real_time \in BOOLEAN /\ is_receive_complete \in BOOLEAN
    /\ is_feed_closed \in BOOLEAN /\ start_learned \in BOOLEAN
    /\ pc \in {"idle", "walk", "progress", "count", "deleted"}
    /\ at \subseteq fragment_tree /\ received \subseteq Sent
    /\ job.cursor \subseteq fragment_tree

\* quicrq_fragment_cache_create_ctx.
CacheInit ==
    /\ fragment_tree = {}
    /\ next_point = <<0, 0, 0>>
    /\ first_point = <<0, 0>> /\ final_point = <<0, 0>>
    /\ nb_object_received = 0
    /\ is_cache_real_time = FALSE /\ is_receive_complete = FALSE
    /\ is_feed_closed = FALSE /\ start_learned = FALSE
    /\ pc = "idle" /\ job = NoJob /\ at = {} /\ received = {}

----------------------------------------------------------------------------
(* quicrq_fragment_propose_to_cache, called by quicrq_relay_consumer_cb.   *)

\* The media is complete, for the relay.
ReachesFinal(point) ==
    final_point # <<0, 0>> /\ <<point[1], point[2]>> = final_point

\* Mutant of TooOld: purged objects may come back.
TooOldNever(k) == FALSE

TooOld(k) == Before(k, first_point)

FeedOpen ==
    /\ pc = "idle"
    /\ ~is_feed_closed
    /\ StartInTime => start_learned \/ StartPoint = <<0, 0>>

ProposeOld(k, p) ==
    /\ FeedOpen
    /\ TooOld(k)
    /\ is_receive_complete' = (is_receive_complete \/ ReachesFinal(next_point))
    /\ UNCHANGED <<fragment_tree, next_point, first_point, final_point,
                   nb_object_received, is_cache_real_time, is_feed_closed,
                   start_learned, pc, job, at, received>>

\* The walk starts at the last fragment up to the end of object k.
Propose(k, p) ==
    /\ FeedOpen
    /\ ~TooOld(k)
    /\ job' = [key |-> k, offset |-> p.offset, data_length |-> p.data_length,
               nb |-> IF p.offset = 0 THEN NbPrevious(k) ELSE 0, added |-> FALSE,
               cursor |-> LastOf({f \in fragment_tree : ~Before(k, f.key)})]
    /\ pc' = "walk"
    /\ UNCHANGED <<fragment_tree, next_point, first_point, final_point,
                   nb_object_received, feed_vars, at, received>>

\* The walk goes on, or the call ends with the count.
AfterTurn(left) == IF left > 0 THEN "walk" ELSE "count"

\* quicrq_fragment_add_to_cache: the first data_length bytes left of the job;
\* then the progress loop starts at the new fragment.
AddToCache(data_length) ==
    LET f == FragmentOf(job.key, job.offset, data_length, job.nb)
    IN /\ fragment_tree' = fragment_tree \cup {f}
       /\ at' = {f}
       /\ pc' = "progress"

\* The cursor is at a fragment that ends before the job, or of another
\* object: store all that is left.
WalkApart ==
    /\ pc = "walk"
    /\ \A c \in job.cursor : c.key # job.key \/ End(c) < job.offset
    /\ AddToCache(job.data_length)
    /\ job' = [job EXCEPT !.data_length = 0, !.added = TRUE]
    /\ UNCHANGED <<next_point, first_point, final_point, nb_object_received,
                   feed_vars, received>>

\* The cursor is at a fragment that reaches the job: store the part after it,
\* drop the part that it holds, go on with the part before it.
WalkOverlap ==
    /\ pc = "walk"
    /\ \E c \in job.cursor :
        LET beyond == End(job) - End(c)
            left == IF beyond > 0 THEN job.data_length - beyond ELSE job.data_length
            rest == IF job.offset >= c.offset THEN 0
                    ELSE IF c.offset < job.offset + left THEN c.offset - job.offset
                    ELSE left
        IN /\ c.key = job.key /\ End(c) >= job.offset
           /\ IF beyond > 0 THEN AddToCache(beyond)
              ELSE pc' = AfterTurn(rest) /\ UNCHANGED <<fragment_tree, at>>
           /\ job' = [job EXCEPT
                        !.data_length = rest,
                        !.added = @ \/ beyond > 0,
                        !.nb = IF beyond > 0 THEN 0 ELSE @,
                        !.cursor = IF job.offset >= c.offset THEN @
                                   ELSE LastOf({f \in fragment_tree' : FragmentLess(f, c)})]
    /\ UNCHANGED <<next_point, first_point, final_point, nb_object_received,
                   feed_vars, received>>

----------------------------------------------------------------------------
(* quicrq_fragment_cache_progress.                                         *)

\* Mutant of EntersNextGroup: the size of the current group is not compared.
EntersNextGroupEarly(f) ==
    /\ f.key = <<next_point[1] + 1, 0>> /\ f.offset = 0
    /\ next_point[2] > 0 /\ next_point[3] = 0

\* f opens the next group, and the current group is complete.
EntersNextGroup(f) ==
    /\ f.key = <<next_point[1] + 1, 0>> /\ f.offset = 0
    /\ next_point[2] > 0 /\ next_point[3] = 0
    /\ next_point[2] = f.nb_objects_previous_group

Expected(f) == (f.key = NextKey /\ f.offset = next_point[3]) \/ EntersNextGroup(f)

\* The point just after f.
PointAfter(f) ==
    IF End(f) >= f.object_length THEN <<f.key[1], f.key[2] + 1, 0>>
    ELSE <<f.key[1], f.key[2], End(f)>>

\* Mutant of ProgressStep: the fragments behind the new one are not visited.
ProgressOnce ==
    /\ pc = "progress"
    /\ \E f \in at : Expected(f) /\ next_point' = PointAfter(f)
    /\ at' = {}
    /\ UNCHANGED <<fragment_tree, first_point, final_point, nb_object_received,
                   feed_vars, pc, job, received>>

\* The fragment is expected: move past it, look at the one after it.
ProgressStep ==
    /\ pc = "progress"
    /\ \E f \in at :
        /\ Expected(f)
        /\ next_point' = PointAfter(f)
        /\ at' = FirstOf({e \in fragment_tree : FragmentLess(f, e)})
    /\ UNCHANGED <<fragment_tree, first_point, final_point, nb_object_received,
                   feed_vars, pc, job, received>>

ProgressEnd ==
    /\ pc = "progress"
    /\ ~\E f \in at : Expected(f)
    /\ at' = {}
    /\ pc' = AfterTurn(job.data_length)
    /\ UNCHANGED <<fragment_tree, next_point, first_point, final_point,
                   nb_object_received, feed_vars, job, received>>

----------------------------------------------------------------------------
(* The end of quicrq_fragment_propose_to_cache and of the callback.        *)

OfObject(k) == {f \in fragment_tree : f.key = k}

\* Mutant of JustCompleted: only the end of the object is looked at.
EndReached(k) == \E last \in LastOf(OfObject(k)) : End(last) >= last.object_length

\* Walking back from the last fragment of object k, each one reaches the one
\* after it, down to offset 0.
JustCompleted(k) ==
    /\ \E last \in LastOf(OfObject(k)) : End(last) >= last.object_length
    /\ \A f \in OfObject(k) :
        \/ f.offset = 0
        \/ \E e \in LastOf({e \in OfObject(k) : FragmentLess(e, f)}) : End(e) >= f.offset

\* All the bytes of object k are in the cache.
Whole(k) ==
    /\ OfObject(k) # {}
    /\ \A b \in 0..(ObjectLength[k] - 1) :
        \E f \in OfObject(k) : b \in Bytes(f.offset, f.data_length)

Count ==
    /\ pc = "count"
    /\ nb_object_received' =
         nb_object_received + IF job.added /\ JustCompleted(job.key) THEN 1 ELSE 0
    /\ received' = IF Whole(job.key) THEN received \cup {job.key} ELSE received
    /\ is_receive_complete' = (is_receive_complete \/ ReachesFinal(next_point))
    /\ pc' = "idle" /\ job' = NoJob
    /\ UNCHANGED <<fragment_tree, next_point, first_point, final_point,
                   is_cache_real_time, is_feed_closed, start_learned, at>>

----------------------------------------------------------------------------
(* The other events of the feed.                                           *)

\* quicrq_fragment_cache_learn_start_point: the next point is moved, the
\* fragments in the cache are not looked at.
LearnStartPoint ==
    /\ pc = "idle" /\ ~is_feed_closed
    /\ StartPoint # <<0, 0>> /\ ~start_learned
    /\ start_learned' = TRUE
    /\ first_point' = StartPoint
    /\ next_point' = IF Before(NextKey, StartPoint)
                     THEN <<StartPoint[1], StartPoint[2], next_point[3]>> ELSE next_point
    /\ fragment_tree' = {f \in fragment_tree : ~Before(f.key, StartPoint)}
    /\ UNCHANGED <<final_point, nb_object_received, is_cache_real_time,
                   is_receive_complete, is_feed_closed, pc, job, at, received>>

\* quicrq_fragment_cache_learn_end_point.
LearnEndPoint ==
    /\ pc = "idle" /\ ~is_feed_closed
    /\ final_point' = FinalPoint
    /\ is_receive_complete' = (is_receive_complete \/ NextKey = FinalPoint)
    /\ UNCHANGED <<fragment_tree, next_point, first_point, nb_object_received,
                   is_cache_real_time, is_feed_closed, start_learned, pc, job, at,
                   received>>

\* quicrq_fragment_cache_set_real_time_cache.
SetRealTimeCache ==
    /\ pc = "idle" /\ ~is_feed_closed
    /\ ~is_cache_real_time /\ is_cache_real_time' = TRUE
    /\ UNCHANGED <<fragment_tree, next_point, first_point, final_point,
                   nb_object_received, is_receive_complete, is_feed_closed,
                   start_learned, pc, job, at, received>>

\* Mutant of ClosePoint: the partial object is taken for a complete one.
ClosePointHigh == <<next_point[1], next_point[2] + 1>>

\* The final point that the relay derives when the feed closes without one.
ClosePoint ==
    LET key == FragmentOf(<<next_point[1], 0>>, 0, 0, 0)
        previous == LastOf({f \in fragment_tree : ~FragmentLess(key, f)})
    IN IF next_point[3] = 0 THEN NextKey
       ELSE IF next_point[2] > 1 THEN <<next_point[1], next_point[2] - 1>>
       ELSE IF previous # {} THEN (CHOOSE f \in previous : TRUE).key
       ELSE first_point

\* The media is closed upstream, whatever was received.
CloseFeed ==
    /\ pc = "idle" /\ ~is_feed_closed
    /\ is_feed_closed' = TRUE
    /\ final_point' = IF final_point = <<0, 0>> THEN ClosePoint ELSE final_point
    /\ UNCHANGED <<fragment_tree, next_point, first_point, nb_object_received,
                   is_cache_real_time, is_receive_complete, start_learned, pc, job,
                   at, received>>

----------------------------------------------------------------------------
(* quicrq_manage_relay_cache.                                              *)

\* quicrq_fragment_cache_media_purge_to_gob, kept_group_id being the group of
\* the next point or the oldest group that a reader still sends.
PurgeToGob(kept_group_id) ==
    LET kept == {f \in fragment_tree : f.key[1] >= kept_group_id}
    IN /\ pc = "idle"
       /\ is_cache_real_time
       /\ fragment_tree' = kept
       /\ first_point' = IF kept = {} THEN first_point
                         ELSE (CHOOSE f \in FirstOf(kept) : TRUE).key
       /\ UNCHANGED <<next_point, final_point, nb_object_received, feed_vars, pc,
                      job, at, received>>

\* The feed is closed and there is no reader: the source is deleted.
DeleteCache ==
    /\ pc = "idle" /\ is_feed_closed
    /\ pc' = "deleted"
    /\ fragment_tree' = {}
    /\ UNCHANGED <<next_point, first_point, final_point, nb_object_received,
                   feed_vars, job, at, received>>

----------------------------------------------------------------------------
Receive == \E k \in Sent : \E p \in Pieces[k] : ProposeOld(k, p) \/ Propose(k, p)

FeedNext ==
    \/ Receive \/ WalkApart \/ WalkOverlap
    \/ ProgressStep \/ ProgressEnd \/ Count
    \/ LearnStartPoint \/ LearnEndPoint \/ SetRealTimeCache \/ CloseFeed

Purge == \E g \in 0..next_point[1] : PurgeToGob(g)

CacheNext == FeedNext \/ Purge \/ DeleteCache

CacheSpec == CacheInit /\ [][CacheNext]_cache_vars

\* The transport brings every fragment and message in the end, however many
\* others it brings in between (the fairness is strong because a call for
\* another fragment disables these steps while it runs), and calls return.
CacheFairness ==
    /\ \A k \in Sent : \A p \in Pieces[k] : SF_cache_vars(Propose(k, p))
    /\ WF_cache_vars(WalkApart \/ WalkOverlap)
    /\ WF_cache_vars(ProgressStep \/ ProgressEnd \/ Count)
    /\ SF_cache_vars(LearnStartPoint) /\ SF_cache_vars(LearnEndPoint)

FairCacheSpec == CacheSpec /\ CacheFairness

----------------------------------------------------------------------------
(* Properties.                                                             *)

Held(k) == ~Before(k, first_point) /\ Whole(k)

\* Everything between the first and the next point is in the cache, byte by
\* byte, also in the middle of an object and across groups: the next point,
\* which the relay trusts to close its upstream stream, never runs ahead.
NextIsPrefix ==
    \A k \in Sent : ~Before(k, first_point) =>
        /\ Before(k, NextKey) => pc = "deleted" \/ Whole(k)
        /\ k = NextKey /\ pc # "deleted" =>
             \A b \in 0..(next_point[3] - 1) :
                \E f \in OfObject(k) : b \in Bytes(f.offset, f.data_length)

\* When a call returns, the next point is as far as the cache allows ("Updated
\* as objects are added sequentially to cache"): the fragment expected there
\* is not waiting in the tree.
NextIsMaximal == pc = "idle" => ~\E f \in fragment_tree : Expected(f)

\* Every object is counted once when it becomes complete, however many
\* fragments and repeats it took.
CountedOnce == pc = "idle" => nb_object_received = Cardinality(received)

\* What the relay declares final is there to be served: when it finds the
\* media complete, and when it derives the final point itself because the
\* feed closed, all the objects before the final point are in the cache.
ServedToTheEnd ==
    is_receive_complete \/ (is_feed_closed /\ final_point # FinalPoint) =>
        \A k \in Sent :
            ~Before(k, first_point) /\ Before(k, final_point) =>
                pc = "deleted" \/ Whole(k)

\* The first point passes only objects that were received ("modifies if start
\* point learned or after objects removed from cache").
OnlyReceivedIsOld == \A k \in Sent : Before(k, first_point) => k \in received

\* The relay finds the media complete in the end, unless the feed closes or
\* the purge has cut off objects that had not come yet.
EventuallyReceived ==
    <>(is_receive_complete \/ is_feed_closed \/ ~OnlyReceivedIsOld)

----------------------------------------------------------------------------
(* The inductive invariants behind these properties.  CacheInv holds for   *)
(* any cut of the objects, also when fragments overlap; ApartInv when the  *)
(* pieces of an object do not.  Both are for a start point that is in time. *)

Started == StartPoint = <<0, 0>> \/ start_learned

\* The call works on a fragment that was sent and is not too old.
JobOK ==
    /\ job \in [key : Sent, offset : Nat, data_length : Nat, nb : Nat,
                added : BOOLEAN, cursor : SUBSET fragment_tree]
    /\ ~Before(job.key, first_point) /\ End(job) <= ObjectLength[job.key]
    /\ job.nb \in {0, NbPrevious(job.key)}

CallOK ==
    /\ pc \in {"walk", "progress", "count"} => JobOK /\ Started /\ ~is_feed_closed
    /\ pc \in {"idle", "deleted"} => job = NoJob
    /\ pc # "progress" => at = {}
    /\ pc = "deleted" => fragment_tree = {}
    /\ ~Started => fragment_tree = {} /\ next_point = <<0, 0, 0>> /\ received = {}

\* A fragment of the group of the next point is in the cache, unless the next
\* point is before all that is sent: the purge never empties the cache.
GroupHeld ==
    \/ pc = "deleted"
    \/ next_point[3] = 0 /\ \A k \in Sent : ~Before(k, NextKey)
    \/ \E f \in fragment_tree : f.key[1] = next_point[1]

\* The media is complete when the next point has passed the final point, and
\* a final point made up when the feed closed is not ahead of the next point.
FinalOK ==
    /\ ~is_feed_closed => final_point \in {<<0, 0>>, FinalPoint}
    /\ is_receive_complete =>
         final_point = FinalPoint /\ ~Before(NextKey, FinalPoint)
    /\ is_feed_closed /\ final_point # FinalPoint =>
         ~Before(NextKey, final_point) \/ ~Before(first_point, final_point)

CacheInv ==
    /\ CacheTypeOK /\ CallOK /\ GroupHeld /\ NextIsPrefix /\ FinalOK
    /\ \A f \in fragment_tree :
         f.nb_objects_previous_group \in {0, NbPrevious(f.key)}

\* The pieces of an object are cut one after the other.
DisjointPieces ==
    \A k \in Key : \A p, q \in Pieces[k] :
        p # q => \/ p.offset + p.data_length <= q.offset /\ p.data_length > 0
                 \/ q.offset + q.data_length <= p.offset /\ q.data_length > 0

PieceOf(k, p) ==
    FragmentOf(k, p.offset, p.data_length, IF p.offset = 0 THEN NbPrevious(k) ELSE 0)

TreeOfPieces == \A f \in fragment_tree : \E p \in Pieces[f.key] : f = PieceOf(f.key, p)

\* The cursor goes back from the end of the object and passes only fragments
\* that come after the proposed one, which is whole.
WalkOK ==
    pc = "walk" =>
        /\ ~job.added
        /\ \E p \in Pieces[job.key] :
             PieceOf(job.key, p) = FragmentOf(job.key, job.offset, job.data_length, job.nb)
        /\ \A c \in job.cursor :
             ~Before(job.key, c.key) /\ \A d \in job.cursor : ~FragmentLess(c, d)
        /\ \A f \in fragment_tree :
             f.key = job.key /\ (\A c \in job.cursor : FragmentLess(c, f)) =>
                job.offset < f.offset

\* While the progress loop runs, it looks at the fragment that is expected.
MaximalOK ==
    \A f \in fragment_tree : Expected(f) => pc = "deleted" \/ (pc = "progress" /\ f \in at)

\* Of the objects that are not too old, the received ones are the complete
\* ones; the object under way was not complete if a fragment was added.
CountOK ==
    /\ nb_object_received = Cardinality(received)
    /\ \A k \in received : ~Before(k, first_point) /\ pc # "deleted" => Whole(k)
    /\ \A k \in Sent : Whole(k) => k \in received \/ (job.added /\ k = job.key)
    /\ pc \in {"progress", "count"} => job.data_length = 0
    /\ job.added => job.key \notin received
    /\ pc = "progress" => job.added

ApartInv ==
    /\ TreeOfPieces /\ IsFiniteSet(received)
    /\ WalkOK /\ MaximalOK /\ CountOK
=============================================================================
