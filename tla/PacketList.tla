----------------------------- MODULE PacketList -----------------------------
(***************************************************************************)
(* The list of packets of one object under reassembly                      *)
(* (quicrq_reassembly_object_add_packet and _reassemble).  A fragment may  *)
(* overlap any number of packets; only the bytes that fill holes become    *)
(* new packets.  The payload is abstracted to the position, in the object, *)
(* of the first byte that is copied (the field data): a packet is right    *)
(* when data = offset.                                                     *)
(*                                                                         *)
(* The two loops take one step per turn; no fragment is taken in until the *)
(* call returns (pc = "idle").  Module Reassembly, where a call is one     *)
(* step, keeps of this list the set of bytes it holds.                     *)
(***************************************************************************)
EXTENDS Integers, FiniteSets, SequencesExt

CONSTANTS MaxLength,   \* bound: length of the object
          MaxPackets   \* bound: packets in the list when an empty one comes

ASSUME ObjectAssumption == MaxLength \in Nat /\ MaxPackets \in Nat

VARIABLES object_length,
          packets,           \* first_packet, ..., last_packet
          data_received,
          is_last_received,
          reassembled,       \* the buffer is allocated
          buffer,            \* the position that each byte was copied from
          pc,                \* what the current call is doing
          at,                \* index of the packet that a loop looks at
          incoming,          \* what is left of the incoming data
          running_offset,    \* of the loop that fills the buffer
          ret,               \* -1 once a check of _reassemble failed
          given              \* history: the bytes of the fragments so far

list_vars == <<packets, data_received>>
buffer_vars == <<object_length, reassembled, buffer, running_offset, ret>>
packet_vars == <<list_vars, is_last_received, buffer_vars, pc, at, incoming, given>>

\* Any piece of the object, and the empty one of a repeated placeholder.
Piece ==
    {p \in [offset : 0..object_length, data_length : 0..object_length] :
        /\ p.offset + p.data_length <= object_length
        /\ p.data_length = 0 => p.offset = 0}

ObjectBytes == 0..(object_length - 1)

End(p) == p.offset + p.data_length

BytesOf(p) == p.offset..(End(p) - 1)

\* Data that starts at byte data of the object, said to be for offset.
Packet(offset, data_length, data) ==
    [offset |-> offset, data_length |-> data_length, data |-> data]

\* quicrq_reassembly_object_create, by the first fragment.
Init ==
    /\ object_length \in 0..MaxLength
    /\ packets = <<>> /\ data_received = 0
    /\ is_last_received = FALSE
    /\ reassembled = FALSE /\ buffer = [b \in ObjectBytes |-> -1]
    /\ pc = "idle" /\ at = 1 /\ incoming = Packet(0, 0, 0)
    /\ running_offset = 0 /\ ret = 0
    /\ given = {}

----------------------------------------------------------------------------
(* quicrq_reassembly_object_add_packet.                                    *)

\* A fragment of the object comes in.
Input(f) ==
    /\ pc = "idle" /\ ret = 0
    /\ f.data_length = 0 => Len(packets) < MaxPackets
    /\ is_last_received' = (is_last_received \/ End(f) >= object_length)
    /\ incoming' = Packet(f.offset, f.data_length, f.offset)
    /\ given' = given \cup BytesOf(f)
    /\ pc' = "scan" /\ at' = 1
    /\ UNCHANGED <<list_vars, buffer_vars>>

\* quicrq_reassembly_object_create_packet: the first n bytes of the incoming
\* data become a packet just before the one that the loop looks at.
CreatePacket(n) ==
    /\ packets' = InsertAt(packets, at, Packet(incoming.offset, n, incoming.data))
    /\ data_received' = data_received + n

\* Move past the first n bytes of the incoming data.
Consume(n) ==
    Packet(incoming.offset + n, incoming.data_length - n, incoming.data + n)

\* The loop looks at packet p.
LooksAt(p) == pc = "scan" /\ at \in DOMAIN packets /\ p = packets[at]

\* What is left goes before packet p, without overlap; the loop is left.
InsertBefore(p) ==
    /\ LooksAt(p)
    /\ p.offset >= incoming.offset /\ End(incoming) <= p.offset
    /\ CreatePacket(incoming.data_length)
    /\ incoming' = [incoming EXCEPT !.data_length = 0]
    /\ pc' = "added"
    /\ UNCHANGED <<is_last_received, buffer_vars, at, given>>

\* Mutant of FillHole: the overlap with packet p is stored again.
FillHoleTwice(p) ==
    /\ LooksAt(p)
    /\ incoming.offset < p.offset /\ p.offset < End(incoming)
    /\ CreatePacket(incoming.data_length)
    /\ incoming' = [incoming EXCEPT !.data_length = 0]
    /\ pc' = "added"
    /\ UNCHANGED <<is_last_received, buffer_vars, at, given>>

\* The part before packet p is stored; the turn goes on with the rest.
FillHole(p) ==
    /\ LooksAt(p)
    /\ incoming.offset < p.offset /\ p.offset < End(incoming)
    /\ CreatePacket(p.offset - incoming.offset)
    /\ incoming' = Consume(p.offset - incoming.offset)
    /\ at' = at + 1
    /\ UNCHANGED <<is_last_received, buffer_vars, pc, given>>

\* The incoming data is at or after packet p.
AtOrAfter(p) ==
    /\ LooksAt(p)
    /\ p.offset <= incoming.offset
    /\ ~(p.offset >= incoming.offset /\ End(incoming) <= p.offset)

\* Packet p holds all that is left; the loop is left.
Redundant(p) ==
    /\ AtOrAfter(p)
    /\ End(p) > incoming.offset /\ End(p) >= End(incoming)
    /\ incoming' = [incoming EXCEPT !.data_length = 0]
    /\ pc' = "added"
    /\ UNCHANGED <<list_vars, is_last_received, buffer_vars, at, given>>

\* Mutant of SkipPacket: the data pointer stays behind.
SkipPacketStale(p) ==
    /\ AtOrAfter(p)
    /\ End(p) <= incoming.offset \/ End(p) < End(incoming)
    /\ incoming' = IF End(p) <= incoming.offset THEN incoming
                   ELSE [Consume(End(p) - incoming.offset) EXCEPT !.data = incoming.data]
    /\ at' = at + 1
    /\ UNCHANGED <<list_vars, is_last_received, buffer_vars, pc, given>>

\* Drop the bytes that packet p holds, and look at the one after it.
SkipPacket(p) ==
    /\ AtOrAfter(p)
    /\ End(p) <= incoming.offset \/ End(p) < End(incoming)
    /\ incoming' = IF End(p) <= incoming.offset THEN incoming
                   ELSE Consume(End(p) - incoming.offset)
    /\ at' = at + 1
    /\ UNCHANGED <<list_vars, is_last_received, buffer_vars, pc, given>>

\* All packets were looked at: what is left goes to the end of the list.
AppendRest ==
    /\ pc = "scan" /\ at = Len(packets) + 1
    /\ IF incoming.data_length > 0 THEN CreatePacket(incoming.data_length)
       ELSE UNCHANGED list_vars
    /\ incoming' = [incoming EXCEPT !.data_length = 0]
    /\ pc' = "added"
    /\ UNCHANGED <<is_last_received, buffer_vars, at, given>>

----------------------------------------------------------------------------
(* quicrq_reassembly_object_reassemble.                                    *)

\* The object is complete, by the count of its bytes.
Complete == is_last_received /\ data_received >= object_length

\* Nothing to reassemble, or it was done before: the call returns.
Return ==
    /\ pc = "added"
    /\ ~Complete \/ reassembled
    /\ pc' = "idle"
    /\ UNCHANGED <<list_vars, is_last_received, buffer_vars, at, incoming, given>>

\* The special case for zero length objects.
ReassembleEmpty ==
    /\ pc = "added" /\ Complete /\ ~reassembled
    /\ object_length = 0 /\ data_received = 0
    /\ reassembled' = TRUE
    /\ pc' = "idle"
    /\ UNCHANGED <<list_vars, object_length, is_last_received, buffer, running_offset,
                   ret, at, incoming, given>>

\* The checks of the count and of the two ends of the list.
ListIsWhole ==
    /\ data_received = object_length
    /\ packets # <<>> /\ packets[1].offset = 0
    /\ End(packets[Len(packets)]) = object_length

\* The checks before the buffer is allocated.
Reassemble ==
    /\ pc = "added" /\ Complete /\ ~reassembled
    /\ ~(object_length = 0 /\ data_received = 0)
    /\ IF object_length # 0 /\ ListIsWhole
       THEN reassembled' = TRUE /\ pc' = "copy" /\ at' = 1 /\ ret' = ret
       ELSE ret' = -1 /\ pc' = "idle" /\ UNCHANGED <<reassembled, at>>
    /\ running_offset' = 0
    /\ UNCHANGED <<list_vars, object_length, is_last_received, buffer, incoming, given>>

\* The checks in the loop, then the copy.
CopyPacket(p) ==
    /\ pc = "copy" /\ at \in DOMAIN packets /\ p = packets[at]
    /\ IF p.offset = running_offset /\ End(p) <= object_length
       THEN /\ buffer' = [b \in ObjectBytes |->
                            IF b \in BytesOf(p) THEN p.data + (b - running_offset)
                            ELSE buffer[b]]
            /\ running_offset' = running_offset + p.data_length
            /\ at' = at + 1 /\ UNCHANGED <<pc, ret>>
       ELSE ret' = -1 /\ pc' = "idle" /\ UNCHANGED <<buffer, running_offset, at>>
    /\ UNCHANGED <<list_vars, object_length, is_last_received, reassembled, incoming,
                   given>>

\* The final check.
EndCopy ==
    /\ pc = "copy" /\ at = Len(packets) + 1
    /\ ret' = IF running_offset = object_length THEN ret ELSE -1
    /\ pc' = "idle"
    /\ UNCHANGED <<list_vars, object_length, is_last_received, reassembled, buffer,
                   running_offset, at, incoming, given>>

ScanTurn(p) == InsertBefore(p) \/ FillHole(p) \/ Redundant(p) \/ SkipPacket(p)

Next ==
    \/ \E f \in Piece : Input(f)
    \/ \E i \in DOMAIN packets : ScanTurn(packets[i]) \/ CopyPacket(packets[i])
    \/ AppendRest \/ Return \/ ReassembleEmpty \/ Reassemble \/ EndCopy

Spec == Init /\ [][Next]_packet_vars

----------------------------------------------------------------------------
(* Properties.                                                             *)

\* The bytes that the list holds.
Held == UNION {BytesOf(packets[i]) : i \in DOMAIN packets}

\* Between two calls the list holds exactly the bytes of the fragments that
\* came, each counted once in data_received, however the fragments overlap
\* each other and the holes: the list computes the set that Reassembly keeps.
AddsItsBytes ==
    pc = "idle" => Held = given /\ data_received = Cardinality(given)

\* The checks of quicrq_reassembly_object_reassemble, marked "never supposed
\* to fire", do not fire; and between two calls an object whose bytes all came
\* is reassembled, with each byte at its place.
ReassembledWhole ==
    /\ ret = 0
    /\ pc = "idle" /\ given = ObjectBytes /\ (object_length = 0 => is_last_received) =>
         reassembled /\ \A b \in ObjectBytes : buffer[b] = b

----------------------------------------------------------------------------
(* The inductive invariant behind these properties.                        *)

PacketTypeOK ==
    /\ object_length \in Nat
    /\ packets \in Seq([offset : Nat, data_length : Nat, data : Nat])
    /\ data_received \in Nat
    /\ is_last_received \in BOOLEAN /\ reassembled \in BOOLEAN
    /\ buffer \in [ObjectBytes -> Int]
    /\ pc \in {"idle", "scan", "added", "copy"}
    /\ at \in Nat \ {0} /\ running_offset \in Nat
    /\ incoming \in [offset : Nat, data_length : Nat, data : Nat]
    /\ given \subseteq ObjectBytes

\* Packets hold the data of their place, in the order of the object, and do
\* not overlap.
ListOK ==
    /\ \A i \in DOMAIN packets :
        packets[i].data = packets[i].offset /\ End(packets[i]) <= object_length
    /\ \A i, j \in DOMAIN packets : i < j => End(packets[i]) <= packets[j].offset

CountOK == data_received = Cardinality(Held)

\* In the loop: the packets passed end before the rest of the data, and what
\* the list lacks of the fragments that came is in that rest.
ScanOK ==
    /\ pc = "scan" =>
        /\ at <= Len(packets) + 1
        /\ incoming.data = incoming.offset /\ End(incoming) <= object_length
        /\ \A i \in DOMAIN packets : i < at => End(packets[i]) <= incoming.offset
        /\ given = Held \cup BytesOf(incoming)
    /\ pc # "scan" => given = Held

\* The last byte does not come unnoticed.
LastOK == object_length - 1 \in given => is_last_received

\* The buffer is filled up to the running offset, which is the end of the
\* packets copied.
CopyOK ==
    pc = "copy" =>
        /\ reassembled /\ given = ObjectBytes
        /\ object_length > 0 /\ at <= Len(packets) + 1
        /\ running_offset = IF at = 1 THEN 0 ELSE End(packets[at - 1])
        /\ \A b \in ObjectBytes : b < running_offset => buffer[b] = b

ReassembledOK ==
    /\ ret = 0
    /\ reassembled /\ pc # "copy" => \A b \in ObjectBytes : buffer[b] = b
    /\ reassembled => given = ObjectBytes
    /\ pc = "idle" /\ Complete => reassembled

PacketInv ==
    /\ PacketTypeOK /\ ListOK /\ CountOK
    /\ ScanOK /\ LastOK /\ CopyOK /\ ReassembledOK
=============================================================================
