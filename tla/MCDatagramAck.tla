--------------------------- MODULE MCDatagramAck ---------------------------
(* Instance of DatagramAck for TLC: a fragment that has to be cut when it is *)
(* repeated, a placeholder or an object of one byte, and a second group.     *)
EXTENDS DatagramAck, TLC

MCNbObjects == 0 :> 2 @@ 1 :> 1
MCObjectLength == <<0, 0>> :> 3 @@ <<0, 1>> :> 0 @@ <<1, 0>> :> 1
\* Without a placeholder.
MCFullLength == <<0, 0>> :> 3 @@ <<0, 1>> :> 1 @@ <<1, 0>> :> 1

\* The first transmission of an object is in one piece.
MCPieces == [k \in Key |-> {[offset |-> 0, data_length |-> ObjectLength[k]]}]
MCStart == <<0, 0>>
MCDelayed == {<<0, 0>>}
MCMaxRepeats == <<0, 0>> :> 2 @@ <<0, 1>> :> 1 @@ <<1, 0>> :> 0
MCPlaceholders == {k \in Key : ObjectLength[k] = 0}
=============================================================================
