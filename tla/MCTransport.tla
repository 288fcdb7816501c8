---------------------------- MODULE MCTransport ----------------------------
(* Instances of Transport for TLC.                                         *)
EXTENDS Transport, TLC

\* Groups of one, two and one objects: a place holder at the start of a
\* group, an object in one piece of two bytes, one in two pieces.
MCNbObjects == 0 :> 1 @@ 1 :> 2 @@ 2 :> 1
Piece(o, n) == [offset |-> o, data_length |-> n]
MCPieces == <<0, 0>> :> {Piece(0, 1)} @@ <<1, 0>> :> {Piece(0, 0)} @@ <<1, 1>> :> {Piece(0, 2)}
            @@ <<2, 0>> :> {Piece(0, 1), Piece(1, 1)}
MCObjectLength == <<0, 0>> :> 1 @@ <<1, 0>> :> 0 @@ <<1, 1>> :> 2 @@ <<2, 0>> :> 2
\* A REQUEST from the beginning, from the middle of a group, from the current
\* or the next group; on warp and rush streams from the beginning.
StartAt(k) == [intent |-> "start_point", point |-> k]
MCIntents ==
    [m \in Modes |->
        IF m \in {"warp", "rush"} THEN {StartAt(<<0, 0>>)}
        ELSE {StartAt(<<0, 0>>), StartAt(<<1, 1>>)}
                \cup [intent : {"current_group", "next_group"}, point : {<<0, 0>>}]]
MCFromZero == [m \in Modes |-> {StartAt(<<0, 0>>)}]
MCFromMiddle == [m \in Modes |-> {StartAt(<<1, 1>>)}]
\* An object past the end of its group.
MCPastGroup == [m \in Modes |-> {StartAt(<<1, 2>>)}]
\* The two cases in which a single stream may get its numbers wrong.
MCMisnumbered == [m \in Modes |-> {StartAt(<<0, 0>>), StartAt(<<1, 2>>)}]
MCStartPoint == <<0, 0>>
=============================================================================
