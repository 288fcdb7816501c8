-------------------------- MODULE MCFragmentCache --------------------------
(* Instances of FragmentCache for TLC: groups of two, one and two objects,  *)
(* some of them in two fragments, one without bytes.                        *)
EXTENDS FragmentCache, TLC

MCNbObjects == 0 :> 2 @@ 1 :> 1 @@ 2 :> 2
MCObjectLength ==
    <<0, 0>> :> 1 @@ <<0, 1>> :> 2 @@ <<1, 0>> :> 0 @@ <<2, 0>> :> 2 @@ <<2, 1>> :> 1

\* One fragment per byte.
Cut(k) ==
    IF ObjectLength[k] = 0 THEN {[offset |-> 0, data_length |-> 0]}
    ELSE {[offset |-> b, data_length |-> 1] : b \in 0..(ObjectLength[k] - 1)}
MCPieces == [k \in Key |-> Cut(k)]
MCStart == <<0, 1>>
=============================================================================
