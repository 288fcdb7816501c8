--------------------------- MODULE ObjectDelivery ---------------------------
(***************************************************************************)
(* What a receiver promises its consumer, whatever the network does to the *)
(* fragments: every object is handed once as soon as it is there ("seen"), *)
(* and once in the order of the media ("ordered"); the delivery finishes   *)
(* when all the objects were handed in order.  The consumer may end it at  *)
(* any time, by its answer to a call too.                                  *)
(***************************************************************************)
CONSTANTS Objects,        \* the objects of the media
          Precedes(_, _)  \* their order

VARIABLES seen, ordered, status

vars == <<seen, ordered, status>>

Init == seen = {} /\ ordered = {} /\ status = "open"

\* Every object before k was handed in order, and k was not.
Turn(k) ==
    /\ k \notin ordered
    /\ \A j \in Objects : Precedes(j, k) => j \in ordered

\* k is handed for the first time, out of order ...
HandAhead(k) ==
    /\ k \notin seen
    /\ seen' = seen \cup {k}
    /\ UNCHANGED ordered

\* ... or for the first time, in its turn ...
HandInTurn(k) ==
    /\ k \notin seen
    /\ Turn(k)
    /\ seen' = seen \cup {k}
    /\ ordered' = ordered \cup {k}

\* ... or in its turn, after it was handed out of order.
HandAgain(k) ==
    /\ k \in seen
    /\ Turn(k)
    /\ ordered' = ordered \cup {k}
    /\ UNCHANGED seen

Hand ==
    /\ status = "open"
    /\ \E k \in Objects : HandAhead(k) \/ HandInTurn(k) \/ HandAgain(k)
    /\ status' \in {"open", "closed"}

Finish ==
    /\ status = "open"
    /\ ordered = Objects
    /\ status' = "finished"
    /\ UNCHANGED <<seen, ordered>>

Close == status' = "closed" /\ UNCHANGED <<seen, ordered>>

Next == Hand \/ Finish \/ Close

Spec == Init /\ [][Next]_vars
=============================================================================
