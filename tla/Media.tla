------------------------------- MODULE Media -------------------------------
(***************************************************************************)
(* The media that the other modules transport: a sequence of groups, each  *)
(* a sequence of objects.  The key of an object is <<group_id, object_id>>.*)
(* The first object of a group carries the number of objects of the        *)
(* previous one.  A receiver may join at any object (the start point); the *)
(* final point is announced at the end.                                    *)
(***************************************************************************)
EXTENDS Integers

CONSTANTS LastGroup,     \* the groups of the media are 0..LastGroup
          NbObjects,     \* number of objects of each group
          ObjectLength,  \* length of each object, 0 for a placeholder
          StartPoint     \* key of the first object that the sender sends

Group == 0..LastGroup

\* The keys of the objects of the media.
Key == UNION {{g} \X (0..(NbObjects[g] - 1)) : g \in Group}

ASSUME MediaAssumption ==
    /\ LastGroup \in Nat
    /\ NbObjects \in [Group -> Nat \ {0}]
    /\ ObjectLength \in [Key -> Nat]
    /\ StartPoint \in Key

\* Lexicographic order of keys.
Before(a, b) == a[1] < b[1] \/ (a[1] = b[1] /\ a[2] < b[2])

\* The objects that the sender sends.
Sent == {k \in Key : ~Before(k, StartPoint)}

\* The final point announced at the end of the media.
FinalPoint == <<LastGroup, NbObjects[LastGroup]>>

\* The count that the first object of a group carries of the previous group.
NbPrevious(k) ==
    IF k[2] = 0 /\ k[1] > 0 THEN NbObjects[k[1] - 1] ELSE 0

\* The bytes offset .. offset + data_length - 1.
Bytes(offset, data_length) == offset..(offset + data_length - 1)
=============================================================================
