-------------------------- MODULE MCObjectConsumer --------------------------
(* Instances of ObjectConsumer for TLC: three groups of two objects.       *)
EXTENDS ObjectConsumer

MCNbObjects == [g \in Group |-> 2]

\* Joined at the second object; one object comes in up to three fragments; a
\* placeholder may be repeated under the length of the object it stands for.
MCObjectLength == [k \in Key |-> CASE k = <<1, 0>> -> 3 [] k = <<1, 1>> -> 0 [] OTHER -> 1]
MCOtherLengths == [k \in Key |-> IF k = <<1, 1>> THEN {1} ELSE {}]
LateStart == <<0, 1>>

\* Joined at the first object, without placeholder.
FullObjectLength == [k \in Key |-> 1]
NoOtherLengths == [k \in Key |-> {}]
FirstObject == <<0, 0>>
=============================================================================
