--------------------------- MODULE AtLeastOnceLog ---------------------------
(***************************************************************************)
(* What a consumer group promises about a log: its cursor moves past a     *)
(* message only when the message has been dealt with, never moves back,    *)
(* and a message that has been dealt with stays so.                        *)
(***************************************************************************)
EXTENDS Naturals

CONSTANT Length    \* number of messages in the log

VARIABLES
  cursor,    \* offset of the first message the group has not acknowledged
  handled    \* offsets of the messages dealt with

Offset == 0 .. Length - 1

Init == cursor = 0 /\ handled = {}

Handle ==
  /\ handled \subseteq handled' /\ handled' \subseteq Offset
  /\ UNCHANGED cursor

Advance ==
  /\ cursor' \in cursor .. Length
  /\ \A o \in Offset : o < cursor' => o \in handled
  /\ UNCHANGED handled

Next == Handle \/ Advance

Spec == Init /\ [][Next]_<<cursor, handled>>
=============================================================================
