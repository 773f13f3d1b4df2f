--------------------------- MODULE RoomPlacement ---------------------------
(***************************************************************************)
(* What the cluster promises about one room: "A room lives on exactly one  *)
(* SFU node for its whole life" (header of classroom/RoomRegistry.js).  A  *)
(* node is chosen once, and everybody who comes in comes in there.         *)
(* RoomRegistry implements this with reads, deletes and conditional writes *)
(* of many API tasks.                                                      *)
(***************************************************************************)
CONSTANTS Callers, Nodes, None

VARIABLES
  room,   \* the node of the room, None until somebody opens it
  here    \* who is in the room, by the node they are on

Init ==
  /\ room = None
  /\ here = [n \in Nodes |-> {}]

Place(n) ==
  /\ room = None
  /\ room' = n
  /\ UNCHANGED here

Enter(c) ==
  /\ room # None
  /\ here' = [here EXCEPT ![room] = @ \cup {c}]
  /\ UNCHANGED room

Exit(c) ==
  /\ room # None
  /\ here' = [here EXCEPT ![room] = @ \ {c}]
  /\ UNCHANGED room

Next ==
  \/ \E n \in Nodes : Place(n)
  \/ \E c \in Callers : Enter(c) \/ Exit(c)

Spec == Init /\ [][Next]_<<room, here>>
=============================================================================
