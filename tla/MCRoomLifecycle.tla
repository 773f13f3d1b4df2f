-------------------------- MODULE MCRoomLifecycle --------------------------
(* Small instances of RoomLifecycle.                                       *)
EXTENDS RoomLifecycle, TLC

CONSTANTS s1, s2, ann, ben

(* A reload: both connections belong to ann.                               *)
SameUser == (s1 :> ann) @@ (s2 :> ann)
(* Two people.                                                             *)
TwoUsers == (s1 :> ann) @@ (s2 :> ben)
=============================================================================
