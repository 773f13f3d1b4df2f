-------------------------- MODULE MCRoomRegistry ---------------------------
(* Two people opening one room in a cluster of two nodes.                  *)
EXTENDS RoomRegistry, TLC

CONSTANTS ann, ben, n1, n2

MCCallers == Permutations({ann, ben})
MCAvoids == {{}, {n1}}
=============================================================================
