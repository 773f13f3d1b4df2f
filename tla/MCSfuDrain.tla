---------------------------- MODULE MCSfuDrain -----------------------------
(* One node, one room, up to two people in it.                             *)
EXTENDS SfuDrain
=============================================================================
