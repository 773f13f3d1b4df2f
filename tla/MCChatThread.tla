---------------------------- MODULE MCChatThread ----------------------------
(* Instances of ChatThread for TLC.                                        *)
EXTENDS ChatThread, TLC

CONSTANTS d1, d2, m1, m2

OneEach == m1 :> d1 @@ m2 :> d2
BothHis == m1 :> d1 @@ m2 :> d1
JustOne == m1 :> d1
=============================================================================
