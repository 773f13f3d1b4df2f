--------------------------- MODULE MCWaitingList ---------------------------
(* Instances of WaitingList for TLC.                                       *)
EXTENDS WaitingList, TLC

CONSTANTS a, b, h

Learners  == {a, b}
WithAHost == {a, b, h}
JustHost  == {h}
Nobody    == {}
=============================================================================
