-------------------------- MODULE MCSessionRenewal --------------------------
(* Two tabs of one browser; the first may have two renewals under way, its *)
(* restoring and the retry button's.                                       *)
EXTENDS SessionRenewal, TLC

CONSTANTS t1, t2, r1, r2, r3

OneTab  == (r1 :> t1) @@ (r2 :> t1)
TwoTabs == (r1 :> t1) @@ (r2 :> t2)
Three   == (r1 :> t1) @@ (r2 :> t1) @@ (r3 :> t2)
=============================================================================
