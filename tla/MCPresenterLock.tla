-------------------------- MODULE MCPresenterLock --------------------------
(* A host and two co-hosts, who may be demoted and promoted again.         *)
EXTENDS PresenterLock, TLC

SameRole == Permutations(CoHosts)
=============================================================================
