------------------------ MODULE PresenterLockProofs ------------------------
(***************************************************************************)
(* The properties of the presenter lock for any set of peers and roles.    *)
(***************************************************************************)
EXTENDS PresenterLock, TLAPS

(* What keeps the lock with somebody who has a session, for any client.    *)
LockInv == TypeOK /\ HolderHasSession

(* Every handler, timeout and removal keeps LockInv.                       *)
LEMMA LockStep == LockInv /\ [Next]_vars => LockInv'
<1> SUFFICES ASSUME LockInv, [Next]_vars PROVE LockInv'
  OBVIOUS
<1> USE RolesNest, NobodyIsNew DEF LockInv, TypeOK, HolderHasSession, Sources,
       Moderators, Sharers, roomVars, lockVars, SetLock, NoSlots, ActiveHolder, Stale
<1>1. ASSUME NEW p \in Peers, AcquireRefused(p) PROVE LockInv'
  BY <1>1 DEF AcquireRefused, vars
<1>2. ASSUME NEW p \in Peers, Acquire(p) PROVE LockInv'
  BY <1>2 DEF Acquire
<1>3. ASSUME NEW p \in Peers, TakeOver(p) PROVE LockInv'
  BY <1>3 DEF TakeOver
<1>4. ASSUME NEW p \in Peers, Stop(p) PROVE LockInv'
  BY <1>4 DEF Stop, Release
<1>5. ASSUME NEW p \in Peers, StopAudio(p) PROVE LockInv'
  BY <1>5 DEF StopAudio
<1>6. ASSUME NEW p \in Peers, MediaLost(p) PROVE LockInv'
  BY <1>6 DEF MediaLost
<1>7. ASSUME NEW p \in Peers, Join(p) PROVE LockInv'
  BY <1>7 DEF Join
<1>8. ASSUME NEW p \in Peers, Teardown(p) PROVE LockInv'
  BY <1>8 DEF Teardown
<1>9. ASSUME NEW p \in Peers, NEW src \in Sources, Produce(p, src) PROVE LockInv'
  <2>1. CASE ActiveHolder = p /\ p \in members
    BY <1>9, <2>1 DEF Produce
  <2>2. CASE ~(ActiveHolder = p /\ p \in members) /\ Stale
    <3>1. SetLock(Nobody) /\ UNCHANGED <<roomVars, open, pending, loose>>
      BY <1>9, <2>2 DEF Produce
    <3> QED
      BY <2>2, <3>1
  <2>3. CASE ~(ActiveHolder = p /\ p \in members) /\ ~Stale
    <3>1. UNCHANGED <<roomVars, lockVars, open, pending, loose>>
      BY <1>9, <2>3 DEF Produce
    <3> QED
      BY <3>1
  <2> QED
    BY <2>1, <2>2, <2>3
<1>10. ASSUME NEW p \in Peers, NEW src \in Sources, Produced(p, src) PROVE LockInv'
  <2>1. pending' \subseteq Peers \X Sources /\ UNCHANGED roomVars
    BY <1>10 DEF Produced
  <2>2. CASE src = "screen" /\ holder = p
    <3>1. /\ open' = [open EXCEPT !["screen"] = @ \cup {p}]
          /\ attached' = TRUE /\ loose' = loose \ {p} /\ UNCHANGED <<holder, expired>>
      BY <1>10, <2>2 DEF Produced, Attach
    <3> QED
      BY <2>1, <2>2, <3>1
  <2>3. CASE src = "screen" /\ holder # p
    <3>1. open' = [open EXCEPT !["screen"] = @ \ {p}] /\ UNCHANGED <<lockVars, loose>>
      BY <1>10, <2>3 DEF Produced, Attach
    <3> QED
      BY <2>1, <2>3, <3>1
  <2>4. CASE src = "screenAudio"
    <3>1. open' = [open EXCEPT !["screenAudio"] = @ \cup {p}] /\ UNCHANGED <<lockVars, loose>>
      BY <1>10, <2>4 DEF Produced
    <3> QED
      BY <2>1, <3>1
  <2> QED
    BY <2>2, <2>3, <2>4
<1>11. ASSUME NEW p \in Peers, NEW src \in Sources, ProduceFailed(p, src) PROVE LockInv'
  BY <1>11 DEF ProduceFailed
<1>12. ASSUME NEW actor \in Peers, NEW p \in Peers, StopByHost(actor, p) PROVE LockInv'
  BY <1>12 DEF StopByHost, Release
<1>13. ASSUME NEW actor \in Peers, NEW p \in Peers, Remove(actor, p) PROVE LockInv'
  BY <1>13 DEF Remove
<1>17. ASSUME NEW actor \in Peers, NEW p \in Peers, Promote(actor, p) PROVE LockInv'
  BY <1>17 DEF Promote
<1>18. ASSUME NEW actor \in Peers, NEW p \in Peers, Demote(actor, p) PROVE LockInv'
  BY <1>18 DEF Demote
<1>14. CASE LockAges
  BY <1>14 DEF LockAges
<1>15. CASE EndRoom
  BY <1>15 DEF EndRoom
<1>16. CASE UNCHANGED vars
  BY <1>16 DEF vars
<1> QED
  BY <1>1, <1>2, <1>3, <1>4, <1>5, <1>6, <1>7, <1>8,
     <1>9, <1>10, <1>11, <1>12, <1>13, <1>14, <1>15, <1>16,
     <1>17, <1>18 DEF Next

(* Every step also keeps a live share tied to its owner's confirmed lock,  *)
(* unless that lock is let go under it.                                    *)
LEMMA ShareStep == IInv /\ [Next]_vars => IInv'
<1> SUFFICES ASSUME IInv, [Next]_vars PROVE IInv'
  OBVIOUS
<1> USE RolesNest, NobodyIsNew DEF IInv, ShareHoldsLock, OldRoomsAreEmpty, TypeOK, HolderHasSession, Sources,
       Moderators, Sharers, roomVars, lockVars, SetLock, NoSlots, ActiveHolder, Stale
<1>1. ASSUME NEW p \in Peers, AcquireRefused(p) PROVE IInv'
  BY <1>1 DEF AcquireRefused, vars
<1>2. ASSUME NEW p \in Peers, Acquire(p) PROVE IInv'
  <2>1. TypeOK' /\ HolderHasSession' /\ OldRoomsAreEmpty'
    BY <1>2 DEF Acquire
  <2>2. /\ holder' = p /\ UNCHANGED <<open, members>>
        /\ loose' = IF p \in open["screen"] THEN loose \cup {p} ELSE loose
        /\ holder \in {Nobody, p} \/ ~attached
    BY <1>2 DEF Acquire
  <2>3. ShareHoldsLock'
    BY <2>2
  <2> QED
    BY <2>1, <2>3
<1>3. ASSUME NEW p \in Peers, TakeOver(p) PROVE IInv'
  <2>1. /\ p \in session /\ holder # p /\ SetLock(p) /\ UNCHANGED <<roomVars, pending>>
        /\ open' = IF p \notin oldRoom /\ holder \in members THEN NoSlots(holder) ELSE open
        /\ loose' = IF p \in oldRoom THEN loose \cup {holder} ELSE loose
        /\ holder \in Peers
    BY <1>3 DEF TakeOver
  <2>2. CASE p \in oldRoom
    <3>1. open' = open /\ loose' = loose \cup {holder}
      BY <2>1, <2>2
    <3>2. ShareHoldsLock'
      BY <2>1, <3>1 DEF ShareHoldsLock
    <3>3. (TypeOK /\ HolderHasSession /\ OldRoomsAreEmpty)'
      BY <2>1, <3>1
    <3> QED
      BY <3>2, <3>3 DEF IInv
  <2>3. CASE p \notin oldRoom /\ holder \in members
    <3>1. open' = NoSlots(holder) /\ loose' = loose
      BY <2>1, <2>3
    <3>2. ShareHoldsLock'
      BY <2>1, <3>1 DEF ShareHoldsLock
    <3>3. (TypeOK /\ HolderHasSession /\ OldRoomsAreEmpty)'
      BY <2>1, <3>1
    <3> QED
      BY <3>2, <3>3 DEF IInv
  <2>4. CASE p \notin oldRoom /\ holder \notin members
    <3>1. open' = open /\ loose' = loose
      BY <2>1, <2>4
    <3>2. ShareHoldsLock'
      BY <2>1, <2>4, <3>1 DEF ShareHoldsLock
    <3>3. (TypeOK /\ HolderHasSession /\ OldRoomsAreEmpty)'
      BY <2>1, <2>4, <3>1
    <3> QED
      BY <3>2, <3>3 DEF IInv
  <2> QED
    BY <2>2, <2>3, <2>4
<1>4. ASSUME NEW p \in Peers, Stop(p) PROVE IInv'
  <2>1. /\ p \in session /\ UNCHANGED <<roomVars, pending, loose>>
        /\ IF holder = p THEN Release(p, p) ELSE UNCHANGED <<lockVars, open>>
    BY <1>4 DEF Stop
  <2>2. CASE holder # p
    <3>1. UNCHANGED <<roomVars, lockVars, open, pending, loose>>
      BY <2>1, <2>2
    <3> QED
      BY <3>1
  <2>3. CASE holder = p /\ p \in members
    <3>1. SetLock(Nobody) /\ open' = NoSlots(p)
      BY <2>1, <2>3 DEF Release
    <3> QED
      BY <2>1, <2>3, <3>1
  <2>4. CASE holder = p /\ p \notin members
    <3>1. SetLock(Nobody) /\ open' = open
      BY <2>1, <2>4 DEF Release
    <3> QED
      BY <2>1, <2>4, <3>1
  <2> QED
    BY <2>2, <2>3, <2>4
<1>5. ASSUME NEW p \in Peers, StopAudio(p) PROVE IInv'
  BY <1>5 DEF StopAudio
<1>6. ASSUME NEW p \in Peers, MediaLost(p) PROVE IInv'
  BY <1>6 DEF MediaLost
<1>7. ASSUME NEW p \in Peers, Join(p) PROVE IInv'
  BY <1>7 DEF Join
<1>8. ASSUME NEW p \in Peers, Teardown(p) PROVE IInv'
  BY <1>8 DEF Teardown
<1>9. ASSUME NEW p \in Peers, NEW src \in Sources, Produce(p, src) PROVE IInv'
  <2>1. CASE ActiveHolder = p /\ p \in members
    BY <1>9, <2>1 DEF Produce
  <2>2. CASE ~(ActiveHolder = p /\ p \in members) /\ Stale
    <3>1. SetLock(Nobody) /\ UNCHANGED <<roomVars, open, pending, loose>>
      BY <1>9, <2>2 DEF Produce
    <3> QED
      BY <2>2, <3>1
  <2>3. CASE ~(ActiveHolder = p /\ p \in members) /\ ~Stale
    <3>1. UNCHANGED <<roomVars, lockVars, open, pending, loose>>
      BY <1>9, <2>3 DEF Produce
    <3> QED
      BY <3>1
  <2> QED
    BY <2>1, <2>2, <2>3
<1>10. ASSUME NEW p \in Peers, NEW src \in Sources, Produced(p, src) PROVE IInv'
  <2>1. pending' \subseteq Peers \X Sources /\ UNCHANGED roomVars
    BY <1>10 DEF Produced
  <2>2. CASE src = "screen" /\ holder = p
    <3>1. /\ open' = [open EXCEPT !["screen"] = @ \cup {p}]
          /\ attached' = TRUE /\ loose' = loose \ {p} /\ UNCHANGED <<holder, expired>>
      BY <1>10, <2>2 DEF Produced, Attach
    <3> QED
      BY <2>1, <2>2, <3>1
  <2>3. CASE src = "screen" /\ holder # p
    <3>1. open' = [open EXCEPT !["screen"] = @ \ {p}] /\ UNCHANGED <<lockVars, loose>>
      BY <1>10, <2>3 DEF Produced, Attach
    <3> QED
      BY <2>1, <2>3, <3>1
  <2>4. CASE src = "screenAudio"
    <3>1. open' = [open EXCEPT !["screenAudio"] = @ \cup {p}] /\ UNCHANGED <<lockVars, loose>>
      BY <1>10, <2>4 DEF Produced
    <3> QED
      BY <2>1, <3>1
  <2> QED
    BY <2>2, <2>3, <2>4
<1>11. ASSUME NEW p \in Peers, NEW src \in Sources, ProduceFailed(p, src) PROVE IInv'
  BY <1>11 DEF ProduceFailed
<1>12. ASSUME NEW actor \in Peers, NEW p \in Peers, StopByHost(actor, p) PROVE IInv'
  <2>1. /\ holder = p /\ SetLock(Nobody) /\ UNCHANGED <<roomVars, pending>>
        /\ open' = IF actor \notin oldRoom /\ p \in members THEN NoSlots(p) ELSE open
        /\ loose' = IF actor \in oldRoom THEN loose \cup {p} ELSE loose
    BY <1>12 DEF StopByHost, Release
  <2>2. CASE actor \in oldRoom
    <3>1. open' = open /\ loose' = loose \cup {p}
      BY <2>1, <2>2
    <3>2. ShareHoldsLock'
      BY <2>1, <3>1 DEF ShareHoldsLock
    <3>3. (TypeOK /\ HolderHasSession /\ OldRoomsAreEmpty)'
      BY <2>1, <3>1
    <3> QED
      BY <3>2, <3>3 DEF IInv
  <2>3. CASE actor \notin oldRoom /\ p \in members
    <3>1. open' = NoSlots(p) /\ loose' = loose
      BY <2>1, <2>3
    <3>2. ShareHoldsLock'
      BY <2>1, <3>1 DEF ShareHoldsLock
    <3>3. (TypeOK /\ HolderHasSession /\ OldRoomsAreEmpty)'
      BY <2>1, <3>1
    <3> QED
      BY <3>2, <3>3 DEF IInv
  <2>4. CASE actor \notin oldRoom /\ p \notin members
    <3>1. open' = open /\ loose' = loose
      BY <2>1, <2>4
    <3>2. ShareHoldsLock'
      BY <2>1, <2>4, <3>1 DEF ShareHoldsLock
    <3>3. (TypeOK /\ HolderHasSession /\ OldRoomsAreEmpty)'
      BY <2>1, <2>4, <3>1
    <3> QED
      BY <3>2, <3>3 DEF IInv
  <2> QED
    BY <2>2, <2>3, <2>4
<1>13. ASSUME NEW actor \in Peers, NEW p \in Peers, Remove(actor, p) PROVE IInv'
  BY <1>13 DEF Remove
<1>17. ASSUME NEW actor \in Peers, NEW p \in Peers, Promote(actor, p) PROVE IInv'
  BY <1>17 DEF Promote
<1>18. ASSUME NEW actor \in Peers, NEW p \in Peers, Demote(actor, p) PROVE IInv'
  BY <1>18 DEF Demote
<1>14. CASE LockAges
  BY <1>14 DEF LockAges
<1>15. CASE EndRoom
  BY <1>15 DEF EndRoom
<1>16. CASE UNCHANGED vars
  BY <1>16 DEF vars
<1> QED
  BY <1>1, <1>2, <1>3, <1>4, <1>5, <1>6, <1>7, <1>8,
     <1>9, <1>10, <1>11, <1>12, <1>13, <1>14, <1>15, <1>16,
     <1>17, <1>18 DEF Next

(* A room nobody has joined satisfies both invariants.                     *)
LEMMA InitEstablishes == Init => LockInv /\ IInv
BY DEF Init, LockInv, IInv, TypeOK, HolderHasSession, ShareHoldsLock, OldRoomsAreEmpty,
       Sources

(* The lock never outlives its holder, whatever the clients ask: leaving,  *)
(* being removed and losing the Room all end with it released.             *)
THEOREM LockHasALiveHolder == Spec => []HolderHasSession
<1>1. Init => LockInv
  BY InitEstablishes
<1>2. LockInv => HolderHasSession
  BY DEF LockInv
<1> QED
  BY <1>1, <1>2, LockStep, PTL DEF Spec

(* Whatever clients send, the share of a peer whose lock was not let go    *)
(* under it holds the confirmed lock of its room.                          *)
THEOREM SharesHoldTheLock == Spec => []IInv
<1>1. Init => IInv
  BY InitEstablishes
<1> QED
  BY <1>1, ShareStep, PTL DEF Spec

(* Whatever clients send, at most one peer of the room shares beside those *)
(* whose lock was let go under their share, for any number of peers.       *)
THEOREM OnePresenter == Spec => []OneHeldShare
<1>1. IInv => OneHeldShare
  BY DEF IInv, ShareHoldsLock, OneHeldShare
<1> QED
  BY <1>1, SharesHoldTheLock, PTL
=============================================================================
