--------------------------- MODULE PresenterLock ---------------------------
(***************************************************************************)
(* The presenter lock of one room id: classroom/ScreenShareManager.js, the *)
(* handlers of signaling/socketHandlers.js that use it (onScreenShareStart,*)
(* onScreenShareStop, onProduce, onProducerClose, onJoin with rejoin,      *)
(* teardown), the producer slots of classroom/Peer.js, and the moderation  *)
(* actions that end a share or change who may have one.                    *)
(*                                                                         *)
(* The lock is taken before the client opens its picker and confirmed when *)
(* the screen producer arrives; onProduce waits for mediasoup in between.  *)
(* The map of locks is keyed by room id and outlives the Room object:      *)
(* ScreenShareManager.clearRoom has no caller.  Clients ask as they like:  *)
(* SfuClient.startScreenShare looks at producers.screen once and sets it   *)
(* only after the answer to its produce, so a second request may come      *)
(* while the first share is open.                                          *)
(***************************************************************************)
EXTENDS Naturals, FiniteSets

CONSTANTS
  Peers,            \* a peer is a socket's session in the room
  Hosts,            \* peers with role host
  CoHosts,          \* peers who join as co-hosts
  LearnersMayShare, \* room.settings.learnersMayShare
  Nobody            \* no lock

ASSUME RolesNest   == Hosts \cup CoHosts \subseteq Peers /\ Hosts \cap CoHosts = {}
ASSUME NobodyIsNew == Nobody \notin Peers
ASSUME MayShareIsBool == LearnersMayShare \in BOOLEAN

Sources == {"screen", "screenAudio"}

VARIABLES
  session,   \* sockets with a session for this room id
  oldRoom,   \* those whose session refers to a Room object already closed
  members,   \* peers of the Room object now in the map
  cohosts,   \* sessions whose peer has role cohost
  holder,    \* locks.get(roomId).peerId
  attached,  \* its producerId is set
  expired,   \* it was acquired more than PENDING_TIMEOUT_MS ago
  open,      \* open[src]: peers whose slot for src holds a producer
  pending,   \* <<peer, src>>: onProduce waits for transport.produce
  loose      \* history: peers whose lock was let go under their share, and
             \* who had no screen confirmed since and did not leave

lockVars == <<holder, attached, expired>>
roomVars == <<session, oldRoom, members, cohosts>>
vars == <<roomVars, lockVars, open, pending, loose>>

TypeOK ==
  /\ session \subseteq Peers
  /\ oldRoom \subseteq session
  /\ members \subseteq session
  /\ cohosts \subseteq session \ Hosts
  /\ holder \in Peers \cup {Nobody}
  /\ attached \in BOOLEAN
  /\ expired \in BOOLEAN
  /\ open \in [Sources -> SUBSET Peers]
  /\ pending \subseteq Peers \X Sources
  /\ loose \subseteq Peers

Init ==
  /\ session = {} /\ oldRoom = {} /\ members = {} /\ cohosts = {}
  /\ holder = Nobody /\ attached = FALSE /\ expired = FALSE
  /\ open = [src \in Sources |-> {}]
  /\ pending = {}
  /\ loose = {}

-----------------------------------------------------------------------------
(* activeFor: a lock whose producer never came is gone after the timeout.  *)
Stale == ~attached /\ expired

ActiveHolder == IF Stale THEN Nobody ELSE holder

(* canModerate, and who may take the lock at all.                          *)
Moderators == Hosts \cup cohosts
Sharers    == IF LearnersMayShare THEN session ELSE session \cap Moderators

SetLock(p)  == holder' = p /\ attached' = FALSE /\ expired' = FALSE
NoSlots(p)  == [src \in Sources |-> open[src] \ {p}]

(* Mutant of Release: the lock goes, the producers stay.                   *)
ReleaseKeepsShare(actor, p) == SetLock(Nobody) /\ UNCHANGED open

(* release(room, p), called for a holder p: room is the actor's, and       *)
(* room.getPeer finds p only in the Room object p is a peer of.            *)
Release(actor, p) ==
  /\ SetLock(Nobody)
  /\ open' = IF actor \notin oldRoom /\ p \in members THEN NoSlots(p) ELSE open

(* The pending timeout passes.                                             *)
LockAges ==
  /\ holder # Nobody /\ ~attached /\ ~expired
  /\ expired' = TRUE
  /\ UNCHANGED <<roomVars, holder, attached, open, pending, loose>>

-----------------------------------------------------------------------------
(* acquire, refused: somebody else holds the lock and p is not the host.   *)
AcquireRefused(p) ==
  /\ p \in Sharers
  /\ ActiveHolder \notin {Nobody, p} /\ p \notin Hosts
  /\ UNCHANGED vars

(* acquire: a free lock, a stale one, or the peer's own is taken (again).  *)
(* Who asks while sharing has an unconfirmed lock again.                   *)
Acquire(p) ==
  /\ p \in Sharers
  /\ ActiveHolder \in {Nobody, p}
  /\ SetLock(p)
  /\ loose' = IF p \in open["screen"] THEN loose \cup {p} ELSE loose
  /\ UNCHANGED <<roomVars, open, pending>>

(* Mutant of TakeOver: the former holder's share is not closed.            *)
TakeOverKeepsShare(p) ==
  /\ p \in session \cap Hosts
  /\ ActiveHolder \notin {Nobody, p}
  /\ SetLock(p)
  /\ loose' = IF p \in oldRoom THEN loose \cup {holder} ELSE loose
  /\ UNCHANGED <<roomVars, open, pending>>

(* acquire by the host over somebody's lock: revoke, then the lock is set. *)
(* A host whose Room object is closed finds no peer to close the share of. *)
TakeOver(p) ==
  /\ p \in session \cap Hosts
  /\ ActiveHolder \notin {Nobody, p}
  /\ SetLock(p)
  /\ open' = IF p \notin oldRoom /\ holder \in members THEN NoSlots(holder) ELSE open
  /\ loose' = IF p \in oldRoom THEN loose \cup {holder} ELSE loose
  /\ UNCHANGED <<roomVars, pending>>

(* onProduce up to its await: isSharing is checked, which drops a stale    *)
(* lock.  A closed peer has no transport left to produce on.               *)
Produce(p, src) ==
  /\ p \in session
  /\ IF ActiveHolder = p /\ p \in members
     THEN pending' = pending \cup {<<p, src>>} /\ UNCHANGED lockVars
     ELSE /\ UNCHANGED pending
          /\ IF Stale THEN SetLock(Nobody) ELSE UNCHANGED lockVars
  /\ UNCHANGED <<roomVars, open, loose>>

(* addProducer, then attachProducer: without the lock the producer is      *)
(* closed again.  The lock is read as it is, stale or not.                 *)
Attach(p) ==
  IF holder = p
  THEN /\ open' = [open EXCEPT !["screen"] = @ \cup {p}]
       /\ attached' = TRUE
       /\ loose' = loose \ {p}
       /\ UNCHANGED <<holder, expired>>
  ELSE /\ open' = [open EXCEPT !["screen"] = @ \ {p}]
       /\ UNCHANGED <<lockVars, loose>>

(* onProduce after its await.  Screen audio has no check of its own.       *)
Produced(p, src) ==
  /\ <<p, src>> \in pending
  /\ pending' = pending \ {<<p, src>>}
  /\ IF src = "screen" THEN Attach(p)
     ELSE open' = [open EXCEPT ![src] = @ \cup {p}] /\ UNCHANGED <<lockVars, loose>>
  /\ UNCHANGED roomVars

(* The transport closed first, or the parameters were refused.             *)
ProduceFailed(p, src) ==
  /\ <<p, src>> \in pending
  /\ pending' = pending \ {<<p, src>>}
  /\ UNCHANGED <<roomVars, lockVars, open, loose>>

(* onScreenShareStop, and onProducerClose of a screen producer.            *)
Stop(p) ==
  /\ p \in session
  /\ IF holder = p THEN Release(p, p) ELSE UNCHANGED <<lockVars, open>>
  /\ UNCHANGED <<roomVars, pending, loose>>

(* onProducerClose of a screen audio producer.                             *)
StopAudio(p) ==
  /\ p \in session \cap open["screenAudio"]
  /\ open' = [open EXCEPT !["screenAudio"] = @ \ {p}]
  /\ UNCHANGED <<roomVars, lockVars, pending, loose>>

(* The peer's send transport closes: rejoin, a new transport, a failure.   *)
(* Its producers close with it; the lock stays.                            *)
MediaLost(p) ==
  /\ p \in session
  /\ open' = NoSlots(p)
  /\ UNCHANGED <<roomVars, lockVars, pending, loose>>

-----------------------------------------------------------------------------
(* ModerationControls.stopScreenShare: revoke, by a moderator whose Room   *)
(* object may be closed.                                                   *)
StopByHost(actor, p) ==
  /\ actor \in session \cap Moderators
  /\ holder = p
  /\ Release(actor, p)
  /\ loose' = IF actor \in oldRoom THEN loose \cup {p} ELSE loose
  /\ UNCHANGED <<roomVars, pending>>

(* ModerationControls.remove: releaseForPeer, then removePeer closes p.    *)
Remove(actor, p) ==
  /\ actor \in (session \cap Moderators) \ oldRoom
  /\ p \in members \ Hosts
  /\ IF holder = p THEN SetLock(Nobody) ELSE UNCHANGED lockVars
  /\ open' = NoSlots(p)
  /\ members' = members \ {p}
  /\ UNCHANGED <<session, oldRoom, cohosts, pending, loose>>

(* ModerationControls.promote and demote, of a peer of the actor's Room.   *)
Promote(actor, p) ==
  /\ actor \in (session \cap Moderators) \ oldRoom
  /\ p \in members \ Hosts
  /\ cohosts' = cohosts \cup {p}
  /\ UNCHANGED <<session, oldRoom, members, lockVars, open, pending, loose>>

Demote(actor, p) ==
  /\ actor \in (session \cap Moderators) \ oldRoom
  /\ p \in members \ Hosts
  /\ cohosts' = cohosts \ {p}
  /\ UNCHANGED <<session, oldRoom, members, lockVars, open, pending, loose>>

(* onJoin, as seen from here.                                              *)
Join(p) ==
  /\ p \notin session
  /\ \A src \in Sources : <<p, src>> \notin pending /\ p \notin open[src]
  /\ session' = session \cup {p}
  /\ members' = members \cup {p}
  /\ cohosts' = IF p \in CoHosts THEN cohosts \cup {p} ELSE cohosts
  /\ UNCHANGED <<oldRoom, lockVars, open, pending, loose>>

(* Mutant of Teardown: the lock is left to the pending timeout.            *)
TeardownKeepsLock(p) ==
  /\ p \in session
  /\ open' = NoSlots(p)
  /\ session' = session \ {p}
  /\ oldRoom' = oldRoom \ {p}
  /\ members' = members \ {p}
  /\ cohosts' = cohosts \ {p}
  /\ loose' = loose \ {p}
  /\ UNCHANGED <<lockVars, pending>>

(* teardown: releaseForPeer, then removePeer.                              *)
Teardown(p) ==
  /\ p \in session
  /\ IF holder = p THEN SetLock(Nobody) ELSE UNCHANGED lockVars
  /\ open' = NoSlots(p)
  /\ session' = session \ {p}
  /\ oldRoom' = oldRoom \ {p}
  /\ members' = members \ {p}
  /\ cohosts' = cohosts \ {p}
  /\ loose' = loose \ {p}
  /\ UNCHANGED pending

(* The Room object closes (closeRoom) and the id may be opened again; the  *)
(* sessions end when their sockets do.                                     *)
EndRoom ==
  /\ session # {}
  /\ oldRoom' = session
  /\ members' = {}
  /\ open' = [src \in Sources |-> {p \in open[src] : p \notin members}]
  /\ loose' = {}
  /\ UNCHANGED <<session, cohosts, lockVars, pending>>

Next ==
  \/ LockAges \/ EndRoom
  \/ \E p \in Peers :
       \/ AcquireRefused(p) \/ Acquire(p) \/ TakeOver(p) \/ Stop(p) \/ StopAudio(p)
       \/ MediaLost(p) \/ Join(p) \/ Teardown(p)
       \/ \E src \in Sources : Produce(p, src) \/ Produced(p, src) \/ ProduceFailed(p, src)
       \/ \E actor \in Peers :
            \/ StopByHost(actor, p) \/ Remove(actor, p)
            \/ Promote(actor, p) \/ Demote(actor, p)

Spec == Init /\ [][Next]_vars

-----------------------------------------------------------------------------
(* "One person shares at a time" (ScreenShareManager.js).                  *)
OneShare == \A p, q \in open["screen"] \cap members : p = q

(* Whatever clients send, a second share can appear beside somebody's only *)
(* after that peer's own lock was let go under an open share: by a second  *)
(* request of theirs, or by a moderator who still acts through a closed    *)
(* Room.  Take-overs, timeouts, removals, lost media, role changes and     *)
(* producers that arrive late leave one confirmed share.                   *)
OneHeldShare == \A p, q \in (open["screen"] \cap members) \ loose : p = q

(* The lock never outlives its holder: who holds it has a session, whose   *)
(* teardown gives it back.                                                 *)
HolderHasSession == holder # Nobody => holder \in session

(* "Screen and screen audio go together; stopping one stops both"          *)
(* (Peer.js): the sound of a screen comes from whoever holds the lock.     *)
AudioGoesWithShare == open["screenAudio"] \cap members \subseteq {holder}

-----------------------------------------------------------------------------
(* A live share is its owner's confirmed lock, until that lock is let go.  *)
ShareHoldsLock ==
  \A p \in (open["screen"] \cap members) \ loose : holder = p /\ attached

(* A Room that was closed has no peers.                                    *)
OldRoomsAreEmpty == oldRoom \cap members = {}

IInv == TypeOK /\ HolderHasSession /\ ShareHoldsLock /\ OldRoomsAreEmpty
=============================================================================
