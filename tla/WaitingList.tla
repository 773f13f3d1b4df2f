---------------------------- MODULE WaitingList ----------------------------
(***************************************************************************)
(* The waiting list of one scheduled room that is running: people join and *)
(* leave the list from the lobby, the enforcer holds a freed seat for the  *)
(* first of them, and everybody comes in through the same entry decision   *)
(* and the same seat script.                                               *)
(*                                                                         *)
(* Sources: rooms/ScheduledRooms.js, rooms/roomRules.js (entryDecision,    *)
(* freeSeats), and the seat script of SeatReservation.  All state is in    *)
(* Redis and every step below is one command, or one batch of commands     *)
(* sent together: the lobby's routes, the socket joins and the enforcers   *)
(* of the SFU nodes run between each other's steps.                        *)
(*                                                                         *)
(* Doors, late joins and approval only refuse people before any of this;   *)
(* they are not modelled, nor is the end of the room.                      *)
(***************************************************************************)
EXTENDS Naturals, Sequences, FiniteSets, SequencesExt

CONSTANTS
  Users,       \* everyone who may come in
  Moderators,  \* host and co-hosts: no limit applies to them
  Capacity,    \* capacityOf(room)
  Enforcers,   \* the nodes that run the enforcer
  SlowSweeps   \* may a sweep outlast the enforcer lock (14 s)?

ASSUME UsersFinite   == IsFiniteSet(Users) /\ Moderators \subseteq Users
ASSUME CapacityIsNat == Capacity \in Nat \ {0}
ASSUME SlowIsBoolean == SlowSweeps \in BOOLEAN

VARIABLES
  at,      \* what each person is doing: one browser, one call at a time
  seats,   \* the seat hash (SeatReservation)
  joined,  \* keys.joined: who has been let in before
  queue,   \* keys.waitlist, ordered by the time of asking
  hold,    \* keys.holds: a held seat, its two minutes running or over
  tidying, \* the holds whose HDEL by liveHolds is on its way
  listed,  \* is the room in keys.withWaitlist?
  lock,    \* keys.enforcerLock
  sweep,   \* where each enforcer's promoteWaitlists is
  crossed  \* history: see Crosses

lobbyVars   == <<at, seats, joined>>
waitingVars == <<queue, hold, tidying, crossed, listed>>
sweepVars   == <<lock, sweep>>
vars == <<lobbyVars, waitingVars, sweepVars>>

Points      == {"lobby", "listing", "unlisting", "allowed", "cleared", "redeeming", "inside"}
SweepPoints == {"idle", "counting", "dropping", "measuring", "ranging", "holding", "unqueueing"}
Idle        == [at |-> "idle", free |-> 0, next |-> <<>>]

Queued == ToSet(queue)
Held   == {u \in Users : hold[u] = "held"}

TypeOK ==
  /\ at \in [Users -> Points]
  /\ seats \subseteq Users
  /\ joined \subseteq Users
  /\ queue \in Seq(Users)
  /\ hold \in [Users -> {"none", "held", "lapsed"}]
  /\ tidying \subseteq Users
  /\ listed \in BOOLEAN
  /\ lock \in BOOLEAN
  /\ crossed \in BOOLEAN
  /\ sweep \in [Enforcers -> [at : SweepPoints, free : 0 .. Capacity, next : Seq(Users)]]

Init ==
  /\ at = [u \in Users |-> "lobby"]
  /\ seats = {}
  /\ joined = {}
  /\ queue = <<>>
  /\ hold = [u \in Users |-> "none"]
  /\ tidying = {}
  /\ listed = FALSE
  /\ lock = FALSE
  /\ crossed = FALSE
  /\ sweep = [e \in Enforcers |-> Idle]

Go(u, point) == at' = [at EXCEPT ![u] = point]

(* ZREM; nobody is in the list twice.                                      *)
Without(q, u) ==
  IF \E i \in DOMAIN q : q[i] = u THEN RemoveAt(q, CHOOSE i \in DOMAIN q : q[i] = u) ELSE q

(* Mutant of LiveHolds: an expiry in the past still counts as a hold.      *)
LiveHoldsNeverLapse == {u \in Users : hold[u] # "none"}

(* liveHolds: the holds whose time is running.                             *)
LiveHolds == Held

(* The same read sends an HDEL for each of the others and does not wait    *)
(* for it.                                                                 *)
TidyHolds == tidying' = tidying \cup ({u \in Users : hold[u] # "none"} \ LiveHolds)

(* It deletes what is there by then.                                       *)
Tidy(u) ==
  /\ u \in tidying
  /\ hold' = [hold EXCEPT ![u] = "none"]
  /\ tidying' = tidying \ {u}
  /\ UNCHANGED <<lobbyVars, queue, crossed, listed, sweepVars>>

-----------------------------------------------------------------------------
(* The lobby                                                               *)

(* joinWaitlist: ZADD NX, then the room goes on the enforcers' list.  The  *)
(* lobby shows the button after a room_full, which moderators never get;   *)
(* by the time of the click the room need not be full any more.            *)
joinWaitlist(u) ==
  /\ at[u] = "lobby"
  /\ u \notin Moderators
  /\ queue' = IF u \in Queued THEN queue ELSE Append(queue, u)
  /\ Go(u, "listing")
  /\ UNCHANGED <<seats, joined, hold, tidying, crossed, listed, sweepVars>>

ListRoom(u) ==
  /\ at[u] = "listing"
  /\ listed' = TRUE
  /\ Go(u, "lobby")
  /\ UNCHANGED <<seats, joined, queue, hold, tidying, crossed, sweepVars>>

(* leaveWaitlist: ZREM, then the hold is deleted.                          *)
leaveWaitlist(u) ==
  /\ at[u] = "lobby"
  /\ u \in Queued
  /\ queue' = Without(queue, u)
  /\ Go(u, "unlisting")
  /\ UNCHANGED <<seats, joined, hold, tidying, crossed, listed, sweepVars>>

DropHold(u) ==
  /\ at[u] = "unlisting"
  /\ hold' = [hold EXCEPT ![u] = "none"]
  /\ Go(u, "lobby")
  /\ UNCHANGED <<seats, joined, queue, tidying, crossed, listed, sweepVars>>

(* HOLD_MS pass.                                                           *)
HoldLapses(u) ==
  /\ hold[u] = "held"
  /\ hold' = [hold EXCEPT ![u] = "lapsed"]
  /\ UNCHANGED <<lobbyVars, queue, tidying, crossed, listed, sweepVars>>

-----------------------------------------------------------------------------
(* Coming in                                                               *)

(* Who has been let in and has no seat yet, and what the others count: the *)
(* seats and the holds.                                                    *)
OnTheWay == {u \in Users : at[u] \in {"allowed", "cleared", "redeeming"}}
Counted  == seats \cup Held

(* The sweep has counted the free seats and is handing them out.           *)
HandsOut(e) == sweep[e].at \in {"ranging", "holding", "unqueueing"}

SeatLeft(u) == Cardinality(seats \ {u}) + Cardinality(LiveHolds \ {u}) < Capacity

(* Mutant of MayEnter: the decision forgets the seats held for others.     *)
MayEnterPastHolds(u) ==
  u \in Moderators \cup joined \cup LiveHolds \/ Cardinality(seats \ {u}) < Capacity

(* entryDecision, from one read of seats and holds.                        *)
MayEnter(u) == u \in Moderators \cup joined \cup LiveHolds \/ SeatLeft(u)

(* Who comes in past the count: u is exempt from the limit, which is       *)
(* reached, or is let in while somebody else is on the way uncounted or a  *)
(* sweep hands out the seats it has counted.  Who redeems a hold does not. *)
Crosses(u) ==
  /\ u \notin Held
  /\ \/ u \in Moderators \cup joined /\ ~SeatLeft(u)
     \/ ~(OnTheWay \subseteq Counted)
     \/ \E e \in Enforcers : HandsOut(e)

(* decide, called by admissionFor: who is refused stays in the lobby.      *)
Decide(u) ==
  /\ at[u] = "lobby"
  /\ IF MayEnter(u) THEN Go(u, "allowed") ELSE UNCHANGED at
  /\ crossed' = (crossed \/ (MayEnter(u) /\ Crosses(u)))
  /\ TidyHolds
  /\ UNCHANGED <<seats, joined, queue, hold, listed, sweepVars>>

(* The rest of admissionFor: hold and place in the list are given up.      *)
admissionFor(u) ==
  /\ at[u] = "allowed"
  /\ joined' = joined \cup {u}
  /\ hold' = [hold EXCEPT ![u] = "none"]
  /\ queue' = Without(queue, u)
  /\ Go(u, IF hold[u] = "held" THEN "redeeming" ELSE "cleared")
  /\ UNCHANGED <<seats, tidying, crossed, listed, sweepVars>>

(* reserveSeat.lua; it knows nothing of holds.                             *)
SeatFree(u) == u \in seats \/ u \in Moderators \/ Cardinality(seats) < Capacity

(* reserveSeat: a seat, or room_full and back to the lobby.                *)
Reserve(u) ==
  /\ at[u] \in {"cleared", "redeeming"}
  /\ IF SeatFree(u)
     THEN seats' = seats \cup {u} /\ Go(u, "inside")
     ELSE Go(u, "lobby") /\ UNCHANGED seats
  /\ UNCHANGED <<joined, waitingVars, sweepVars>>

(* teardown releases the seat.                                             *)
Leave(u) ==
  /\ at[u] = "inside"
  /\ seats' = seats \ {u}
  /\ Go(u, "lobby")
  /\ UNCHANGED <<joined, waitingVars, sweepVars>>

(* SEAT_TTL_MS pass; nothing refreshes a seat.                             *)
SeatExpires(u) ==
  /\ u \in seats
  /\ seats' = seats \ {u}
  /\ UNCHANGED <<at, joined, waitingVars, sweepVars>>

-----------------------------------------------------------------------------
(* The enforcer: promoteWaitlists, one room                                *)

Goto(e, point) == sweep' = [sweep EXCEPT ![e].at = point]
Done(e)        == sweep' = [sweep EXCEPT ![e] = Idle]

(* The tick: the lock, then SMEMBERS of the rooms with a waiting list.     *)
StartSweep(e) ==
  /\ sweep[e] = Idle
  /\ ~lock
  /\ lock' = TRUE
  /\ IF listed THEN Goto(e, "counting") ELSE UNCHANGED sweep
  /\ UNCHANGED <<lobbyVars, waitingVars>>

(* The lock is never deleted, it expires a second before the next tick.    *)
LockExpires ==
  /\ lock
  /\ SlowSweeps \/ \A e \in Enforcers : sweep[e] = Idle
  /\ lock' = FALSE
  /\ UNCHANGED <<lobbyVars, waitingVars, sweep>>

(* ZCARD: is anybody waiting?                                              *)
CountWaiting(e) ==
  /\ sweep[e].at = "counting"
  /\ Goto(e, IF queue = <<>> THEN "dropping" ELSE "measuring")
  /\ UNCHANGED <<lobbyVars, waitingVars, lock>>

(* SREM of a room nobody waited for.                                       *)
DropRoom(e) ==
  /\ sweep[e].at = "dropping"
  /\ listed' = FALSE
  /\ Done(e)
  /\ UNCHANGED <<lobbyVars, queue, hold, tidying, crossed, lock>>

(* freeSeats                                                               *)
FreeSeats ==
  LET taken == Cardinality(seats) + Cardinality(LiveHolds)
  IN IF taken < Capacity THEN Capacity - taken ELSE 0

(* HGETALL of holds and seats, and how many seats may be handed out, past  *)
(* somebody who is on the way or a sweep that is not done.                 *)
MeasureRoom(e) ==
  /\ sweep[e].at = "measuring"
  /\ TidyHolds
  /\ sweep' = [sweep EXCEPT ![e] =
       IF FreeSeats = 0 THEN Idle ELSE [at |-> "ranging", free |-> FreeSeats, next |-> <<>>]]
  /\ crossed' = (crossed \/ ~(OnTheWay \subseteq Counted) \/ \E f \in Enforcers : HandsOut(f))
  /\ UNCHANGED <<lobbyVars, queue, hold, listed, lock>>

(* ZRANGE 0 .. free - 1                                                    *)
RangeQueue(e) ==
  LET next == SubSeq(queue, 1, IF sweep[e].free < Len(queue) THEN sweep[e].free ELSE Len(queue)) IN
  /\ sweep[e].at = "ranging"
  /\ sweep' = [sweep EXCEPT ![e] =
       IF next = <<>> THEN Idle ELSE [at |-> "holding", free |-> 0, next |-> next]]
  /\ UNCHANGED <<lobbyVars, waitingVars, lock>>

(* HSET of the hold, whatever its owner did since.                         *)
HoldSeat(e) ==
  /\ sweep[e].at = "holding"
  /\ hold' = [hold EXCEPT ![Head(sweep[e].next)] = "held"]
  /\ Goto(e, "unqueueing")
  /\ UNCHANGED <<lobbyVars, queue, tidying, crossed, listed, lock>>

(* ZREM; the person is told, and the next one follows.                     *)
Unqueue(e) ==
  LET rest == Tail(sweep[e].next) IN
  /\ sweep[e].at = "unqueueing"
  /\ queue' = Without(queue, Head(sweep[e].next))
  /\ sweep' = [sweep EXCEPT ![e] =
       IF rest = <<>> THEN Idle ELSE [at |-> "holding", free |-> 0, next |-> rest]]
  /\ UNCHANGED <<lobbyVars, hold, tidying, crossed, listed, lock>>

-----------------------------------------------------------------------------
LobbyStep(u) == ListRoom(u) \/ DropHold(u) \/ admissionFor(u) \/ Reserve(u)

SweepStep(e) ==
  \/ CountWaiting(e) \/ DropRoom(e) \/ MeasureRoom(e) \/ RangeQueue(e)
  \/ HoldSeat(e) \/ Unqueue(e)

Next ==
  \/ \E u \in Users :
       \/ joinWaitlist(u) \/ leaveWaitlist(u) \/ Decide(u) \/ LobbyStep(u)
       \/ Leave(u) \/ HoldLapses(u) \/ SeatExpires(u) \/ Tidy(u)
  \/ \E e \in Enforcers : StartSweep(e) \/ SweepStep(e)
  \/ LockExpires

Spec == Init /\ [][Next]_vars

(* A handler's commands are answered; the enforcers tick and the lock      *)
(* expires; two minutes pass.                                              *)
Fairness ==
  /\ \A u \in Users : WF_vars(LobbyStep(u)) /\ WF_vars(HoldLapses(u))
  /\ \A e \in Enforcers : WF_vars(SweepStep(e))
  /\ WF_vars(\E e \in Enforcers : StartSweep(e))
  /\ WF_vars(LockExpires)

FairSpec == Spec /\ Fairness

-----------------------------------------------------------------------------
(* A promise made in the lobby is kept at the door: who was let in, by the *)
(* entry decision or by a hold, is refused by the seat script, which knows *)
(* nothing of holds, only after somebody came in past the count.  In a room*)
(* of learners whose calls do not overlap nobody is.                       *)
LetInGetIn ==
  [][\A u \in Users :
       at[u] \in {"cleared", "redeeming"} /\ at'[u] = "lobby" => crossed]_vars

(* "Seats for learners: the room's own limit" (ScheduledRooms.js).         *)
LearnersWithinCapacity == Cardinality(seats \ Moderators) <= Capacity

(* A sweep that is handing out seats has somebody to hand the next one to, *)
(* and one that is not has none.                                           *)
SweepHasNext ==
  \A e \in Enforcers :
    /\ sweep[e].at \in {"holding", "unqueueing"} => sweep[e].next # <<>> /\ sweep[e].free = 0
    /\ sweep[e].at = "ranging" => sweep[e].next = <<>>
    /\ ~HandsOut(e) => sweep[e].next = <<>> /\ sweep[e].free = 0

(* Unless somebody came in past the count: one sweep at a time hands out   *)
(* seats, and the seats taken, held and promised, with those the sweep has *)
(* still to hand out, are no more than there are.                          *)
PromisesFit ==
  ~crossed =>
    /\ Cardinality(Counted \cup OnTheWay) <= Capacity
    /\ \A e, f \in Enforcers : HandsOut(e) /\ HandsOut(f) => e = f
    /\ \A e \in Enforcers :
         Cardinality(Counted \cup OnTheWay \cup ToSet(sweep[e].next)) + sweep[e].free <= Capacity

(* The inductive invariant.                                                *)
IInv ==
  /\ TypeOK
  /\ LearnersWithinCapacity
  /\ SweepHasNext
  /\ PromisesFit

(* Nobody waits in front of a free seat for ever: while the room is on the *)
(* enforcers' list, a seat that stays free is offered, also the seat of    *)
(* somebody who was offered it and never came.                             *)
FreeSeatIsOffered ==
  \A u \in Users \ Moderators :
    []<>~(u \in Queued /\ listed /\ Capacity > Cardinality(seats) + Cardinality(Held))

-----------------------------------------------------------------------------
(* What the lobby promises, and the code does not keep.                    *)

(* "When a seat is free it is held for you" (RoomLobbyPage.jsx): the same, *)
(* for everybody the list shows as waiting.                                *)
WaitingIsOffered ==
  \A u \in Users : []<>~(u \in Queued /\ Capacity > Cardinality(seats) + Cardinality(Held))

(* "It is held for you for 2 minutes" (ScheduledRooms.js): who comes while *)
(* their hold is running gets in.                                          *)
HeldSeatIsKept ==
  [][\A u \in Users : at[u] = "redeeming" => at'[u] # "lobby"]_vars
=============================================================================
