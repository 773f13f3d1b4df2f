--------------------------- MODULE RoomLifecycle ---------------------------
(***************************************************************************)
(* One room id on one SFU node: who is in the room, and the Room objects   *)
(* that carry it.                                                          *)
(*                                                                         *)
(* Sources: onJoin and teardown of signaling/socketHandlers.js; createRoom,*)
(* closeRoom and handleWorkerLoss of classroom/RoomManager.js; addPeer,    *)
(* removePeer and close of classroom/Room.js; createRouter and the worker  *)
(* pool of mediasoup/.  Node runs one handler at a time and switches only  *)
(* at an await, so every action below is the code between two awaits.      *)
(*                                                                         *)
(* The map "rooms" is keyed by id, but handlers keep references to Room    *)
(* objects across awaits: the same id may be carried by several objects.   *)
(* Rooms opened this way never have a waiting room or a lock (createRoom   *)
(* is called without a mode, applyToRoom switches the waiting room off,    *)
(* setLocked has no caller), so knock always admits.                       *)
(*                                                                         *)
(* Redis answers here: what happens when it does not is the subject of     *)
(* SeatReservation (seats).  What the registry answers is any node it      *)
(* could name: RoomRegistry says which.                                    *)
(***************************************************************************)
EXTENDS Naturals, FiniteSets

CONSTANTS
  Sockets,    \* signalling connections; a Peer's id is its socket's id
  Users,
  UserOf,     \* the user behind each socket: a reload is a second socket
  Workers,    \* mediasoup workers of the node
  Capacity,   \* the seat limit the joins carry
  MaxJoins    \* bound: onJoin calls; each makes at most one Room object

ASSUME UserOfType     == UserOf \in [Sockets -> Users]
ASSUME MaxJoinsIsNat  == MaxJoins \in Nat
ASSUME CapacityIsNat  == Capacity \in Nat \ {0}
ASSUME UsersAreFinite == IsFiniteSet(Users)

NoRoom == 0
Objs   == 1 .. MaxJoins

VARIABLES
  current,    \* rooms.get(roomId)
  created,    \* Room objects whose router exists so far
  peers,      \* room.peers, by Room object
  closed,     \* room.closed
  routerUp,   \* objects whose mediasoup router is open
  workerOf,   \* the worker an object's router lives in
  tracked,    \* workers whose slot.routers holds this room id
  seats,      \* users in the room's seat hash (SeatReservation)
  draining,   \* isDraining()
  connected,  \* sockets that are connected
  kicked,     \* peers a moderator removed since they last joined
  evicted,    \* sockets onHostAction found and is about to disconnect
  overtaken,  \* history: sockets that disconnected during their onJoin
  session,    \* socket.data.session.room, NoRoom for null
  joins,      \* onJoin calls so far
  join,       \* where each socket's onJoin is, and its local room
  leave,      \* where each socket's teardown is, and its session's room
  closing     \* where each closeRoom call is, and its local room

roomVars == <<current, created, peers, closed, routerUp, workerOf, tracked>>
clusterVars == <<seats, draining>>
goneVars == <<evicted, overtaken>>
socketVars == <<connected, kicked, goneVars, session, joins, join, leave, closing>>
vars == <<roomVars, clusterVars, socketVars>>

Enforcer == "enforcer"
Closers == {<<"join", s>> : s \in Sockets} \cup {<<"leave", s>> : s \in Sockets}
             \cup {<<Enforcer, Enforcer>>}

JoinPoints  == {"idle", "whereIs", "reserving", "creating", "made", "opening",
                "releasing", "undoing", "closing"}
LeavePoints == {"idle", "releasing", "closing"}
ClosePoints == {"idle", "finalising", "clearing"}

At(points) == [at : points, room : Objs \cup {NoRoom}]
Idle       == [at |-> "idle", room |-> NoRoom]

TypeOK ==
  /\ current \in Objs \cup {NoRoom}
  /\ created \in 0 .. MaxJoins
  /\ peers \in [Objs -> SUBSET Sockets]
  /\ closed \in [Objs -> BOOLEAN]
  /\ routerUp \subseteq Objs
  /\ workerOf \in [Objs -> Workers]
  /\ tracked \subseteq Workers
  /\ seats \subseteq Users
  /\ draining \in BOOLEAN
  /\ connected \subseteq Sockets
  /\ kicked \subseteq Sockets
  /\ evicted \subseteq Sockets
  /\ overtaken \subseteq Sockets
  /\ session \in [Sockets -> Objs \cup {NoRoom}]
  /\ joins \in 0 .. MaxJoins
  /\ join \in [Sockets -> At(JoinPoints)]
  /\ leave \in [Sockets -> At(LeavePoints)]
  /\ closing \in [Closers -> At(ClosePoints)]

Init ==
  /\ current = NoRoom
  /\ created = 0
  /\ peers = [r \in Objs |-> {}]
  /\ closed = [r \in Objs |-> FALSE]
  /\ routerUp = {}
  /\ workerOf \in [Objs -> Workers]
  /\ tracked = {}
  /\ seats = {}
  /\ draining = FALSE
  /\ connected = {}
  /\ kicked = {}
  /\ evicted = {}
  /\ overtaken = {}
  /\ session = [s \in Sockets |-> NoRoom]
  /\ joins = 0
  /\ join = [s \in Sockets |-> Idle]
  /\ leave = [s \in Sockets |-> Idle]
  /\ closing = [c \in Closers |-> Idle]

GoJoin(s, point, r)  == join' = [join EXCEPT ![s] = [at |-> point, room |-> r]]
GoLeave(s, point, r) == leave' = [leave EXCEPT ![s] = [at |-> point, room |-> r]]

-----------------------------------------------------------------------------
(* Sockets and the cluster around the node                                 *)

(* The client connects to the node GET /rooms/:id/node named some time ago *)
(* (RoomRegistry); the room may have another node by now, or none.  A      *)
(* socket id is not used again while the server holds something under it.  *)
Connect(s) ==
  /\ s \notin connected
  /\ join[s] = Idle /\ leave[s] = Idle /\ session[s] = NoRoom
  /\ connected' = connected \cup {s}
  /\ overtaken' = overtaken \ {s}
  /\ UNCHANGED <<roomVars, clusterVars, kicked, session, join, leave, closing, joins, evicted>>

(* beginDrain, or the drain flag being noticed (SfuDrain).                 *)
StartDrain ==
  /\ ~draining
  /\ draining' = TRUE
  /\ UNCHANGED <<roomVars, seats, socketVars>>

(* SEAT_TTL_MS passes; nothing on the node refreshes a seat.               *)
SeatExpires(u) ==
  /\ u \in seats
  /\ seats' = seats \ {u}
  /\ UNCHANGED <<roomVars, draining, socketVars>>

-----------------------------------------------------------------------------
(* onJoin                                                                  *)

(* No session; a draining node takes no room it does not carry.            *)
JoinStart(s) ==
  /\ s \in connected
  /\ joins < MaxJoins
  /\ joins' = joins + 1
  /\ join[s] = Idle
  /\ session[s] = NoRoom
  /\ draining => current # NoRoom
  /\ GoJoin(s, "whereIs", current)
  /\ UNCHANGED <<roomVars, clusterVars, connected, kicked, session, leave, closing, goneVars>>

(* The registry named this node, another one or none.  Another one refuses *)
(* the join unless the room was here, as read before the await.            *)
JoinWhereIs(s) ==
  /\ join[s].at = "whereIs"
  /\ \/ GoJoin(s, "reserving", NoRoom)
     \/ join[s].room = NoRoom /\ GoJoin(s, "idle", NoRoom)
  /\ UNCHANGED <<roomVars, clusterVars, connected, kicked, session, leave, closing, joins, goneVars>>

(* ScheduledRooms.admissionFor may refuse: too early, not on the list...   *)
JoinRefused(s) ==
  /\ join[s].at = "reserving"
  /\ GoJoin(s, "idle", NoRoom)
  /\ UNCHANGED <<roomVars, clusterVars, connected, kicked, session, leave, closing, joins, goneVars>>

SeatFree(u) == u \in seats \/ Cardinality(seats) < Capacity

JoinRoomFull(s) ==
  /\ join[s].at = "reserving"
  /\ ~SeatFree(UserOf[s])
  /\ GoJoin(s, "idle", NoRoom)
  /\ UNCHANGED <<roomVars, clusterVars, connected, kicked, session, leave, closing, joins, goneVars>>

(* addPeer, then the transports are opened.                                *)
EnterRoom(s, r) ==
  /\ peers' = [peers EXCEPT ![r] = @ \cup {s}]
  /\ kicked' = kicked \ {s}
  /\ GoJoin(s, "opening", r)

(* The seat is taken.  A room that exists is joined in the same step;      *)
(* otherwise createRoom checks the drain and waits for a router.           *)
JoinSeated(s) ==
  /\ join[s].at = "reserving"
  /\ SeatFree(UserOf[s])
  /\ seats' = seats \cup {UserOf[s]}
  /\ \/ /\ current # NoRoom
        /\ EnterRoom(s, current)
     \/ /\ current = NoRoom
        /\ GoJoin(s, IF draining THEN "releasing" ELSE "creating", NoRoom)
        /\ UNCHANGED <<peers, kicked>>
  /\ UNCHANGED <<current, created, closed, routerUp, workerOf, tracked,
                 draining, connected, session, leave, closing, joins, goneVars>>

(* createRouter resolved: the router exists and its worker tracks the id.  *)
RouterMade(s) ==
  LET r == created + 1 IN
  /\ join[s].at = "creating" /\ join[s].room = NoRoom
  /\ r \in Objs
  /\ created' = r
  /\ routerUp' = routerUp \cup {r}
  /\ tracked' = tracked \cup {workerOf[r]}
  /\ GoJoin(s, "creating", r)
  /\ UNCHANGED <<current, peers, closed, workerOf, clusterVars, connected, kicked,
                 session, leave, closing, joins, goneVars>>

(* No worker is alive, or it died before the audio level observer existed: *)
(* the join gives its seat back.                                           *)
RouterFailed(s) ==
  /\ join[s].at = "creating" /\ join[s].room \notin routerUp
  /\ GoJoin(s, "releasing", NoRoom)
  /\ UNCHANGED <<roomVars, clusterVars, connected, kicked, session, leave, closing, joins, goneVars>>

(* Mutant of RoomMade: the map is set before the observer exists, and the  *)
(* join still counts as creating.                                          *)
RoomMadeEarly(s) ==
  /\ join[s].at = "creating" /\ join[s].room # NoRoom
  /\ current' = join[s].room
  /\ UNCHANGED <<created, peers, closed, routerUp, workerOf, tracked, clusterVars,
                 connected, kicked, session, join, leave, closing, joins, goneVars>>

(* The observer and the host's defaults are loaded: rooms.set(roomId, room)*)
(* whatever the map holds by now.                                          *)
RoomMade(s) ==
  /\ join[s].at = "creating" /\ join[s].room # NoRoom
  /\ current' = join[s].room
  /\ GoJoin(s, "made", join[s].room)
  /\ UNCHANGED <<created, peers, closed, routerUp, workerOf, tracked, clusterVars,
                 connected, kicked, session, leave, closing, joins, goneVars>>

(* Back in onJoin with the room it made.                                   *)
AddPeer(s) ==
  /\ join[s].at = "made"
  /\ EnterRoom(s, join[s].room)
  /\ UNCHANGED <<current, created, closed, routerUp, workerOf, tracked, clusterVars,
                 connected, session, leave, closing, joins, goneVars>>

(* openMedia resolved: the session is set, the join acknowledged.          *)
JoinDone(s) ==
  /\ join[s].at = "opening"
  /\ join[s].room \in routerUp
  /\ session' = [session EXCEPT ![s] = join[s].room]
  /\ GoJoin(s, "idle", NoRoom)
  /\ UNCHANGED <<roomVars, clusterVars, connected, kicked, leave, closing, joins, goneVars>>

(* Mutant of JoinUndo: the peer is left in the room.                       *)
JoinUndoKeepsPeer(s) ==
  /\ join[s].at = "opening"
  /\ GoJoin(s, "undoing", join[s].room)
  /\ UNCHANGED <<roomVars, clusterVars, connected, kicked, session, leave, closing, joins, goneVars>>

(* openMedia rejected (the router is gone, or no port is left): the peer   *)
(* is removed again.                                                       *)
JoinUndo(s) ==
  /\ join[s].at = "opening"
  /\ peers' = [peers EXCEPT ![join[s].room] = @ \ {s}]
  /\ GoJoin(s, "undoing", join[s].room)
  /\ UNCHANGED <<current, created, closed, routerUp, workerOf, tracked, clusterVars,
                 connected, kicked, session, leave, closing, joins, goneVars>>

(* releaseSeat after a join that created no peer.                          *)
JoinReleased(s) ==
  /\ join[s].at = "releasing"
  /\ seats' = seats \ {UserOf[s]}
  /\ GoJoin(s, "idle", NoRoom)
  /\ UNCHANGED <<roomVars, draining, connected, kicked, session, leave, closing, joins, goneVars>>

-----------------------------------------------------------------------------
(* closeRoom                                                               *)

(* The synchronous start of closeRoom: the object is looked up by id, then *)
(* the recording is finalised.  Nothing happens when the map is empty.     *)
StartClose(c) ==
  closing' = IF current = NoRoom THEN closing
             ELSE [closing EXCEPT ![c] = [at |-> "finalising", room |-> current]]

(* A router that closes removes the room id from its worker's slot.        *)
UntrackedBy(r) == IF r \in routerUp THEN tracked \ {workerOf[r]} ELSE tracked

(* Mutant of CloseRoom: rooms.delete forgotten.                            *)
CloseRoomKeepsEntry(c) ==
  LET r == closing[c].room IN
  /\ closing[c].at = "finalising"
  /\ closed' = [closed EXCEPT ![r] = TRUE]
  /\ peers' = [peers EXCEPT ![r] = {}]
  /\ routerUp' = routerUp \ {r}
  /\ tracked' = UntrackedBy(r)
  /\ closing' = [closing EXCEPT ![c].at = "clearing"]
  /\ UNCHANGED <<current, created, workerOf, clusterVars, connected, kicked, session,
                 join, leave, joins, goneVars>>

(* room.close() of the object looked up before the await, a no-op when it  *)
(* is closed already; then rooms.delete(roomId), whatever object that is.  *)
CloseRoom(c) ==
  LET r == closing[c].room IN
  /\ closing[c].at = "finalising"
  /\ IF closed[r]
     THEN UNCHANGED <<closed, peers, routerUp, tracked>>
     ELSE /\ closed' = [closed EXCEPT ![r] = TRUE]
          /\ peers' = [peers EXCEPT ![r] = {}]
          /\ routerUp' = routerUp \ {r}
          /\ tracked' = UntrackedBy(r)
  /\ current' = NoRoom
  /\ closing' = [closing EXCEPT ![c].at = "clearing"]
  /\ UNCHANGED <<created, workerOf, clusterVars, connected, kicked, session, join, leave, joins, goneVars>>

(* The lesson's blocks are cleared, the registry entry is deleted          *)
(* (RoomRegistry), and closeRoom returns to its caller.                    *)
ReleaseRoom(c) ==
  /\ closing[c].at = "clearing"
  /\ closing' = [closing EXCEPT ![c] = Idle]
  /\ UNCHANGED <<roomVars, clusterVars, connected, kicked, session, join, leave, joins, goneVars>>

(* The enforcer at the end time, ScheduledRooms.end, or closeAllRooms.     *)
EndRoom ==
  LET c == <<Enforcer, Enforcer>> IN
  /\ closing[c] = Idle
  /\ current # NoRoom
  /\ StartClose(c)
  /\ UNCHANGED <<roomVars, clusterVars, connected, kicked, session, join, leave, joins, goneVars>>

(* The seat of the undone join is released; an empty room is closed.       *)
JoinUndone(s) ==
  LET r == join[s].room IN
  /\ join[s].at = "undoing"
  /\ seats' = seats \ {UserOf[s]}
  /\ IF peers[r] = {}
     THEN StartClose(<<"join", s>>) /\ GoJoin(s, "closing", NoRoom)
     ELSE GoJoin(s, "idle", NoRoom) /\ UNCHANGED closing
  /\ UNCHANGED <<roomVars, draining, connected, kicked, session, leave, joins, goneVars>>

JoinFailed(s) ==
  /\ join[s].at = "closing"
  /\ closing[<<"join", s>>] = Idle
  /\ GoJoin(s, "idle", NoRoom)
  /\ UNCHANGED <<roomVars, clusterVars, connected, kicked, session, leave, closing, joins, goneVars>>

-----------------------------------------------------------------------------
(* teardown                                                                *)

(* Mutant of Teardown: socket.data.session is not reset.                   *)
TeardownKeepsSession(s) ==
  /\ session[s] # NoRoom
  /\ leave[s] = Idle
  /\ peers' = [peers EXCEPT ![session[s]] = @ \ {s}]
  /\ GoLeave(s, "releasing", session[s])
  /\ UNCHANGED session

(* The synchronous half: the session is cleared and the peer removed.      *)
Teardown(s) ==
  /\ session[s] # NoRoom
  /\ leave[s] = Idle
  /\ session' = [session EXCEPT ![s] = NoRoom]
  /\ peers' = [peers EXCEPT ![session[s]] = @ \ {s}]
  /\ GoLeave(s, "releasing", session[s])

(* The classroom:leave event.                                              *)
Leave(s) ==
  /\ s \in connected
  /\ Teardown(s)
  /\ UNCHANGED <<current, created, closed, routerUp, workerOf, tracked, clusterVars,
                 connected, kicked, join, closing, joins, goneVars>>

(* The disconnect event.  Without a session teardown returns at once, also *)
(* while onJoin is still waiting for something.                            *)
Disconnect(s) ==
  /\ s \in connected
  /\ connected' = connected \ {s}
  /\ evicted' = evicted \ {s}
  /\ overtaken' = IF join[s].at # "idle" THEN overtaken \cup {s} ELSE overtaken
  /\ \/ Teardown(s)
     \/ session[s] = NoRoom /\ UNCHANGED <<session, peers, leave>>
  /\ UNCHANGED <<current, created, closed, routerUp, workerOf, tracked, clusterVars,
                 kicked, join, closing, joins>>

(* Mutant of LeaveReleased: the emptied room is never closed.              *)
LeaveReleasedKeepsRoom(s) ==
  /\ leave[s].at = "releasing"
  /\ seats' = seats \ {UserOf[s]}
  /\ GoLeave(s, "idle", NoRoom)
  /\ UNCHANGED <<roomVars, draining, connected, kicked, session, join, joins, closing, goneVars>>

(* The seat is released, the ledger written, and the room closed when the  *)
(* object this peer was in is empty.                                       *)
LeaveReleased(s) ==
  /\ leave[s].at = "releasing"
  /\ seats' = seats \ {UserOf[s]}
  /\ IF peers[leave[s].room] = {}
     THEN StartClose(<<"leave", s>>) /\ GoLeave(s, "closing", NoRoom)
     ELSE GoLeave(s, "idle", NoRoom) /\ UNCHANGED closing
  /\ UNCHANGED <<roomVars, draining, connected, kicked, session, join, joins, goneVars>>

LeaveDone(s) ==
  /\ leave[s].at = "closing"
  /\ closing[<<"leave", s>>] = Idle
  /\ GoLeave(s, "idle", NoRoom)
  /\ UNCHANGED <<roomVars, clusterVars, connected, kicked, session, join, closing, joins, goneVars>>

-----------------------------------------------------------------------------
(* ModerationControls.remove by somebody with a session in that Room, who  *)
(* may be the target itself.  onHostAction then disconnects the socket it  *)
(* finds in the room's channel; a socket still joining is not in it yet.   *)
Kick(s) ==
  /\ \E actor \in connected :
       /\ session[actor] # NoRoom
       /\ s \in peers[session[actor]]
       /\ peers' = [peers EXCEPT ![session[actor]] = @ \ {s}]
  /\ kicked' = kicked \cup {s}
  /\ evicted' = IF session[s] # NoRoom THEN evicted \cup {s} ELSE evicted
  /\ UNCHANGED <<current, created, closed, routerUp, workerOf, tracked, clusterVars,
                 connected, session, joins, join, leave, closing, overtaken>>

(* A worker dies with its routers.  handleWorkerLoss drops the object the  *)
(* map holds under each id the slot tracked; the list is empty when the    *)
(* close observers of the routers untracked their ids before "died".  The  *)
(* import in between is of a module already loaded: no event runs first.   *)
WorkerDied(w) ==
  /\ \E r \in routerUp : workerOf[r] = w
  /\ routerUp' = {r \in routerUp : workerOf[r] # w}
  /\ tracked' = tracked \ {w}
  /\ \/ /\ w \in tracked /\ current # NoRoom
        /\ closed' = [closed EXCEPT ![current] = TRUE]
        /\ current' = NoRoom
     \/ UNCHANGED <<closed, current>>
  /\ UNCHANGED <<created, peers, workerOf, clusterVars, socketVars>>

-----------------------------------------------------------------------------
JoinStep(s) ==
  \/ JoinWhereIs(s) \/ JoinRefused(s) \/ JoinRoomFull(s) \/ JoinSeated(s)
  \/ RouterMade(s) \/ RouterFailed(s) \/ RoomMade(s) \/ AddPeer(s)
  \/ JoinDone(s) \/ JoinUndo(s) \/ JoinReleased(s) \/ JoinUndone(s) \/ JoinFailed(s)

LeaveStep(s) == LeaveReleased(s) \/ LeaveDone(s)

CloseStep(c) == CloseRoom(c) \/ ReleaseRoom(c)

Next ==
  \/ \E s \in Sockets :
       \/ Connect(s) \/ JoinStart(s) \/ Leave(s) \/ Disconnect(s) \/ Kick(s)
       \/ JoinStep(s) \/ LeaveStep(s)
  \/ \E c \in Closers : CloseStep(c)
  \/ \E u \in Users : SeatExpires(u)
  \/ \E w \in Workers : WorkerDied(w)
  \/ EndRoom
  \/ StartDrain

Spec == Init /\ [][Next]_vars

(* Every await of a handler is eventually settled: the driver's commands   *)
(* and mediasoup's requests have timeouts.  onHostAction disconnects whom  *)
(* it found.                                                               *)
Fairness ==
  /\ \A s \in Sockets : WF_vars(JoinStep(s)) /\ WF_vars(LeaveStep(s))
  /\ \A s \in Sockets : WF_vars(s \in evicted /\ Disconnect(s))
  /\ \A c \in Closers : WF_vars(CloseStep(c))

FairSpec == Spec /\ Fairness

-----------------------------------------------------------------------------
(* getRoom never hands out a closed room: onJoin uses what the map holds   *)
(* without looking at room.closed.                                         *)
MapHoldsOpenRoom == current # NoRoom => ~closed[current]

(* Someone with a session is in the room of that session while it is open, *)
(* unless a moderator removed them.                                        *)
SessionIsInItsRoom ==
  \A s \in Sockets :
    LET r == session[s] IN
    (r # NoRoom /\ ~closed[r] /\ s \notin kicked) => s \in peers[r]

(* Nobody is stranded in a Room: a peer has a session there that the      *)
(* disconnect of its socket will end, or an onJoin that is opening its     *)
(* transports.  The one way to be left behind is to disconnect while that  *)
(* onJoin runs: teardown then finds no session, and onJoin sets one after. *)
NobodyIsStranded ==
  \A r \in Objs : \A s \in peers[r] :
    /\ s \in connected \cup overtaken
    /\ session[s] = r \/ (join[s].at = "opening" /\ join[s].room = r)

(* The map's room is not left behind empty: when the last peer is gone,    *)
(* some teardown or undone join closes it or somebody comes in.            *)
EmptyRoomIsClosed ==
  \A r \in Objs :
    (current = r /\ peers[r] = {}) ~> (current # r \/ peers[r] # {})

-----------------------------------------------------------------------------
(* What the safety properties need to be inductive.                        *)

(* onJoin sets the session last, and refuses a socket that has one.        *)
JoiningHasNoSession == \A s \in Sockets : join[s].at # "idle" => session[s] = NoRoom

(* The peer of a join that opens its transports is in its room while that  *)
(* is open, unless a moderator removed it.                                 *)
OpeningIsInItsRoom ==
  \A s \in Sockets :
    LET r == join[s].room IN
    (join[s].at = "opening" /\ ~closed[r] /\ s \notin kicked) => s \in peers[r]

(* A peer belongs to a session, or to a join that opens its transports,    *)
(* also when its socket is gone.                                           *)
PeersBelong ==
  \A r \in Objs : \A s \in peers[r] :
    session[s] = r \/ (join[s].at = "opening" /\ join[s].room = r)

(* A socket that is gone holds a session or an onJoin only if it went      *)
(* during that onJoin.                                                     *)
GoneWereJoining ==
  \A s \in Sockets \ connected :
    (session[s] # NoRoom \/ join[s].at # "idle") => s \in overtaken

(* References are to Room objects that exist.                              *)
HasNewRoom(s) == join[s].at = "creating" /\ join[s].room # NoRoom

RoomsExist ==
  /\ current <= created
  /\ \A c \in Closers : closing[c].room <= created
  /\ \A s \in Sockets : HasNewRoom(s) => join[s].room <= created
  /\ \A r \in Objs : r > created => ~closed[r]

(* A Room that is not in the map yet is known only to the join making it.  *)
NewRoomIsPrivate ==
  \A s \in Sockets : HasNewRoom(s) =>
    /\ ~closed[join[s].room]
    /\ current # join[s].room
    /\ \A c \in Closers : closing[c].room # join[s].room
    /\ \A t \in Sockets \ {s} : HasNewRoom(t) => join[t].room # join[s].room

(* A step that waits for its own answer holds a Room object.               *)
PointsHoldRooms ==
  /\ \A s \in Sockets : join[s].at \in {"made", "opening", "undoing"} => join[s].room # NoRoom
  /\ \A s \in Sockets : leave[s].at = "releasing" => leave[s].room # NoRoom
  /\ \A c \in Closers : closing[c].at # "idle" => closing[c].room # NoRoom

IInv ==
  /\ TypeOK
  /\ PointsHoldRooms
  /\ JoiningHasNoSession
  /\ OpeningIsInItsRoom
  /\ RoomsExist
  /\ NewRoomIsPrivate
  /\ MapHoldsOpenRoom
  /\ SessionIsInItsRoom
  /\ PeersBelong

-----------------------------------------------------------------------------
(* What comments of the code say, and the code does not keep.              *)

(* "A room lives on exactly one node, because its peers share one router"  *)
(* (socketHandlers.js): two people in open rooms of this id are in the     *)
(* same Room object.                                                       *)
PeersShareOneRouter ==
  \A s, t \in Sockets :
    LET In(x) == session[x] # NoRoom /\ ~closed[session[x]] IN
    In(s) /\ In(t) => session[s] = session[t]

(* A leave or an undone join closes the room "when it was the only one"    *)
(* (socketHandlers.js): the Room that closeRoom closes for it is empty.    *)
OnlyEmptyRoomIsClosed ==
  [][\A c \in Closers \ {<<Enforcer, Enforcer>>} :
       LET r == closing[c].room IN
       (closing[c].at = "finalising" /\ closing'[c].at = "clearing")
         => (closed[r] \/ peers[r] = {})]_vars

(* "People connected to this node" (RoomManager.js, getPeerCount): a peer  *)
(* whose socket is gone does not stay in the room.                         *)
PeersAreConnected ==
  \A s \in Sockets : s \notin connected ~> \A r \in Objs : s \notin peers[r]

(* "a long lesson does not expire seats out from under people who are      *)
(* still in it" (CapacityGuard.js).                                        *)
SeatedWhileInRoom ==
  \A s \in connected : session[s] # NoRoom => UserOf[s] \in seats

(* "A draining node must not take new work ... no code path can skip them" *)
(* (RoomManager.js, createRoom).                                           *)
NoNewRoomWhileDraining ==
  [][(draining /\ current = NoRoom) => current' = NoRoom]_vars
=============================================================================
