------------------------ MODULE RoomLifecycleProofs ------------------------
(***************************************************************************)
(* The safety properties of RoomLifecycle, for any number of sockets,      *)
(* users, workers and joins.  IInv is inductive; the properties are        *)
(* conjuncts of it or follow from it.                                      *)
(***************************************************************************)
EXTENDS RoomLifecycle, TLAPS

(* A node that has just started, with no room and no socket, satisfies     *)
(* the inductive invariant.                                                *)
LEMMA InitEstablishes == Init => IInv
<1> SUFFICES ASSUME Init PROVE IInv
  OBVIOUS
<1> USE MaxJoinsIsNat DEF Init, Objs, NoRoom, Idle, HasNewRoom
<1>1. TypeOK
  <2>1. /\ peers \in [Objs -> SUBSET Sockets]
        /\ closed \in [Objs -> BOOLEAN]
        /\ workerOf \in [Objs -> Workers]
        /\ session \in [Sockets -> Objs \cup {NoRoom}]
    OBVIOUS
  <2>2. /\ join \in [Sockets -> At(JoinPoints)]
        /\ leave \in [Sockets -> At(LeavePoints)]
        /\ closing \in [Closers -> At(ClosePoints)]
    BY DEF At, JoinPoints, LeavePoints, ClosePoints
  <2>3. draining \in BOOLEAN
    BY Zenon
  <2>4. current \in Objs \cup {NoRoom} /\ created \in 0 .. MaxJoins /\ joins \in 0 .. MaxJoins
    OBVIOUS
  <2>5. routerUp \subseteq Objs /\ tracked \subseteq Workers /\ seats \subseteq Users
    BY Zenon
  <2>6. /\ connected \subseteq Sockets /\ kicked \subseteq Sockets
        /\ evicted \subseteq Sockets /\ overtaken \subseteq Sockets
    BY Zenon
  <2> QED
    BY <2>1, <2>2, <2>3, <2>4, <2>5, <2>6, Zenon DEF TypeOK
<1>2. PointsHoldRooms
  BY DEF PointsHoldRooms
<1>3. JoiningHasNoSession
  BY DEF JoiningHasNoSession
<1>4. OpeningIsInItsRoom
  BY DEF OpeningIsInItsRoom
<1>5. RoomsExist
  BY DEF RoomsExist
<1>6. NewRoomIsPrivate
  BY DEF NewRoomIsPrivate
<1>7. MapHoldsOpenRoom
  BY DEF MapHoldsOpenRoom
<1>8. SessionIsInItsRoom
  BY DEF SessionIsInItsRoom
<1>9. PeersBelong
  BY DEF PeersBelong
<1> QED
  BY <1>1, <1>2, <1>3, <1>4, <1>5, <1>6, <1>7, <1>8, <1>9 DEF IInv

(* Every step between two awaits of onJoin, teardown and closeRoom, and    *)
(* every worker loss, keeps it.                                            *)
LEMMA StepPreserves == IInv /\ [Next]_vars => IInv'
<1> SUFFICES ASSUME IInv, [Next]_vars PROVE IInv'
  OBVIOUS
<1> USE MaxJoinsIsNat DEF IInv, TypeOK, PointsHoldRooms, JoiningHasNoSession, OpeningIsInItsRoom,
       RoomsExist, HasNewRoom, NewRoomIsPrivate, MapHoldsOpenRoom, SessionIsInItsRoom,
       PeersBelong, Objs, NoRoom, At, Idle, JoinPoints, LeavePoints, ClosePoints,
       roomVars, clusterVars, socketVars, goneVars, GoJoin, GoLeave, EnterRoom, Teardown
<1>1. ASSUME NEW s \in Sockets, Connect(s) PROVE IInv'
  BY <1>1, SMTT(20) DEF Connect
<1>2. ASSUME NEW s \in Sockets, JoinStart(s) PROVE IInv'
  BY <1>2, SMTT(20) DEF JoinStart
<1>3. ASSUME NEW s \in Sockets, Leave(s) PROVE IInv'
  BY <1>3, SMTT(20) DEF Leave
<1>4. ASSUME NEW s \in Sockets, Disconnect(s) PROVE IInv'
  <2>1. CASE Teardown(s)
    BY <1>4, <2>1, SMTT(30) DEF Disconnect
  <2>2. CASE session[s] = NoRoom /\ UNCHANGED <<session, peers, leave>>
    BY <1>4, <2>2, SMTT(30) DEF Disconnect
  <2> QED
    BY <1>4, <2>1, <2>2 DEF Disconnect
<1>5. ASSUME NEW s \in Sockets, Kick(s) PROVE IInv'
  BY <1>5, SMTT(20) DEF Kick
<1>6. ASSUME NEW s \in Sockets, JoinWhereIs(s) PROVE IInv'
  <2>1. CASE GoJoin(s, "idle", NoRoom)
    BY <1>6, <2>1, SMTT(30) DEF JoinWhereIs
  <2>2. CASE GoJoin(s, "reserving", NoRoom)
    BY <1>6, <2>2, SMTT(30) DEF JoinWhereIs
  <2> QED
    BY <1>6, <2>1, <2>2 DEF JoinWhereIs
<1>7. ASSUME NEW s \in Sockets, JoinRefused(s) PROVE IInv'
  BY <1>7, SMTT(20) DEF JoinRefused
<1>8. ASSUME NEW s \in Sockets, JoinRoomFull(s) PROVE IInv'
  BY <1>8, SMTT(20) DEF JoinRoomFull
<1>9. ASSUME NEW s \in Sockets, JoinSeated(s) PROVE IInv'
  <2>a. seats' = seats \cup {UserOf[s]} /\ UserOf[s] \in Users
    BY <1>9, UserOfType DEF JoinSeated
  <2>b. seats' \subseteq Users
    BY <2>a
  <2>1. CASE current # NoRoom
    <3>1. join[s].at = "reserving" /\ seats' \subseteq Users /\ current # NoRoom
      BY <1>9, <2>1, <2>b DEF JoinSeated, EnterRoom, GoJoin
    <3>2. /\ EnterRoom(s, current)
          /\ UNCHANGED <<current, created, closed, routerUp, workerOf, tracked, draining,
                         connected, session, joins, goneVars, leave, closing>>
      BY <1>9, <2>1, <2>b DEF JoinSeated, EnterRoom, GoJoin
    <3> QED
      BY <3>1, <3>2, SMTT(30)
  <2>2. CASE current = NoRoom /\ draining
    <3>1. join[s].at = "reserving" /\ seats' \subseteq Users
      BY <1>9, <2>2, <2>b DEF JoinSeated, EnterRoom, GoJoin
    <3>2. /\ GoJoin(s, "releasing", NoRoom)
          /\ UNCHANGED <<current, created, closed, routerUp, workerOf, tracked, draining,
                         connected, session, joins, goneVars, leave, closing, peers, kicked>>
      BY <1>9, <2>2, <2>b DEF JoinSeated, EnterRoom, GoJoin
    <3> QED
      BY <3>1, <3>2, SMTT(30)
  <2>3. CASE current = NoRoom /\ ~draining
    <3>1. join[s].at = "reserving" /\ seats' \subseteq Users
      BY <1>9, <2>3, <2>b DEF JoinSeated, EnterRoom, GoJoin
    <3>2. /\ GoJoin(s, "creating", NoRoom)
          /\ UNCHANGED <<current, created, closed, routerUp, workerOf, tracked, draining,
                         connected, session, joins, goneVars, leave, closing, peers, kicked>>
      BY <1>9, <2>3, <2>b DEF JoinSeated, EnterRoom, GoJoin
    <3> QED
      BY <3>1, <3>2, SMTT(30)
  <2> QED
    BY <1>9, <2>1, <2>2, <2>3 DEF JoinSeated
<1>10. ASSUME NEW s \in Sockets, RouterMade(s) PROVE IInv'
  <2>1. TypeOK'
    BY <1>10, SMTT(20) DEF RouterMade
  <2>2. PointsHoldRooms'
    BY <1>10, SMTT(20) DEF RouterMade
  <2>3. JoiningHasNoSession'
    BY <1>10, SMTT(20) DEF RouterMade
  <2>4. OpeningIsInItsRoom'
    BY <1>10, SMTT(20) DEF RouterMade
  <2>5. RoomsExist'
    <3>1. created' = created + 1 /\ current' = current /\ closed' = closed /\ closing' = closing
      BY <1>10 DEF RouterMade
    <3>2. current' <= created' /\ \A c \in Closers : closing'[c].room <= created'
      BY <3>1
    <3>3. \A r \in Objs : r > created' => ~closed'[r]
      BY <3>1
    <3>4. \A t \in Sockets : HasNewRoom(t)' => join'[t].room <= created'
      <4> TAKE t \in Sockets
      <4>1. CASE t = s
        BY <1>10, <4>1, <3>1 DEF RouterMade
      <4>2. CASE t # s
        BY <1>10, <4>2, <3>1 DEF RouterMade
      <4> QED
        BY <4>1, <4>2
    <3> QED
      BY <3>2, <3>3, <3>4
  <2>6. NewRoomIsPrivate'
    BY <1>10, SMTT(20) DEF RouterMade
  <2>7. MapHoldsOpenRoom'
    BY <1>10, SMTT(20) DEF RouterMade
  <2>8. SessionIsInItsRoom'
    BY <1>10, SMTT(20) DEF RouterMade
  <2>9. PeersBelong'
    BY <1>10, SMTT(20) DEF RouterMade
  <2> QED
    BY <2>1, <2>2, <2>3, <2>4, <2>5, <2>6, <2>7, <2>8, <2>9 DEF IInv
<1>11. ASSUME NEW s \in Sockets, RouterFailed(s) PROVE IInv'
  BY <1>11, SMTT(20) DEF RouterFailed
<1>12. ASSUME NEW s \in Sockets, RoomMade(s) PROVE IInv'
  BY <1>12, SMTT(20) DEF RoomMade
<1>13. ASSUME NEW s \in Sockets, AddPeer(s) PROVE IInv'
  BY <1>13, SMTT(20) DEF AddPeer
<1>14. ASSUME NEW s \in Sockets, JoinDone(s) PROVE IInv'
  BY <1>14, SMTT(20) DEF JoinDone
<1>15. ASSUME NEW s \in Sockets, JoinUndo(s) PROVE IInv'
  BY <1>15, SMTT(20) DEF JoinUndo
<1>16. ASSUME NEW s \in Sockets, JoinReleased(s) PROVE IInv'
  BY <1>16, SMTT(20) DEF JoinReleased
<1>17. ASSUME NEW s \in Sockets, JoinUndone(s) PROVE IInv'
  <2>1. <<"join", s>> \in Closers
    BY DEF Closers
  <2>2. CASE peers[join[s].room] = {} /\ current = NoRoom
    <3>1. join[s].at = "undoing" /\ seats' \subseteq Users
      BY <1>17, <2>2, UserOfType DEF JoinUndone, StartClose
    <3>2. /\ GoJoin(s, "closing", NoRoom)
          /\ UNCHANGED <<roomVars, draining, connected, kicked, session, joins, goneVars,
                         leave, closing>>
      BY <1>17, <2>2, UserOfType DEF JoinUndone, StartClose
    <3> QED
      BY <3>1, <3>2, <2>1, SMTT(30)
  <2>3. CASE peers[join[s].room] = {} /\ current # NoRoom
    <3>1. join[s].at = "undoing" /\ seats' \subseteq Users /\ current # NoRoom
      BY <1>17, <2>3, UserOfType DEF JoinUndone, StartClose
    <3>2. GoJoin(s, "closing", NoRoom)
          /\ closing' = [closing EXCEPT ![<<"join", s>>] = [at |-> "finalising", room |-> current]]
      BY <1>17, <2>3, UserOfType DEF JoinUndone, StartClose
    <3>3. UNCHANGED <<roomVars, draining, connected, kicked, session, joins, goneVars, leave>>
      BY <1>17, <2>3, UserOfType DEF JoinUndone, StartClose
    <3> QED
      BY <3>1, <3>2, <3>3, <2>1, SMTT(30)
  <2>4. CASE peers[join[s].room] # {}
    <3>1. join[s].at = "undoing" /\ seats' \subseteq Users
      BY <1>17, <2>4, UserOfType DEF JoinUndone, StartClose
    <3>2. /\ GoJoin(s, "idle", NoRoom)
          /\ UNCHANGED <<roomVars, draining, connected, kicked, session, joins, goneVars,
                         leave, closing>>
      BY <1>17, <2>4, UserOfType DEF JoinUndone, StartClose
    <3> QED
      BY <3>1, <3>2, <2>1, SMTT(30)
  <2> QED
    BY <1>17, <2>2, <2>3, <2>4 DEF JoinUndone
<1>18. ASSUME NEW s \in Sockets, JoinFailed(s) PROVE IInv'
  BY <1>18, SMTT(20) DEF JoinFailed
<1>19. ASSUME NEW s \in Sockets, LeaveReleased(s) PROVE IInv'
  <2>1. <<"leave", s>> \in Closers
    BY DEF Closers
  <2>2. CASE peers[leave[s].room] = {} /\ current = NoRoom
    <3>1. leave[s].at = "releasing" /\ seats' \subseteq Users
      BY <1>19, <2>2, UserOfType DEF LeaveReleased, StartClose
    <3>2. /\ GoLeave(s, "closing", NoRoom)
          /\ UNCHANGED <<roomVars, draining, connected, kicked, session, joins, goneVars,
                         join, closing>>
      BY <1>19, <2>2, UserOfType DEF LeaveReleased, StartClose
    <3> QED
      BY <3>1, <3>2, <2>1, SMTT(30)
  <2>3. CASE peers[leave[s].room] = {} /\ current # NoRoom
    <3>1. leave[s].at = "releasing" /\ seats' \subseteq Users /\ current # NoRoom
      BY <1>19, <2>3, UserOfType DEF LeaveReleased, StartClose
    <3>2. GoLeave(s, "closing", NoRoom)
          /\ closing' = [closing EXCEPT ![<<"leave", s>>] = [at |-> "finalising", room |-> current]]
      BY <1>19, <2>3, UserOfType DEF LeaveReleased, StartClose
    <3>3. UNCHANGED <<roomVars, draining, connected, kicked, session, joins, goneVars, join>>
      BY <1>19, <2>3, UserOfType DEF LeaveReleased, StartClose
    <3> QED
      BY <3>1, <3>2, <3>3, <2>1, SMTT(30)
  <2>4. CASE peers[leave[s].room] # {}
    <3>1. leave[s].at = "releasing" /\ seats' \subseteq Users
      BY <1>19, <2>4, UserOfType DEF LeaveReleased, StartClose
    <3>2. /\ GoLeave(s, "idle", NoRoom)
          /\ UNCHANGED <<roomVars, draining, connected, kicked, session, joins, goneVars,
                         join, closing>>
      BY <1>19, <2>4, UserOfType DEF LeaveReleased, StartClose
    <3> QED
      BY <3>1, <3>2, <2>1, SMTT(30)
  <2> QED
    BY <1>19, <2>2, <2>3, <2>4 DEF LeaveReleased
<1>20. ASSUME NEW s \in Sockets, LeaveDone(s) PROVE IInv'
  BY <1>20, SMTT(20) DEF LeaveDone
<1>21. ASSUME NEW c \in Closers, CloseRoom(c) PROVE IInv'
  <2>1. CASE closed[closing[c].room]
    <3>1. closing[c].at = "finalising" /\ current' = NoRoom
      BY <1>21, <2>1 DEF CloseRoom, UntrackedBy
    <3>2. /\ closing' = [closing EXCEPT ![c].at = "clearing"]
          /\ UNCHANGED <<created, workerOf, clusterVars, connected, kicked, session, join, leave,
                         joins, goneVars>>
      BY <1>21, <2>1 DEF CloseRoom, UntrackedBy
    <3>3. UNCHANGED <<closed, peers, routerUp, tracked>>
      BY <1>21, <2>1 DEF CloseRoom, UntrackedBy
    <3> QED
      BY <3>1, <3>2, <3>3, SMTT(30)
  <2>2. CASE ~closed[closing[c].room]
    <3>1. closing[c].at = "finalising" /\ current' = NoRoom
      BY <1>21, <2>2 DEF CloseRoom, UntrackedBy
    <3>2. /\ closing' = [closing EXCEPT ![c].at = "clearing"]
          /\ UNCHANGED <<created, workerOf, clusterVars, connected, kicked, session, join, leave,
                         joins, goneVars>>
      BY <1>21, <2>2 DEF CloseRoom, UntrackedBy
    <3>3. closed' = [closed EXCEPT ![closing[c].room] = TRUE] /\ peers' = [peers EXCEPT ![closing[c].room] = {}]
      BY <1>21, <2>2 DEF CloseRoom, UntrackedBy
    <3>4. routerUp' \subseteq Objs /\ tracked' \subseteq Workers
      BY <1>21, <2>2 DEF CloseRoom, UntrackedBy
    <3>5. TypeOK'
      <4>1. closing[c].room \in Objs
        BY <3>1 DEF IInv, PointsHoldRooms, TypeOK, At
      <4>2. /\ current' \in Objs \cup {NoRoom}
            /\ closed' \in [Objs -> BOOLEAN]
            /\ peers' \in [Objs -> SUBSET Sockets]
        BY <3>1, <3>3, <4>1 DEF IInv, TypeOK
      <4>3. closing' \in [Closers -> At(ClosePoints)]
        BY <3>1, <3>2, <4>1 DEF IInv, TypeOK, At, ClosePoints
      <4> QED
        BY <3>2, <3>4, <4>2, <4>3 DEF TypeOK, clusterVars
    <3>6. PointsHoldRooms' /\ JoiningHasNoSession' /\ OpeningIsInItsRoom'
      BY <3>1, <3>2, <3>3, SMTT(30)
    <3>7. RoomsExist' /\ NewRoomIsPrivate' /\ MapHoldsOpenRoom'
      BY <3>1, <3>2, <3>3, SMTT(30)
    <3>8. SessionIsInItsRoom'
      BY <3>2, <3>3, SMTT(30)
    <3>9. PeersBelong'
      BY <3>2, <3>3, SMTT(30)
    <3> QED
      BY <3>5, <3>6, <3>7, <3>8, <3>9
  <2> QED
    BY <1>21, <2>1, <2>2 DEF CloseRoom
<1>22. ASSUME NEW c \in Closers, ReleaseRoom(c) PROVE IInv'
  BY <1>22, SMTT(20) DEF ReleaseRoom
<1>23. ASSUME NEW w \in Workers, WorkerDied(w) PROVE IInv'
  <2>1. CASE UNCHANGED <<closed, current>>
    <3>1. routerUp' \subseteq Objs /\ tracked' \subseteq Workers
      BY <1>23, <2>1 DEF WorkerDied
    <3>2. UNCHANGED <<created, peers, workerOf, clusterVars, socketVars, closed, current>>
      BY <1>23, <2>1 DEF WorkerDied
    <3> QED
      BY <3>1, <3>2, SMTT(30)
  <2>2. CASE current # NoRoom /\ closed' = [closed EXCEPT ![current] = TRUE] /\ current' = NoRoom
    <3>1. current # NoRoom /\ closed' = [closed EXCEPT ![current] = TRUE] /\ current' = NoRoom
      BY <1>23, <2>2 DEF WorkerDied
    <3>2. routerUp' \subseteq Objs /\ tracked' \subseteq Workers
      BY <1>23, <2>2 DEF WorkerDied
    <3>3. UNCHANGED <<created, peers, workerOf, clusterVars, socketVars>>
      BY <1>23, <2>2 DEF WorkerDied
    <3> QED
      BY <3>1, <3>2, <3>3, SMTT(30)
  <2> QED
    BY <1>23, <2>1, <2>2 DEF WorkerDied
<1>24. ASSUME NEW u \in Users, SeatExpires(u) PROVE IInv'
  BY <1>24, SMTT(20) DEF SeatExpires
<1>25. CASE EndRoom
  <2>1. <<Enforcer, Enforcer>> \in Closers
    BY DEF Closers
  <2>2. TypeOK'
    BY <1>25, <2>1, SMTT(20) DEF EndRoom, StartClose
  <2>3. PointsHoldRooms'
    BY <1>25, <2>1, SMTT(20) DEF EndRoom, StartClose
  <2>4. JoiningHasNoSession'
    BY <1>25, <2>1, SMTT(20) DEF EndRoom, StartClose
  <2>5. OpeningIsInItsRoom'
    BY <1>25, <2>1, SMTT(20) DEF EndRoom, StartClose
  <2>6. RoomsExist'
    BY <1>25, <2>1, SMTT(20) DEF EndRoom, StartClose
  <2>7. NewRoomIsPrivate'
    BY <1>25, <2>1, SMTT(20) DEF EndRoom, StartClose
  <2>8. MapHoldsOpenRoom'
    BY <1>25, <2>1, SMTT(20) DEF EndRoom, StartClose
  <2>9. SessionIsInItsRoom'
    BY <1>25, <2>1, SMTT(20) DEF EndRoom, StartClose
  <2>10. PeersBelong'
    BY <1>25, <2>1, SMTT(20) DEF EndRoom, StartClose
  <2> QED
    BY <2>2, <2>3, <2>4, <2>5, <2>6, <2>7, <2>8, <2>9, <2>10 DEF IInv
<1>26. CASE StartDrain
  BY <1>26, SMTT(20) DEF StartDrain
<1>27. CASE UNCHANGED vars
  BY <1>27, SMTT(20) DEF vars
<1> QED
  BY <1>1, <1>2, <1>3, <1>4, <1>5, <1>6, <1>7, <1>8, <1>9, <1>10, <1>11, <1>12,
     <1>13, <1>14, <1>15, <1>16, <1>17, <1>18, <1>19, <1>20, <1>21, <1>22, <1>23, <1>24,
     <1>25, <1>26, <1>27
     DEF Next, JoinStep, LeaveStep, CloseStep

(* In every reachable state the map, the Rooms, their peers, the sessions  *)
(* and the joins in flight agree, at whichever await each handler stands.  *)
THEOREM InvariantHolds == Spec => []IInv
BY InitEstablishes, StepPreserves, PTL DEF Spec

(* getRoom never hands onJoin a closed Room, whatever the interleaving of  *)
(* closeRoom, handleWorkerLoss and the joins that make Rooms.              *)
THEOREM MapStaysOpen == Spec => []MapHoldsOpenRoom
<1>1. IInv => MapHoldsOpenRoom
  BY DEF IInv
<1> QED
  BY <1>1, InvariantHolds, PTL

(* A session refers to a Room that still holds its peer, unless the Room   *)
(* is closed or a moderator removed the peer.                              *)
THEOREM SessionsAreInTheirRooms == Spec => []SessionIsInItsRoom
<1>1. IInv => SessionIsInItsRoom
  BY DEF IInv
<1> QED
  BY <1>1, InvariantHolds, PTL

(* Only a disconnect during onJoin leaves something of a socket behind.    *)
LEMMA GoneStep == IInv /\ GoneWereJoining /\ [Next]_vars => GoneWereJoining'
<1> SUFFICES ASSUME IInv, GoneWereJoining, [Next]_vars, NEW s \in Sockets,
                    s \notin connected', session'[s] # NoRoom \/ join'[s].at # "idle"
             PROVE  s \in overtaken'
  BY DEF GoneWereJoining
<1> USE DEF IInv, TypeOK, GoneWereJoining, At, Idle, NoRoom, GoJoin, GoLeave, EnterRoom, Teardown,
        clusterVars, socketVars, goneVars
<1>1. ASSUME NEW t \in Sockets, Connect(t) \/ Leave(t) \/ Disconnect(t) \/ Kick(t)
      PROVE  s \in overtaken'
  <2>1. CASE Connect(t)
    BY <2>1 DEF Connect
  <2>2. CASE Leave(t)
    BY <2>2 DEF Leave
  <2>3. CASE Disconnect(t)
    BY <2>3 DEF Disconnect
  <2>4. CASE Kick(t)
    BY <2>4 DEF Kick
  <2> QED
    BY <1>1, <2>1, <2>2, <2>3, <2>4
<1>2. ASSUME NEW t \in Sockets, JoinStart(t) PROVE s \in overtaken'
  BY <1>2 DEF JoinStart
<1>3. ASSUME NEW t \in Sockets, JoinStep(t) PROVE s \in overtaken'
  <2>1. /\ UNCHANGED <<connected, goneVars>> /\ join[t].at # "idle"
        /\ \A x \in Sockets \ {t} : join'[x] = join[x] /\ session'[x] = session[x]
    BY <1>3 DEF JoinStep, JoinWhereIs, JoinRefused, JoinRoomFull, JoinSeated, RouterMade,
       RouterFailed, RoomMade, AddPeer, JoinDone, JoinUndo, JoinReleased, JoinUndone, JoinFailed
  <2> QED
    BY <2>1
<1>4. ASSUME NEW t \in Sockets, LeaveStep(t) PROVE s \in overtaken'
  BY <1>4 DEF LeaveStep, LeaveReleased, LeaveDone
<1>5. ASSUME NEW c \in Closers, CloseStep(c) PROVE s \in overtaken'
  BY <1>5 DEF CloseStep, CloseRoom, ReleaseRoom
<1>6. CASE \/ \E u \in Users : SeatExpires(u)
           \/ \E w \in Workers : WorkerDied(w)
           \/ EndRoom \/ StartDrain \/ UNCHANGED vars
  BY <1>6 DEF SeatExpires, WorkerDied, EndRoom, StartDrain, vars
<1> QED
  BY <1>1, <1>2, <1>3, <1>4, <1>5, <1>6 DEF Next

(* Nobody is stranded in a Room, for any number of sockets and Rooms,      *)
(* except by disconnecting while their own onJoin ran.                     *)
THEOREM NobodyLeftBehind == Spec => []NobodyIsStranded
<1>1. Init => GoneWereJoining
  BY DEF Init, GoneWereJoining, Idle
<1>2. IInv /\ GoneWereJoining => NobodyIsStranded
  BY DEF IInv, PeersBelong, GoneWereJoining, NobodyIsStranded, TypeOK, Objs, NoRoom
<1> QED
  BY <1>1, <1>2, GoneStep, InvariantHolds, PTL DEF Spec
=============================================================================
