--------------------------- MODULE ClusterProofs ---------------------------
(***************************************************************************)
(* Proofs about the three components that share Redis among the tasks of   *)
(* the cluster: the seat hash, for every set of users, every capacity and  *)
(* every TTL; the room index, for every set of people and nodes; and the   *)
(* drain controller, for any number of people on the node and of attempts, *)
(* whoever writes the flag.                                                *)
(***************************************************************************)
EXTENDS SeatReservation, RoomRegistry, SfuDrain, FiniteSetTheorems, TLAPS

-----------------------------------------------------------------------------
(* The seat hash                                                           *)

(* Pruning a hash and adding one caller who found a seat free keeps the    *)
(* learners within the capacity.                                           *)
LEMMA ScriptKeepsCapacity ==
  ASSUME SeatInv, NEW c \in calls
  PROVE  Cardinality(DOMAIN HashAfter(c) \ Moderators) <= Capacity
<1> DEFINE live == Live(c.now)
<1>1. /\ IsFiniteSet(Holders) /\ IsFiniteSet(live)
      /\ live \subseteq Holders
      /\ IsFiniteSet(Holders \ Moderators)
      /\ Cardinality(live) \in Nat /\ Cardinality(Holders \ Moderators) \in Nat
  BY UsersFinite, FS_Subset, FS_CardinalityType DEF SeatInv, SeatTypeOK, Live
<1>2. Cardinality(live \ Moderators) <= Capacity
  <2>1. live \ Moderators \subseteq Holders \ Moderators
    BY <1>1
  <2>2. /\ Cardinality(live \ Moderators) \in Nat
        /\ Cardinality(live \ Moderators) <= Cardinality(Holders \ Moderators)
    BY <1>1, <2>1, FS_Subset, FS_CardinalityType
  <2>3. QED
    BY <1>1, <2>2, LimitsBound DEF SeatInv, LearnersWithinCapacity
<1>3. CASE ~Granted(c)
  <2>1. DOMAIN HashAfter(c) = live
    BY <1>3 DEF HashAfter
  <2>2. QED
    BY <1>2, <2>1
<1>4. CASE Granted(c) /\ (c.user \in Moderators \/ c.user \in live)
  <2>1. DOMAIN HashAfter(c) = live \cup {c.user}
    BY <1>4 DEF HashAfter
  <2>2. DOMAIN HashAfter(c) \ Moderators = live \ Moderators
    BY <1>4, <2>1
  <2>3. QED
    BY <1>2, <2>2
<1>5. CASE Granted(c) /\ c.user \notin Moderators /\ c.user \notin live
  <2>1. DOMAIN HashAfter(c) = live \cup {c.user}
    BY <1>5 DEF HashAfter
  <2>2. c.limit \in 1 .. Capacity
    BY <1>5 DEF SeatInv, CallsFromThePast
  <2>3. Cardinality(live) < c.limit
    BY <1>5, <2>2 DEF Granted
  <2>4. /\ IsFiniteSet(live \cup {c.user})
        /\ Cardinality(live \cup {c.user}) = Cardinality(live) + 1
    BY <1>1, <1>5, FS_AddElement
  <2>5. /\ Cardinality(DOMAIN HashAfter(c) \ Moderators) \in Nat
        /\ Cardinality(DOMAIN HashAfter(c) \ Moderators) <= Cardinality(live \cup {c.user})
    <3>1. DOMAIN HashAfter(c) \ Moderators \subseteq live \cup {c.user}
      BY <2>1
    <3>2. QED
      BY <2>4, <3>1, FS_Subset, FS_CardinalityType
  <2>6. QED
    BY <1>1, <2>2, <2>3, <2>4, <2>5, LimitsBound
<1>6. QED
  BY <1>3, <1>4, <1>5

(* The initial hash is empty.                                              *)
LEMMA SeatInitEstablishes == SeatInit => SeatInv
<1> SUFFICES ASSUME SeatInit PROVE SeatInv
  OBVIOUS
<1>1. SeatTypeOK
  BY BoundsAreNat DEF SeatInit, SeatTypeOK, Holders
<1>2. Cardinality(Holders \ Moderators) = 0
  <2>1. Holders \ Moderators = {}
    BY DEF SeatInit, Holders
  <2>2. QED
    BY <2>1, FS_EmptySet
<1>3. QED
  BY <1>1, <1>2, LimitsBound
  DEF SeatInv, SeatInit, Holders, CallsFromThePast, LearnersWithinCapacity,
      SeatsExpireInTime, KeyOutlivesSeats

(* Every step of the seat hash preserves the inductive invariant.          *)
LEMMA SeatStepPreserves == SeatInv /\ [SeatNext]_seatVars => SeatInv'
<1> SUFFICES ASSUME SeatInv, [SeatNext]_seatVars PROVE SeatInv'
  OBVIOUS
<1> USE DEF Holders
<1>a. TTL \in Nat /\ TTL > 0 /\ MaxTime \in Nat /\ clock \in Nat
  BY TTLPositive, BoundsAreNat DEF SeatInv, SeatTypeOK
<1>1. CASE Tick
  BY <1>1, <1>a DEF Tick, SeatInv, SeatTypeOK, CallsFromThePast, Call,
     LearnersWithinCapacity, SeatsExpireInTime, KeyOutlivesSeats
<1>2. ASSUME NEW u \in Users, NEW l \in 0 .. Capacity, reserveSeat(u, l)
      PROVE  SeatInv'
  <2> DEFINE c == [user |-> u, limit |-> l, now |-> clock]
  <2>1. c \in Call
    BY DEF Call, SeatInv, SeatTypeOK
  <2>2. l \in LimitsFor(u) /\ calls' = calls \cup {c}
        /\ UNCHANGED <<clock, expiry, keyExpiry, releases>>
    BY <1>2 DEF reserveSeat
  <2>3. c.now <= clock /\ (c.user \notin Moderators => c.limit \in 1 .. Capacity)
    BY <1>a, <2>2, LimitsBound DEF LimitsFor
  <2> HIDE DEF c
  <2>4. SeatTypeOK'
    BY <2>1, <2>2 DEF SeatInv, SeatTypeOK
  <2>5. CallsFromThePast'
    BY <2>2, <2>3 DEF SeatInv, CallsFromThePast
  <2>6. QED
    BY <2>2, <2>4, <2>5
    DEF SeatInv, LearnersWithinCapacity, SeatsExpireInTime, KeyOutlivesSeats
<1>3. ASSUME NEW c \in calls, RunScript(c)
      PROVE  SeatInv'
  <2>1. /\ c.user \in Users /\ c.now \in Int /\ c.now <= clock
    BY <1>3 DEF SeatInv, SeatTypeOK, Call, CallsFromThePast
  <2>2. /\ expiry' = HashAfter(c) /\ calls' = calls \ {c}
        /\ keyExpiry' = clock + 3 * TTL /\ UNCHANGED <<clock, releases>>
    BY <1>3 DEF RunScript
  <2>3. /\ DOMAIN HashAfter(c) \subseteq Holders \cup {c.user}
        /\ HashAfter(c) \in [DOMAIN HashAfter(c) -> Int]
        /\ \A u \in DOMAIN HashAfter(c) :
             \/ HashAfter(c)[u] = c.now + TTL
             \/ u \in Holders /\ HashAfter(c)[u] = expiry[u]
    <3>1. CASE Granted(c)
      BY <2>1, <3>1, <1>a DEF HashAfter, Live, SeatInv, SeatTypeOK
    <3>2. CASE ~Granted(c)
      BY <2>1, <3>2, <1>a DEF HashAfter, Live, SeatInv, SeatTypeOK
    <3>3. QED
      BY <3>1, <3>2
  <2>4. SeatTypeOK'
    BY <2>1, <2>2, <2>3, <1>a DEF SeatInv, SeatTypeOK
  <2>5. CallsFromThePast'
    BY <2>2 DEF SeatInv, CallsFromThePast
  <2>6. LearnersWithinCapacity'
    BY <2>2, ScriptKeepsCapacity DEF LearnersWithinCapacity
  <2>7. SeatsExpireInTime' /\ KeyOutlivesSeats'
    BY <2>1, <2>2, <2>3, <1>a DEF SeatInv, SeatTypeOK, SeatsExpireInTime, KeyOutlivesSeats
  <2>8. QED
    BY <2>4, <2>5, <2>6, <2>7 DEF SeatInv
<1>4. ASSUME NEW c \in calls, FailOpen(c)
      PROVE  SeatInv'
  BY <1>4 DEF FailOpen, SeatInv, SeatTypeOK, CallsFromThePast, LearnersWithinCapacity,
     SeatsExpireInTime, KeyOutlivesSeats
<1>5. ASSUME NEW u \in Users, releaseSeat(u)
      PROVE  SeatInv'
  BY <1>5 DEF releaseSeat, SeatInv, SeatTypeOK, CallsFromThePast, LearnersWithinCapacity,
     SeatsExpireInTime, KeyOutlivesSeats
<1>6. ASSUME NEW u \in releases, RunRelease(u)
      PROVE  SeatInv'
  <2>1. /\ expiry' = [v \in Holders \ {u} |-> expiry[v]]
        /\ DOMAIN expiry' = Holders \ {u}
        /\ UNCHANGED <<clock, keyExpiry, calls>> /\ releases' = releases \ {u}
    BY <1>6 DEF RunRelease
  <2>2. SeatTypeOK' /\ CallsFromThePast' /\ SeatsExpireInTime' /\ KeyOutlivesSeats'
    BY <2>1 DEF SeatInv, SeatTypeOK, CallsFromThePast, SeatsExpireInTime, KeyOutlivesSeats
  <2>3. LearnersWithinCapacity'
    <3>1. IsFiniteSet(Holders \ Moderators)
      BY UsersFinite, FS_Subset DEF SeatInv, SeatTypeOK
    <3>2. DOMAIN expiry' \ Moderators \subseteq Holders \ Moderators
      BY <2>1
    <3>3. /\ Cardinality(DOMAIN expiry' \ Moderators) <= Cardinality(Holders \ Moderators)
          /\ Cardinality(DOMAIN expiry' \ Moderators) \in Nat
          /\ Cardinality(Holders \ Moderators) \in Nat
      BY <3>1, <3>2, FS_Subset, FS_CardinalityType
    <3>4. QED
      BY <3>3, LimitsBound DEF SeatInv, LearnersWithinCapacity
  <2>4. QED
    BY <2>2, <2>3 DEF SeatInv
<1>7. ASSUME NEW u \in releases, LoseRelease(u)
      PROVE  SeatInv'
  BY <1>7 DEF LoseRelease, SeatInv, SeatTypeOK, CallsFromThePast, LearnersWithinCapacity,
     SeatsExpireInTime, KeyOutlivesSeats
<1>8. CASE KeyExpires
  <2>1. DOMAIN expiry' = {} /\ DOMAIN expiry' \ Moderators = {}
    BY <1>8 DEF KeyExpires
  <2>2. LearnersWithinCapacity'
    BY <2>1, FS_EmptySet, LimitsBound DEF LearnersWithinCapacity
  <2>3. QED
    BY <1>8, <2>1, <2>2 DEF KeyExpires, SeatInv, SeatTypeOK, CallsFromThePast,
       SeatsExpireInTime, KeyOutlivesSeats
<1>9. CASE UNCHANGED seatVars
  BY <1>9 DEF seatVars, SeatInv, SeatTypeOK, CallsFromThePast, LearnersWithinCapacity,
     SeatsExpireInTime, KeyOutlivesSeats
<1>10. QED
  BY <1>1, <1>2, <1>3, <1>4, <1>5, <1>6, <1>7, <1>8, <1>9 DEF SeatNext

(* In every reachable state calls come from the past, the key outlives its *)
(* seats, no seat outlives a TTL, and learners fit.                        *)
THEOREM SeatInvariant == SeatSpec => []SeatInv
BY SeatInitEstablishes, SeatStepPreserves, PTL DEF SeatSpec

(* reserveSeat.lua never seats more learners than the capacity, for any    *)
(* number of callers, in any order of their scripts and with any delay.    *)
THEOREM CapacityHolds == SeatSpec => []LearnersWithinCapacity
<1>1. SeatInv => LearnersWithinCapacity
  BY DEF SeatInv
<1>2. QED
  BY SeatInitEstablishes, SeatStepPreserves, <1>1, PTL DEF SeatSpec

(* No seat outlives its TTL, however late a script runs.                   *)
THEOREM SeatsExpire == SeatSpec => []SeatsExpireInTime
<1>1. SeatInv => SeatsExpireInTime
  BY DEF SeatInv
<1>2. QED
  BY SeatInitEstablishes, SeatStepPreserves, <1>1, PTL DEF SeatSpec

(* A seat that has not expired is lost only to its own releaseSeat: a      *)
(* script with an older clock prunes less, and PEXPIRE outlives the seats. *)
THEOREM LiveSeatsAreKept == SeatSpec => OnlyReleaseFreesLiveSeat
<1>1. SeatInv /\ [SeatNext]_seatVars =>
        [\A u \in Holders :
            (expiry[u] >= clock /\ u \notin Holders') => u \in releases \ releases']_seatVars
  <2> SUFFICES ASSUME SeatInv, SeatNext, NEW u \in Holders, expiry[u] >= clock, u \notin Holders'
               PROVE  u \in releases \ releases'
    OBVIOUS
  <2> USE DEF SeatInv, SeatTypeOK, Holders
  <2>1. CASE UNCHANGED expiry
    BY <2>1
  <2>2. ASSUME NEW c \in calls, RunScript(c) PROVE FALSE
    <3>1. c.now \in Int /\ c.now <= clock /\ expiry[u] \in Int /\ clock \in Int
      BY BoundsAreNat DEF CallsFromThePast, Call
    <3>2. u \in Live(c.now)
      BY <3>1 DEF Live
    <3>3. Live(c.now) \subseteq Holders'
      BY <2>2 DEF RunScript, HashAfter
    <3> QED
      BY <3>2, <3>3
  <2>3. ASSUME NEW v \in releases, RunRelease(v) PROVE u \in releases \ releases'
    <3>1. DOMAIN expiry' = Holders \ {v} /\ releases' = releases \ {v}
      BY <2>3 DEF RunRelease
    <3> QED
      BY <3>1
  <2>4. CASE KeyExpires
    <3>1. expiry[u] + TTL < keyExpiry /\ clock >= keyExpiry /\ expiry[u] \in Int
          /\ keyExpiry \in Int /\ clock \in Int
      BY <2>4, BoundsAreNat DEF KeyExpires, KeyOutlivesSeats, SeatsExpireInTime
    <3> QED
      BY <3>1, TTLPositive
  <2> QED
    BY <2>1, <2>2, <2>3, <2>4
       DEF SeatNext, Tick, reserveSeat, FailOpen, releaseSeat, LoseRelease
<1> QED
  BY <1>1, SeatInitEstablishes, SeatStepPreserves, PTL DEF SeatSpec, OnlyReleaseFreesLiveSeat

-----------------------------------------------------------------------------
(* The room index                                                          *)

USE DEF NodeOrNone, Points, Idle, At, Go, Answer

(***************************************************************************)
(* While no node fails and nobody closes the room, IInv is inductive.      *)
(***************************************************************************)
LEMMA RegistryInitEstablishes == Init => IInv
<1>1. SUFFICES ASSUME Init PROVE IInv
  OBVIOUS
<1>2. TypeOK /\ NodesAreKnown
  BY <1>1, NoneIsNew DEF Init, TypeOK, NodesAreKnown
<1>3. CallsAgree /\ LivesWhereAssigned /\ NothingReleased
  BY <1>1 DEF Init, CallsAgree, LivesWhereAssigned, NothingReleased
<1> QED
  BY <1>2, <1>3 DEF IInv

LEMMA TypeStep == TypeOK /\ [Next]_vars => TypeOK'
<1>1. SUFFICES ASSUME TypeOK, [Next]_vars PROVE TypeOK'
  OBVIOUS
<1> USE <1>1 DEF TypeOK
<1>2. CASE UNCHANGED vars
  BY <1>2 DEF vars, redis, nodeVars, roomVars
<1>3. ASSUME NEW n \in Nodes, NEW l \in Loads, Heartbeat(n, l) PROVE TypeOK'
  BY <1>3, LoadsType DEF Heartbeat, nodeVars, roomVars
<1>4. ASSUME NEW n \in Nodes, StartDrain(n) PROVE TypeOK'
  BY <1>4 DEF StartDrain, redis, roomVars
<1>5. ASSUME NEW n \in Nodes, MarkNodeDraining(n) PROVE TypeOK'
  BY <1>5 DEF MarkNodeDraining, roomVars
<1>6. ASSUME NEW n \in Nodes, LeavePool(n) PROVE TypeOK'
  BY <1>6 DEF LeavePool, roomVars
<1>7. ASSUME NEW n \in Nodes, NodeExpires(n) PROVE TypeOK'
  BY <1>7 DEF NodeExpires, nodeVars, roomVars
<1>8. ASSUME NEW n \in Nodes, NodeDies(n) PROVE TypeOK'
  BY <1>8 DEF NodeDies, redis
<1>9. ASSUME NEW n \in Nodes, Tidy(n) PROVE TypeOK'
  BY <1>9 DEF Tidy, nodeVars, roomVars
<1>10. ASSUME NEW n \in Nodes, ReleaseRoom(n) PROVE TypeOK'
  BY <1>10 DEF ReleaseRoom, DelKey, nodeVars
<1>11. ASSUME NEW c \in Callers, NEW avoid \in Avoids, ResolveNode(c, avoid) PROVE TypeOK'
  BY <1>11, AvoidsType DEF ResolveNode, redis, nodeVars, roomVars
<1>12. ASSUME NEW c \in Callers, NEW n \in Nodes, Leave(c, n) PROVE TypeOK'
  BY <1>12 DEF Leave, redis, nodeVars
<1>13. ASSUME NEW c \in Callers, Steps(c) PROVE TypeOK'
  <2>1. CASE GetRoom(c)
    BY <2>1 DEF GetRoom, redis, nodeVars, roomVars
  <2>2. CASE CheckNode(c)
    BY <2>2 DEF CheckNode, redis, nodeVars, roomVars
  <2>3. CASE DelRoom(c)
    BY <2>3 DEF DelRoom, DelKey, nodeVars
  <2>4. CASE ListIds(c)
    BY <2>4 DEF ListIds, redis, nodeVars, roomVars
  <2>5. CASE ListInfos(c)
    <3>1. tidying' \subseteq Nodes /\ UNCHANGED <<redis, nodeVars, roomVars>>
      BY <2>5 DEF ListInfos
    <3>2. CASE call' = [call EXCEPT ![c] = Idle]
      BY <3>1, <3>2 DEF redis, nodeVars, roomVars
    <3>3. ASSUME NEW n \in Nodes, call' = [call EXCEPT ![c].pick = n, ![c].at = "set"]
          PROVE  TypeOK'
      <4>1. n \in NodeOrNone /\ "set" \in Points
        OBVIOUS
      <4> HIDE DEF NodeOrNone, Points
      <4> QED
        BY <3>1, <3>3, <4>1 DEF redis, nodeVars, roomVars
    <3> QED
      BY <2>5, <3>2, <3>3 DEF ListInfos, Candidates
  <2>6. CASE SetNX(c)
    <3>1. room' \in {room, call[c].pick} /\ UNCHANGED <<info, pool, nodeVars, roomVars, tidying>>
      BY <2>6 DEF SetNX
    <3>2. PICK point \in {"done", "lost"} : call' = [call EXCEPT ![c].at = point]
      BY <2>6 DEF SetNX
    <3> QED
      BY <3>1, <3>2 DEF nodeVars, roomVars
  <2>7. CASE GetWinner(c)
    BY <2>7 DEF GetWinner, redis, nodeVars, roomVars
  <2>8. CASE CheckWinner(c)
    <3>1. PICK n \in NodeOrNone : call' = [call EXCEPT ![c].at = "done", ![c].pick = n]
      BY <2>8 DEF CheckWinner
    <3>2. "done" \in Points /\ UNCHANGED <<redis, nodeVars, roomVars, tidying>>
      BY <2>8 DEF CheckWinner
    <3> HIDE DEF NodeOrNone, Points
    <3> QED
      BY <3>1, <3>2 DEF redis, nodeVars, roomVars
  <2>9. CASE Join(c)
    BY <2>9 DEF Join, redis, nodeVars
  <2>10. CASE SentBack(c)
    BY <2>10 DEF SentBack, redis, nodeVars, roomVars
  <2> QED
    BY <1>13, <2>1, <2>2, <2>3, <2>4, <2>5, <2>6, <2>7, <2>8, <2>9, <2>10 DEF Steps
<1> QED
  BY <1>2, <1>3, <1>4, <1>5, <1>6, <1>7, <1>8, <1>9, <1>10, <1>11, <1>12, <1>13 DEF Next

LEMMA RegistryStepPreserves ==
  ASSUME MayFail = {}, ~RoomMayClose, IInv, [Next]_vars
  PROVE  NodesAreKnown' /\ CallsAgree' /\ LivesWhereAssigned' /\ NothingReleased'
<1> USE DEF TypeOK, NodesAreKnown, CallsAgree, LivesWhereAssigned, NothingReleased
<1> DEFINE Rest == NodesAreKnown /\ CallsAgree /\ LivesWhereAssigned /\ NothingReleased
<1>1. TypeOK /\ Rest
  BY DEF IInv
<1> USE <1>1
<1>2. CASE UNCHANGED vars
  BY <1>2 DEF vars, redis, nodeVars, roomVars
<1>3. ASSUME NEW n \in Nodes, NEW l \in Loads, Heartbeat(n, l) PROVE Rest'
  BY <1>3, LoadsType, NoneIsNew DEF Heartbeat, nodeVars, roomVars
<1>4. ASSUME NEW n \in Nodes, StartDrain(n) PROVE Rest'
  BY <1>4 DEF StartDrain, redis, roomVars
<1>5. ASSUME NEW n \in Nodes, MarkNodeDraining(n) PROVE Rest'
  BY <1>5, NoneIsNew DEF MarkNodeDraining, roomVars
<1>6. ASSUME NEW n \in Nodes, LeavePool(n) PROVE Rest'
  BY <1>6 DEF LeavePool, roomVars
<1>7. ASSUME NEW n \in Nodes, NodeExpires(n) \/ NodeDies(n) PROVE FALSE
  BY <1>7 DEF NodeExpires, NodeDies
<1>9. ASSUME NEW n \in Nodes, Tidy(n) PROVE Rest'
  BY <1>9 DEF Tidy, nodeVars, roomVars
<1>10. ASSUME NEW n \in Nodes, ReleaseRoom(n) PROVE FALSE
  BY <1>10 DEF ReleaseRoom
<1>11. ASSUME NEW c \in Callers, NEW avoid \in Avoids, ResolveNode(c, avoid) PROVE Rest'
  BY <1>11, AvoidsType DEF ResolveNode, redis, nodeVars, roomVars
<1>12. ASSUME NEW c \in Callers, NEW n \in Nodes, Leave(c, n) PROVE Rest'
  BY <1>12 DEF Leave, redis, nodeVars
<1>13. ASSUME NEW c \in Callers, Steps(c) PROVE Rest'
  <2>1. CASE GetRoom(c)
    BY <2>1 DEF GetRoom, redis, nodeVars, roomVars
  <2>2. CASE CheckNode(c)
    BY <2>2 DEF CheckNode, redis, nodeVars, roomVars
  <2>3. CASE DelRoom(c)
    BY <2>3 DEF DelRoom
  <2>4. CASE ListIds(c)
    BY <2>4 DEF ListIds, redis, nodeVars, roomVars
  <2>5. CASE ListInfos(c)
    <3>1. UNCHANGED <<redis, nodeVars, roomVars>>
      BY <2>5 DEF ListInfos
    <3>2. CASE call' = [call EXCEPT ![c] = Idle]
      BY <3>1, <3>2 DEF redis, nodeVars, roomVars
    <3>3. ASSUME NEW n \in Nodes, call' = [call EXCEPT ![c].pick = n, ![c].at = "set"]
          PROVE  Rest'
      BY <3>1, <3>3, NoneIsNew DEF redis, nodeVars, roomVars
    <3> QED
      BY <2>5, <3>2, <3>3 DEF ListInfos, Candidates
  <2>6. CASE SetNX(c)
    <3>1. UNCHANGED <<info, here, releasing>> /\ call[c].pick # None
      BY <2>6 DEF SetNX, roomVars
    <3>2. CASE room = None
      <4>1. room' = call[c].pick /\ call' = [call EXCEPT ![c].at = "done"]
        BY <2>6, <3>2 DEF SetNX
      <4> QED
        BY <3>1, <3>2, <4>1, NoneIsNew
    <3>3. CASE room # None
      <4>1. room' = room /\ call' = [call EXCEPT ![c].at = "lost"]
        BY <2>6, <3>3 DEF SetNX
      <4> QED
        BY <3>1, <3>3, <4>1, NoneIsNew
    <3> QED
      BY <3>2, <3>3
  <2>7. CASE GetWinner(c)
    BY <2>7 DEF GetWinner, redis, nodeVars, roomVars
  <2>8. CASE CheckWinner(c)
    BY <2>8 DEF CheckWinner, redis, nodeVars, roomVars
  <2>9. CASE Join(c)
    BY <2>9 DEF Join, redis, nodeVars
  <2>10. CASE SentBack(c)
    BY <2>10 DEF SentBack, redis, nodeVars, roomVars
  <2> QED
    BY <1>13, <2>1, <2>2, <2>3, <2>4, <2>5, <2>6, <2>7, <2>8, <2>9, <2>10 DEF Steps
<1> QED
  BY <1>2, <1>3, <1>4, <1>5, <1>6, <1>7, <1>9, <1>10, <1>11, <1>12, <1>13 DEF Next

(***************************************************************************)
(* As long as no node is lost and the lesson is not over, whatever a call  *)
(* of resolveNode has read still agrees with the assignment, and people    *)
(* are only where it points.                                               *)
(***************************************************************************)
THEOREM RegistryInvHolds ==
  ASSUME MayFail = {}, ~RoomMayClose
  PROVE  Spec => []IInv
<1>1. IInv /\ [Next]_vars => IInv'
  BY TypeStep, RegistryStepPreserves DEF IInv
<1> QED
  BY <1>1, RegistryInitEstablishes, PTL DEF Spec

(***************************************************************************)
(* As long as no node is lost and the lesson is not over, everyone who is  *)
(* in the room is on one SFU, however resolveNode calls, heartbeats, drains*)
(* and joins interleave.                                                   *)
(***************************************************************************)
THEOREM RoomLivesOnOneNode ==
  ASSUME MayFail = {}, ~RoomMayClose
  PROVE  Spec => []OneNode
<1>1. IInv => OneNode
  BY DEF IInv, LivesWhereAssigned, OneNode
<1> QED
  BY <1>1, RegistryInvHolds, PTL

(***************************************************************************)
(* Under the same assumption every answer of resolveNode is the same node: *)
(* two people opening a new lesson together are not sent apart.            *)
(***************************************************************************)
THEOREM CallersAreSentTogether ==
  ASSUME MayFail = {}, ~RoomMayClose
  PROVE  Spec => []OneAnswer
<1>1. IInv => OneAnswer
  BY DEF IInv, CallsAgree, OneAnswer
<1> QED
  BY <1>1, RegistryInvHolds, PTL

(***************************************************************************)
(* Under the same assumption the registry implements RoomPlacement: every  *)
(* step of the API tasks and nodes places the room, lets one person in or  *)
(* out where it was placed, or leaves both as they are.                    *)
(***************************************************************************)
THEOREM RegistryPlacesTheRoomOnce ==
  ASSUME MayFail = {}, ~RoomMayClose
  PROVE  Spec => PlacedOnce
<1>1. Init => Placement!Init
  BY DEF Init, Placement!Init
<1>2. IInv /\ [Next]_vars => [Placement!Next]_<<room, here>>
  <2>1. SUFFICES ASSUME IInv, [Next]_vars
                 PROVE  Placement!Next \/ UNCHANGED <<room, here>>
    OBVIOUS
  <2> USE <2>1 DEF redis, nodeVars, roomVars
  <2>2. CASE UNCHANGED vars
    BY <2>2 DEF vars
  <2>3. ASSUME NEW n \in Nodes, NEW l \in Loads, Heartbeat(n, l)
        PROVE  UNCHANGED <<room, here>>
    BY <2>3 DEF Heartbeat
  <2>4. ASSUME NEW n \in Nodes, StartDrain(n) \/ MarkNodeDraining(n) \/ LeavePool(n) \/ Tidy(n)
        PROVE  UNCHANGED <<room, here>>
    BY <2>4 DEF StartDrain, MarkNodeDraining, LeavePool, Tidy
  <2>5. ASSUME NEW n \in Nodes, NodeExpires(n) \/ NodeDies(n) \/ ReleaseRoom(n) PROVE FALSE
    BY <2>5 DEF NodeExpires, NodeDies, ReleaseRoom, IInv, NothingReleased
  <2>6. ASSUME NEW c \in Callers, NEW avoid \in Avoids, ResolveNode(c, avoid)
        PROVE  UNCHANGED <<room, here>>
    BY <2>6 DEF ResolveNode
  <2>7. ASSUME NEW c \in Callers, NEW n \in Nodes, Leave(c, n) PROVE Placement!Exit(c)
    <3>1. room = n
      BY <2>7 DEF Leave, IInv, LivesWhereAssigned
    <3>2. room # None
      BY <3>1, NoneIsNew
    <3> QED
      BY <2>7, <3>1, <3>2 DEF Leave, Placement!Exit
  <2>8. ASSUME NEW c \in Callers, SetNX(c) PROVE Placement!Next \/ UNCHANGED <<room, here>>
    <3>1. call[c].pick \in Nodes
      BY <2>8 DEF SetNX, IInv, TypeOK, CallsAgree
    <3>2. CASE room = None
      <4>1. Placement!Place(call[c].pick)
        BY <2>8, <3>2 DEF SetNX, Placement!Place
      <4> QED
        BY <3>1, <4>1 DEF Placement!Next
    <3>3. CASE room # None
      BY <2>8, <3>3 DEF SetNX
    <3> QED
      BY <3>2, <3>3
  <2>9. ASSUME NEW c \in Callers, Join(c) PROVE Placement!Enter(c)
    BY <2>9 DEF Join, IInv, CallsAgree, Placement!Enter
  <2>10. ASSUME NEW c \in Callers,
                GetRoom(c) \/ CheckNode(c) \/ DelRoom(c) \/ ListIds(c) \/ ListInfos(c)
                  \/ GetWinner(c) \/ CheckWinner(c) \/ SentBack(c)
         PROVE  UNCHANGED <<room, here>>
    BY <2>10 DEF GetRoom, CheckNode, DelRoom, ListIds, ListInfos, GetWinner, CheckWinner,
       SentBack, IInv, CallsAgree
  <2> QED
    BY <2>2, <2>3, <2>4, <2>5, <2>6, <2>7, <2>8, <2>9, <2>10 DEF Next, Steps, Placement!Next
<1> QED
  BY <1>1, <1>2, RegistryInvHolds, PTL DEF Spec, PlacedOnce, Placement!Spec

(* Whatever fails and whoever leaves: a node with people in the room has   *)
(* the key, unless it went astray.                                         *)
LEMMA KeyedStep == TypeOK /\ KeyedInv /\ [Next]_vars => KeyedInv'
<1>1. SUFFICES ASSUME TypeOK, KeyedInv, [Next]_vars PROVE KeyedInv'
  OBVIOUS
<1> USE <1>1 DEF TypeOK, KeyedInv, redis, nodeVars, roomVars
<1>2. CASE UNCHANGED <<room, here, astray>>
  BY <1>2
<1>3. ASSUME NEW n \in Nodes, NodeDies(n) PROVE KeyedInv'
  BY <1>3 DEF NodeDies
<1>4. ASSUME NEW n \in Nodes, ReleaseRoom(n) PROVE KeyedInv'
  BY <1>4, NoneIsNew DEF ReleaseRoom, DelKey
<1>5. ASSUME NEW c \in Callers, DelRoom(c) PROVE KeyedInv'
  BY <1>5, NoneIsNew DEF DelRoom, DelKey
<1>6. ASSUME NEW c \in Callers, SetNX(c) PROVE KeyedInv'
  <2>1. UNCHANGED <<here, astray>> /\ (room # None => room' = room)
    BY <1>6 DEF SetNX
  <2> QED
    BY <2>1, NoneIsNew
<1>7. ASSUME NEW c \in Callers, Join(c) PROVE KeyedInv'
  <2> DEFINE n == call[c].pick
  <2>1. n \in Nodes /\ room' = room /\ here' = [here EXCEPT ![n] = @ \cup {c}]
    BY <1>7 DEF Join
  <2>2. here[n] # {} \/ room \in {None, n}
    BY <1>7 DEF Join, Admits
  <2>3. astray' = IF room = None THEN astray \cup {n} ELSE astray
    BY <1>7 DEF Join
  <2>4. ASSUME NEW m \in Nodes \ astray', here'[m] # {} PROVE room' = m
    <3>1. CASE m = n
      BY <2>1, <2>2, <2>3, <2>4, <3>1
    <3>2. CASE m # n
      BY <2>1, <2>3, <2>4, <3>2
    <3> QED
      BY <3>1, <3>2
  <2> QED
    BY <2>4
<1>8. ASSUME NEW c \in Callers, NEW n \in Nodes, Leave(c, n) PROVE KeyedInv'
  BY <1>8 DEF Leave
<1>9. ASSUME NEW c \in Callers, Steps(c) PROVE KeyedInv'
  BY <1>2, <1>5, <1>6, <1>7, <1>9 DEF Steps, GetRoom, CheckNode, ListIds, ListInfos, GetWinner,
     CheckWinner, SentBack
<1> QED
  BY <1>2, <1>3, <1>4, <1>8, <1>9 DEF Next, Heartbeat, StartDrain, MarkNodeDraining, LeavePool,
     NodeExpires, Tidy, ResolveNode, vars

(***************************************************************************)
(* With nodes that die or fall silent and rooms that close late, people of *)
(* one room are on two nodes only where the key was deleted under them or  *)
(* somebody came in without one, for any number of callers and nodes.      *)
(***************************************************************************)
THEOREM ApartOnlyAstray == Spec => []OneKeyedNode
<1>1. Init => TypeOK /\ KeyedInv
  BY RegistryInitEstablishes DEF Init, IInv, KeyedInv
<1>2. KeyedInv => OneKeyedNode
  BY DEF KeyedInv, OneKeyedNode
<1> QED
  BY <1>1, <1>2, TypeStep, KeyedStep, PTL DEF Spec

HIDE DEF NodeOrNone, Points, Idle, At, Go, Answer

-----------------------------------------------------------------------------
(* The drain controller                                                    *)

USE DEF Phases, Flags

(* The two halves of DrainTypeOK: the Booleans, which Zenon treats, and the     *)
(* rest, which is the SMT solver's.                                        *)
Booleans ==
  /\ lifecycle \in BOOLEAN /\ cancelled \in BOOLEAN
  /\ notified \in BOOLEAN /\ forced \in BOOLEAN
  /\ marked \in BOOLEAN /\ rooms \in BOOLEAN /\ opening \in BOOLEAN

Values ==
  /\ state \in {"serving", "draining", "moving", "drained", "cancelled"}
  /\ at \in {"idle", "mark", "loop", "notify", "beat", "sleep", "unmark", "leave", "complete"}
  /\ seen \in Phases /\ time \in Phases
  /\ attempt \in 1..Attempts
  /\ flag \in Flags
  /\ poll \in Flags \cup {"none"}
  /\ hook \in {"none", "waiting", "completed"}
  /\ people \in 0..MaxPeople

LEMMA Halves == DrainTypeOK <=> Booleans /\ Values
  BY DEF DrainTypeOK, Booleans, Values

LEMMA DrainInitEstablishes == DrainInit => DrainInv
<1>1. SUFFICES ASSUME DrainInit PROVE DrainInv
  OBVIOUS
<1>2. Booleans
  BY <1>1, Zenon DEF DrainInit, Booleans
<1>3. Values
  BY <1>1, MaxPeopleType, AttemptsType DEF DrainInit, Values
<1>4. ForcedWereTold /\ LifecycleIsFinal /\ CancelIsAllowed
  BY <1>1 DEF DrainInit, ForcedWereTold, LifecycleIsFinal, CancelIsAllowed
<1> QED
  BY <1>2, <1>3, <1>4, Halves DEF DrainInv

LEMMA BooleansStep == Booleans /\ [DrainNext]_drainVars => Booleans'
<1>1. SUFFICES ASSUME Booleans, [DrainNext]_drainVars PROVE Booleans'
  OBVIOUS
<1> USE <1>1 DEF Booleans, load, ctl, Goto, Finish
<1>2. CASE UNCHANGED drainVars
  BY <1>2, Zenon DEF drainVars
<1>3. ASSUME NEW h \in BOOLEAN, StartRun(h), UNCHANGED <<marked, load>>
      PROVE  Booleans'
  BY <1>3, Zenon DEF StartRun
<1>4. CASE BeginDrain
  BY <1>3, <1>4, Zenon DEF BeginDrain
<1>5. CASE ReadFlag
  BY <1>5, Zenon DEF ReadFlag
<1>6. CASE ApplyFlag
  <2>1. CASE StartRun(poll = "lifecycle")
    BY <1>3, <1>6, <2>1 DEF ApplyFlag
  <2>2. CASE cancelled' = TRUE /\ UNCHANGED <<state, at, lifecycle, notified, seen, forced, attempt, time>>
    BY <1>6, <2>2, Zenon DEF ApplyFlag
  <2>3. CASE UNCHANGED <<ctl, time>>
    BY <1>6, <2>3, Zenon DEF ApplyFlag
  <2> QED
    BY <1>6, <2>1, <2>2, <2>3 DEF ApplyFlag
<1>7. CASE CheckFlagFails
  BY <1>7, Zenon DEF CheckFlagFails
<1>8. CASE Run
  <2>1. CASE Marked
    BY <2>1, Zenon DEF Marked
  <2>2. CASE Loop
    BY <2>2, Zenon DEF Loop, Round, Continue
  <2>3. CASE Notified
    BY <2>3, Zenon DEF Notified, Continue
  <2>4. CASE Beat \/ Wake
    BY <2>4, Zenon DEF Beat, Wake
  <2>5. CASE Unmarked
    BY <2>5, Zenon DEF Unmarked
  <2>6. CASE Deregistered
    BY <2>6, Zenon DEF Deregistered
  <2>7. CASE Completed
    BY <2>7, Zenon DEF Completed
  <2>8. CASE CompleteFails
    BY <2>8, Zenon DEF CompleteFails
  <2> QED
    BY <1>8, <2>1, <2>2, <2>3, <2>4, <2>5, <2>6, <2>7, <2>8 DEF Run
<1>9. ASSUME NEW kind \in {"manual", "lifecycle"}, WriteFlag(kind) PROVE Booleans'
  BY <1>9, Zenon DEF WriteFlag
<1>10. CASE DeleteFlag \/ TimePasses
  BY <1>10, Zenon DEF DeleteFlag, TimePasses
<1>11. CASE OpenRoom \/ RoomOpened \/ PersonJoins \/ PersonLeaves \/ RoomCloses
  BY <1>11, Zenon DEF OpenRoom, RoomOpened, PersonJoins, PersonLeaves, RoomCloses
<1> QED
  BY <1>2, <1>4, <1>5, <1>6, <1>7, <1>8, <1>9, <1>10, <1>11 DEF DrainNext

LEMMA ValuesStep == Values /\ [DrainNext]_drainVars => Values'
<1>1. SUFFICES ASSUME Values, [DrainNext]_drainVars PROVE Values'
  OBVIOUS
<1> USE <1>1, MaxPeopleType, AttemptsType DEF Values, load, ctl, Goto, Finish
<1>2. CASE UNCHANGED drainVars
  BY <1>2 DEF drainVars
<1>3. ASSUME NEW h \in BOOLEAN, StartRun(h), poll' \in Flags \cup {"none"},
             UNCHANGED <<flag, marked, hook, load>>
      PROVE  Values'
  BY <1>3 DEF StartRun
<1>4. CASE BeginDrain
  BY <1>3, <1>4 DEF BeginDrain
<1>5. CASE ReadFlag
  BY <1>5 DEF ReadFlag
<1>6. CASE ApplyFlag
  <2>1. CASE StartRun(poll = "lifecycle")
    BY <1>3, <1>6, <2>1 DEF ApplyFlag
  <2>2. CASE cancelled' = TRUE /\ UNCHANGED <<state, at, lifecycle, notified, seen, forced, attempt, time>>
    BY <1>6, <2>2 DEF ApplyFlag
  <2>3. CASE UNCHANGED <<ctl, time>>
    BY <1>6, <2>3 DEF ApplyFlag
  <2> QED
    BY <1>6, <2>1, <2>2, <2>3 DEF ApplyFlag
<1>7. CASE CheckFlagFails
  BY <1>7 DEF CheckFlagFails
<1>8. CASE Run
  <2>1. CASE Marked
    BY <2>1 DEF Marked
  <2>2. CASE Loop
    BY <2>2 DEF Loop, Round, Continue
  <2>3. CASE Notified
    BY <2>3 DEF Notified, Continue
  <2>4. CASE Beat \/ Wake
    BY <2>4 DEF Beat, Wake
  <2>5. CASE Unmarked
    BY <2>5 DEF Unmarked
  <2>6. CASE Deregistered
    BY <2>6 DEF Deregistered
  <2>7. CASE Completed
    BY <2>7 DEF Completed
  <2>8. CASE CompleteFails
    BY <2>8 DEF CompleteFails
  <2> QED
    BY <1>8, <2>1, <2>2, <2>3, <2>4, <2>5, <2>6, <2>7, <2>8 DEF Run
<1>9. ASSUME NEW kind \in {"manual", "lifecycle"}, WriteFlag(kind) PROVE Values'
  BY <1>9 DEF WriteFlag
<1>10. CASE DeleteFlag \/ TimePasses
  BY <1>10 DEF DeleteFlag, TimePasses
<1>11. CASE OpenRoom \/ RoomOpened \/ PersonJoins \/ PersonLeaves \/ RoomCloses
  BY <1>11 DEF OpenRoom, RoomOpened, PersonJoins, PersonLeaves, RoomCloses
<1> QED
  BY <1>2, <1>4, <1>5, <1>6, <1>7, <1>8, <1>9, <1>10, <1>11 DEF DrainNext

LEMMA DrainStepPreserves ==
  ASSUME DrainInv, [DrainNext]_drainVars
  PROVE  ForcedWereTold' /\ LifecycleIsFinal' /\ CancelIsAllowed'
<1> DEFINE Rest == ForcedWereTold /\ LifecycleIsFinal /\ CancelIsAllowed
<1> USE DEF ForcedWereTold, LifecycleIsFinal, CancelIsAllowed, ctl, Goto, Finish
<1>1. Rest
  BY DEF DrainInv
<1> USE <1>1
<1>2. CASE UNCHANGED ctl
  BY <1>2
<1>3. ASSUME NEW h \in BOOLEAN, StartRun(h) PROVE Rest'
  BY <1>3 DEF StartRun
<1>4. CASE BeginDrain
  BY <1>3, <1>4 DEF BeginDrain
<1>5. CASE ApplyFlag
  <2>1. CASE StartRun(poll = "lifecycle")
    BY <1>3, <2>1
  <2>2. CASE /\ Cancels /\ cancelled' = TRUE
             /\ UNCHANGED <<state, at, lifecycle, notified, seen, forced, attempt, time>>
    BY <2>2 DEF Cancels, CanCancel
  <2> QED
    BY <1>2, <1>5, <2>1, <2>2 DEF ApplyFlag
<1>6. CASE Run
  <2>1. CASE Marked
    BY <2>1 DEF Marked
  <2>2. CASE Loop
    BY <2>2 DEF Loop, Round, Continue
  <2>3. CASE Notified
    BY <2>3 DEF Notified, Continue
  <2>4. CASE Beat \/ Wake
    BY <2>4 DEF Beat, Wake
  <2>5. CASE Unmarked
    BY <2>5 DEF Unmarked
  <2>6. CASE Deregistered
    BY <2>6 DEF Deregistered
  <2>7. CASE Completed
    BY <2>7 DEF Completed
  <2>8. CASE CompleteFails
    BY <2>8 DEF CompleteFails
  <2> QED
    BY <1>6, <2>1, <2>2, <2>3, <2>4, <2>5, <2>6, <2>7, <2>8 DEF Run
<1> QED
  BY <1>2, <1>4, <1>5, <1>6 DEF DrainNext, drainVars, ReadFlag, CheckFlagFails, WriteFlag, DeleteFlag, TimePasses,
     OpenRoom, RoomOpened, PersonJoins, PersonLeaves, RoomCloses

(***************************************************************************)
(* In every reachable state the state of the drain, the place of its loop  *)
(* and the notices sent agree, and only a drain without a hook is being    *)
(* cancelled.                                                              *)
(***************************************************************************)
THEOREM DrainInvHolds == DrainSpec => []DrainInv
<1>1. DrainInv /\ [DrainNext]_drainVars => DrainInv'
  <2>1. (Booleans /\ Values)' => DrainTypeOK'
    BY DEF DrainTypeOK, Booleans, Values
  <2> QED
    BY <2>1, BooleansStep, ValuesStep, Halves, DrainStepPreserves DEF DrainInv
<1> QED
  BY <1>1, DrainInitEstablishes, PTL DEF DrainSpec

(***************************************************************************)
(* A drain that gives up at its deadline has told the rooms on the node to *)
(* move, whatever the timeout, the move grace and the hook's own deadline. *)
(***************************************************************************)
THEOREM ForcedDrainsWarn == DrainSpec => []ForcedWereTold
<1>1. DrainInv => ForcedWereTold
  BY DEF DrainInv
<1> QED
  BY <1>1, DrainInvHolds, PTL

(***************************************************************************)
(* A drain that answers a lifecycle hook never ends cancelled, whoever sets*)
(* or deletes the flag and whatever a late poll has read.                  *)
(***************************************************************************)
THEOREM LifecycleDrainsAreFinal == DrainSpec => []LifecycleIsFinal
<1>1. DrainInv => LifecycleIsFinal
  BY DEF DrainInv
<1> QED
  BY <1>1, DrainInvHolds, PTL
=============================================================================
