------------------------- MODULE WaitingListProofs -------------------------
(***************************************************************************)
(* Who was let in gets in unless somebody came in past the count, for any  *)
(* number of people, moderators, enforcers and seats.  The argument is one *)
(* of counting: seats, holds, people on the way and the seats a sweep has  *)
(* still to hand out are together no more than there are.                  *)
(***************************************************************************)
EXTENDS WaitingList, FiniteSetTheorems, TLAPS

(* A person off the list leaves a list. *)
LEMMA WithoutIsSeq ==
  ASSUME NEW q \in Seq(Users), NEW u
  PROVE  Without(q, u) \in Seq(Users)
<1>1. CASE ~\E i \in DOMAIN q : q[i] = u
  BY <1>1 DEF Without
<1>2. CASE \E i \in DOMAIN q : q[i] = u
  <2>1. PICK i \in DOMAIN q : Without(q, u) = RemoveAt(q, i)
    BY <1>2 DEF Without
  <2>2. i \in 1 .. Len(q) /\ Len(q) \in Nat
    OBVIOUS
  <2>3. SubSeq(q, 1, i - 1) \in Seq(Users)
    BY <2>2
  <2>4. SubSeq(q, i + 1, Len(q)) \in Seq(Users)
    BY <2>2
  <2> QED
    BY <2>1, <2>3, <2>4 DEF RemoveAt
<1> QED
  BY <1>1, <1>2

(* Sets of people are finite and can be counted.                           *)
LEMMA PeopleCount ==
  ASSUME NEW S, S \subseteq Users
  PROVE  IsFiniteSet(S) /\ Cardinality(S) \in Nat
BY UsersFinite, FS_Subset, FS_CardinalityType

(* Fewer people are fewer, and together they are at most as many.          *)
LEMMA FewerPeople ==
  ASSUME NEW T, T \subseteq Users, NEW S, S \subseteq T
  PROVE  Cardinality(S) <= Cardinality(T) /\ Cardinality(S) \in Nat /\ Cardinality(T) \in Nat
BY PeopleCount, FS_Subset

LEMMA Together ==
  ASSUME NEW S, S \subseteq Users, NEW T, T \subseteq Users
  PROVE  Cardinality(S \cup T) <= Cardinality(S) + Cardinality(T)
<1>1. IsFiniteSet(S) /\ IsFiniteSet(T) /\ Cardinality(S) \in Nat /\ Cardinality(T) \in Nat
  BY PeopleCount
<1>2. S \cap T \subseteq Users
  OBVIOUS
<1>3. Cardinality(S \cap T) \in Nat
  BY <1>2, PeopleCount
<1>4. Cardinality(S \cup T) = Cardinality(S) + Cardinality(T) - Cardinality(S \cap T)
  BY <1>1, FS_Union
<1> QED
  BY <1>1, <1>3, <1>4

(* A list names at most as many people as it is long.                      *)
LEMMA ListCount ==
  ASSUME NEW q \in Seq(Users)
  PROVE  ToSet(q) \subseteq Users /\ Cardinality(ToSet(q)) <= Len(q)
<1>1. q \in [1 .. Len(q) -> Users] /\ Len(q) \in Nat /\ DOMAIN q = 1 .. Len(q)
  OBVIOUS
<1>2. ToSet(q) \subseteq Users
  BY <1>1 DEF ToSet
<1>3. q \in Surjection(1 .. Len(q), ToSet(q))
  BY <1>1 DEF ToSet, Surjection
<1>4. ExistsSurjection(1 .. Len(q), ToSet(q))
  BY <1>3 DEF ExistsSurjection
<1> QED
  BY <1>1, <1>2, <1>4, FS_SurjCardinalityBound

(* What fits is a matter of who is counted.                                *)
LEMMA SameFit ==
  ASSUME NEW S, NEW T, S = T, NEW m, NEW n, m = n, Cardinality(S) + m <= Capacity
  PROVE  Cardinality(T) + n <= Capacity
OBVIOUS

LEMMA FitAlone ==
  ASSUME NEW S, NEW T, S = T, NEW n, n = 0, Cardinality(S) \in Nat, Cardinality(S) <= Capacity
  PROVE  Cardinality(T) + n <= Capacity
<1>1. Cardinality(S) + 0 = Cardinality(S)
  OBVIOUS
<1> QED
  BY <1>1, Zenon

(* Before anybody comes, nobody sits.                                      *)
LEMMA InitEstablishes == Init => IInv
<1> SUFFICES ASSUME Init PROVE IInv
  OBVIOUS
<1> USE CapacityIsNat DEF Init
<1>1. TypeOK
  <2>1. at \in [Users -> Points] /\ hold \in [Users -> {"none", "held", "lapsed"}]
    BY DEF Points
  <2>2. sweep \in [Enforcers -> [at : SweepPoints, free : 0 .. Capacity, next : Seq(Users)]]
    <3>1. Idle \in [at : SweepPoints, free : 0 .. Capacity, next : Seq(Users)]
      BY DEF Idle, SweepPoints
    <3> QED
      BY <3>1
  <2>3. queue \in Seq(Users) /\ seats \subseteq Users /\ joined \subseteq Users
    OBVIOUS
  <2>4. listed \in BOOLEAN /\ lock \in BOOLEAN /\ crossed \in BOOLEAN
    BY Zenon
  <2> QED
    BY <2>1, <2>2, <2>3, <2>4, Zenon DEF TypeOK
<1>2. LearnersWithinCapacity
  <2>1. seats \ Moderators = {}
    OBVIOUS
  <2> QED
    BY <2>1, FS_EmptySet DEF LearnersWithinCapacity
<1>3. SweepHasNext
  BY DEF SweepHasNext, HandsOut, Idle
<1>4. PromisesFit
  <2>1. Counted \cup OnTheWay = {}
    BY DEF Counted, Held, OnTheWay
  <2>2. \A e \in Enforcers :
          ~HandsOut(e) /\ ToSet(sweep[e].next) = {} /\ sweep[e].free = 0
    BY DEF HandsOut, Idle, ToSet
  <2>3. Cardinality({}) = 0 /\ Cardinality({}) \in Nat /\ Cardinality({}) <= Capacity
    BY FS_EmptySet, CapacityIsNat
  <2>4. \A e \in Enforcers : Counted \cup OnTheWay \cup ToSet(sweep[e].next) = {}
    BY <2>1, <2>2
  <2> HIDE DEF Init
  <2>5. Cardinality(Counted \cup OnTheWay) <= Capacity
    BY <2>1, <2>3, Zenon
  <2>6. ASSUME NEW e \in Enforcers
        PROVE  Cardinality(Counted \cup OnTheWay \cup ToSet(sweep[e].next)) + sweep[e].free <= Capacity
    BY <2>2, <2>3, <2>4, FitAlone
  <2> QED
    BY <2>2, <2>5, <2>6 DEF PromisesFit
<1> QED
  BY <1>1, <1>2, <1>3, <1>4 DEF IInv

(* Everybody a seat has been promised to.                                  *)
Promised == Counted \cup OnTheWay

LEMMA PromisedPeople == TypeOK => Promised \subseteq Users /\ Counted \subseteq Users
BY DEF TypeOK, Promised, Counted, Held, OnTheWay

(* Fewer promises fit as well.                                             *)
LEMMA FewerPromises ==
  ASSUME IInv, Promised' \subseteq Promised, UNCHANGED <<sweep, crossed>>
  PROVE  PromisesFit'
<1>1. Promised \subseteq Users
  BY PromisedPeople DEF IInv
<1>2. ASSUME ~crossed PROVE Cardinality(Promised') <= Capacity
  <2>1. Cardinality(Promised) <= Capacity
    BY <1>2 DEF IInv, PromisesFit, Promised
  <2> QED
    BY <1>1, <2>1, FewerPeople, CapacityIsNat
<1>3. ASSUME ~crossed, NEW e \in Enforcers
      PROVE  Cardinality(Promised' \cup ToSet(sweep[e].next)) + sweep[e].free <= Capacity
  <2>1. Cardinality(Promised \cup ToSet(sweep[e].next)) + sweep[e].free <= Capacity
    BY <1>3 DEF IInv, PromisesFit, Promised
  <2>2. sweep[e].next \in Seq(Users) /\ sweep[e].free \in Nat
    BY <1>3, CapacityIsNat DEF IInv, TypeOK
  <2>3. Promised \cup ToSet(sweep[e].next) \subseteq Users
        /\ Promised' \cup ToSet(sweep[e].next) \subseteq Promised \cup ToSet(sweep[e].next)
    BY <1>1, <2>2, ListCount
  <2> QED
    BY <2>1, <2>2, <2>3, FewerPeople, CapacityIsNat
<1>4. \A e, f \in Enforcers : ~crossed /\ HandsOut(e)' /\ HandsOut(f)' => e = f
  BY DEF IInv, PromisesFit, HandsOut
<1> QED
  BY <1>2, <1>3, <1>4 DEF PromisesFit, Promised

(* The seats a sweep may hand out are at most all of them.                 *)
LEMMA FreeSeatsType == ASSUME TypeOK PROVE FreeSeats \in 0 .. Capacity
<1>1. Cardinality(seats) \in Nat
  BY PeopleCount DEF TypeOK
<1>2. Cardinality(LiveHolds) \in Nat
  BY PeopleCount DEF LiveHolds, Held
<1> QED
  BY <1>1, <1>2, CapacityIsNat DEF FreeSeats

(* The steps of the lobby that leave the seats alone.                      *)
LEMMA LobbyPreserves ==
  ASSUME IInv, NEW u \in Users,
         \/ joinWaitlist(u) \/ ListRoom(u) \/ leaveWaitlist(u) \/ DropHold(u)
         \/ HoldLapses(u) \/ Decide(u) \/ admissionFor(u) \/ Tidy(u),
         crossed' \in BOOLEAN, PromisesFit'
  PROVE  IInv'
<1>1. UNCHANGED <<seats, lock, sweep>>
  BY DEF joinWaitlist, ListRoom, leaveWaitlist, DropHold, HoldLapses, Decide, admissionFor, Tidy,
     lobbyVars, sweepVars
<1>2. at' \in [Users -> Points]
  BY DEF joinWaitlist, ListRoom, leaveWaitlist, DropHold, HoldLapses, Decide, admissionFor, Tidy,
     lobbyVars, Go, Points, IInv, TypeOK
<1>3. queue' \in Seq(Users)
  <2>1. Without(queue, u) \in Seq(Users) /\ Append(queue, u) \in Seq(Users)
    BY WithoutIsSeq DEF IInv, TypeOK
  <2> QED
    BY <2>1 DEF joinWaitlist, ListRoom, leaveWaitlist, DropHold, HoldLapses, Decide, admissionFor, Tidy,
       IInv, TypeOK
<1>4. hold' \in [Users -> {"none", "held", "lapsed"}]
  BY DEF joinWaitlist, ListRoom, leaveWaitlist, DropHold, HoldLapses, Decide, admissionFor, Tidy,
     IInv, TypeOK
<1>5. joined' \subseteq Users
  BY DEF joinWaitlist, ListRoom, leaveWaitlist, DropHold, HoldLapses, Decide, admissionFor, Tidy,
     lobbyVars, IInv, TypeOK
<1>6. listed' \in BOOLEAN
  BY Zenon DEF joinWaitlist, ListRoom, leaveWaitlist, DropHold, HoldLapses, Decide, admissionFor, Tidy,
     IInv, TypeOK
<1>7. tidying' \subseteq Users
  BY DEF joinWaitlist, ListRoom, leaveWaitlist, DropHold, HoldLapses, Decide, admissionFor, Tidy,
     TidyHolds, IInv, TypeOK
<1>8. TypeOK'
  BY <1>1, <1>2, <1>3, <1>4, <1>5, <1>6, <1>7, Zenon DEF IInv, TypeOK
<1>9. LearnersWithinCapacity'
  BY <1>1 DEF IInv, LearnersWithinCapacity
<1>10. SweepHasNext'
  BY <1>1 DEF IInv, SweepHasNext, HandsOut
<1> QED
  BY <1>8, <1>9, <1>10 DEF IInv

(* Apart from the decision, they promise nothing.                          *)
LEMMA LobbyPromises ==
  ASSUME IInv, NEW u \in Users,
         \/ joinWaitlist(u) \/ ListRoom(u) \/ leaveWaitlist(u) \/ DropHold(u)
         \/ HoldLapses(u) \/ admissionFor(u) \/ Tidy(u)
  PROVE  PromisesFit' /\ crossed' \in BOOLEAN
<1>1. UNCHANGED <<seats, sweep, crossed>>
  BY DEF joinWaitlist, ListRoom, leaveWaitlist, DropHold, HoldLapses, admissionFor, Tidy,
     lobbyVars, sweepVars
<1>2. OnTheWay' \subseteq OnTheWay
  BY DEF joinWaitlist, ListRoom, leaveWaitlist, DropHold, HoldLapses, admissionFor, Tidy,
     lobbyVars, Go, OnTheWay, IInv, TypeOK
<1>3. Held' \subseteq Held
  BY DEF joinWaitlist, ListRoom, leaveWaitlist, DropHold, HoldLapses, admissionFor, Tidy,
     Held, IInv, TypeOK
<1>4. Promised' \subseteq Promised
  BY <1>1, <1>2, <1>3 DEF Promised, Counted
<1>5. crossed \in BOOLEAN
  BY DEF IInv, TypeOK
<1> QED
  BY <1>1, <1>4, <1>5, FewerPromises

(* The decision promises a seat that is left, or takes up a promise, or    *)
(* lets somebody in past the count.                                        *)
LEMMA DecidePromises ==
  ASSUME IInv, NEW u \in Users, Decide(u)
  PROVE  PromisesFit' /\ crossed' \in BOOLEAN
<1>1. UNCHANGED <<seats, hold, sweep>> /\ UNCHANGED <<Held, Counted>>
  BY DEF Decide, sweepVars, Held, Counted
<1>2. crossed' \in BOOLEAN
  BY DEF Decide
<1>3. CASE ~MayEnter(u)
  <2>1. at' = at /\ crossed' = crossed
    BY <1>3 DEF Decide, IInv, TypeOK
  <2>2. Promised' = Promised
    BY <1>1, <2>1 DEF Promised, OnTheWay
  <2> QED
    BY <1>1, <1>2, <2>1, <2>2, FewerPromises
<1>4. CASE MayEnter(u) /\ crossed'
  BY <1>2, <1>4 DEF PromisesFit
<1>5. CASE MayEnter(u) /\ ~crossed'
  <2>1. ~crossed /\ ~Crosses(u)
    BY <1>5 DEF Decide
  <2>2. Promised' = Promised \cup {u}
    BY <1>1, <1>5 DEF Decide, Go, Promised, OnTheWay, IInv, TypeOK
  <2>3. CASE u \in Held
    <3>1. Promised' \subseteq Promised /\ crossed' = crossed
      BY <1>2, <1>5, <2>1, <2>2, <2>3 DEF Promised, Counted, IInv, TypeOK
    <3> QED
      BY <1>1, <1>2, <3>1, FewerPromises
  <2>4. CASE u \notin Held
    <3>1. OnTheWay \subseteq Counted /\ \A e \in Enforcers : ~HandsOut(e)
      BY <2>1, <2>4 DEF Crosses
    <3>2. SeatLeft(u)
      BY <1>5, <2>1, <2>4 DEF Crosses, MayEnter, LiveHolds
    <3>3. Promised' = (seats \ {u}) \cup (Held \ {u}) \cup {u}
      BY <2>2, <3>1 DEF Promised, Counted
    <3>4. seats \subseteq Users /\ Held \subseteq Users
      BY DEF IInv, TypeOK, Held
    <3>5. /\ Cardinality(seats \ {u}) \in Nat /\ Cardinality(Held \ {u}) \in Nat
          /\ Cardinality((seats \ {u}) \cup (Held \ {u})) \in Nat
          /\ IsFiniteSet((seats \ {u}) \cup (Held \ {u}))
          /\ seats \ {u} \subseteq Users /\ Held \ {u} \subseteq Users
      BY <3>4, PeopleCount
    <3>6. Cardinality((seats \ {u}) \cup (Held \ {u}))
            <= Cardinality(seats \ {u}) + Cardinality(Held \ {u})
      BY <3>5, Together
    <3>7. Cardinality(Promised') = Cardinality((seats \ {u}) \cup (Held \ {u})) + 1
      BY <3>3, <3>5, FS_AddElement
    <3>8. Cardinality(seats \ {u}) + Cardinality(Held \ {u}) < Capacity
      BY <3>2 DEF SeatLeft, LiveHolds
    <3>9. Cardinality(Promised') <= Capacity
      BY <3>5, <3>6, <3>7, <3>8, CapacityIsNat
    <3>10. \A e \in Enforcers : ~HandsOut(e)' /\ sweep'[e].free = 0 /\ ToSet(sweep'[e].next) = {}
      BY <1>1, <3>1 DEF IInv, SweepHasNext, HandsOut, ToSet
    <3>11. Cardinality(Promised') \in Nat
      BY <3>5, <3>7
    <3>12. \A e \in Enforcers : Promised' \cup ToSet(sweep'[e].next) = Promised'
      BY <3>10
    <3> QED
      BY <1>2, <3>9, <3>10, <3>11, <3>12 DEF PromisesFit, Promised
  <2> QED
    BY <2>3, <2>4
<1> QED
  BY <1>3, <1>4, <1>5

(* The script lets a learner sit only while there is a seat.               *)
LEMMA ReservePreserves == ASSUME IInv, NEW u \in Users, Reserve(u) PROVE IInv'
<1>1. UNCHANGED <<joined, queue, hold, tidying, listed, lock, sweep, crossed>>
  BY DEF Reserve, waitingVars, sweepVars
<1>2. at' \in [Users -> Points] /\ seats' \subseteq Users
  BY DEF Reserve, Go, Points, IInv, TypeOK
<1>3. TypeOK'
  BY <1>1, <1>2, Zenon DEF IInv, TypeOK
<1>4. LearnersWithinCapacity'
  <2>1. CASE seats' \ Moderators = seats \ Moderators
    BY <2>1 DEF IInv, LearnersWithinCapacity
  <2>2. CASE seats' \ Moderators # seats \ Moderators
    <3>1. seats' = seats \cup {u} /\ u \notin seats /\ u \notin Moderators /\ SeatFree(u)
      BY <2>2 DEF Reserve
    <3>2. Cardinality(seats) < Capacity
      BY <3>1 DEF SeatFree
    <3>3. IsFiniteSet(seats \ Moderators) /\ IsFiniteSet(seats) /\ Cardinality(seats) \in Nat
          /\ Cardinality(seats \ Moderators) \in Nat
      BY PeopleCount DEF IInv, TypeOK
    <3>4. Cardinality(seats \ Moderators) <= Cardinality(seats)
      BY <3>3, FS_Subset
    <3>5. seats' \ Moderators = (seats \ Moderators) \cup {u}
      BY <3>1
    <3>6. Cardinality(seats' \ Moderators) = Cardinality(seats \ Moderators) + 1
      BY <3>1, <3>3, <3>5, FS_AddElement
    <3> QED
      BY <3>2, <3>3, <3>4, <3>6, CapacityIsNat DEF LearnersWithinCapacity
  <2> QED
    BY <2>1, <2>2
<1>5. SweepHasNext'
  BY <1>1 DEF IInv, SweepHasNext, HandsOut
<1>6. PromisesFit'
  <2>1. u \in OnTheWay /\ seats' \subseteq seats \cup {u}
    BY DEF Reserve, OnTheWay
  <2>2. OnTheWay' \subseteq OnTheWay
    BY DEF Reserve, Go, OnTheWay, IInv, TypeOK
  <2>3. Held' = Held
    BY <1>1 DEF Held
  <2>4. Promised' \subseteq Promised
    BY <2>1, <2>2, <2>3 DEF Promised, Counted
  <2> QED
    BY <1>1, <2>4, FewerPromises
<1> QED
  BY <1>3, <1>4, <1>5, <1>6 DEF IInv

(* A seat given up, or lost to its expiry.                                 *)
LEMMA LeavingPreserves ==
  ASSUME IInv, NEW u \in Users, Leave(u) \/ SeatExpires(u) PROVE IInv'
<1>1. UNCHANGED <<joined, queue, hold, tidying, listed, lock, sweep, crossed>>
      /\ seats' \subseteq seats
  BY DEF Leave, SeatExpires, waitingVars, sweepVars
<1>2. at' \in [Users -> Points]
  BY DEF Leave, SeatExpires, Go, Points, IInv, TypeOK
<1>3. TypeOK'
  <2>1. seats' \subseteq Users
    BY <1>1 DEF IInv, TypeOK
  <2> QED
    BY <1>1, <1>2, <2>1, Zenon DEF IInv, TypeOK
<1>4. LearnersWithinCapacity'
  <2>1. IsFiniteSet(seats \ Moderators) /\ Cardinality(seats \ Moderators) \in Nat
    BY PeopleCount DEF IInv, TypeOK
  <2>2. seats' \ Moderators \subseteq seats \ Moderators
    BY <1>1
  <2>3. Cardinality(seats' \ Moderators) <= Cardinality(seats \ Moderators)
        /\ Cardinality(seats' \ Moderators) \in Nat
    BY <2>1, <2>2, FS_Subset, FS_CardinalityType
  <2> QED
    BY <2>1, <2>3, CapacityIsNat DEF IInv, LearnersWithinCapacity
<1>5. SweepHasNext'
  BY <1>1 DEF IInv, SweepHasNext, HandsOut
<1>6. PromisesFit'
  <2>1. OnTheWay' \subseteq OnTheWay
    BY DEF Leave, SeatExpires, Go, OnTheWay, IInv, TypeOK
  <2>2. Promised' \subseteq Promised
    BY <1>1, <2>1 DEF Promised, Counted, Held
  <2> QED
    BY <1>1, <2>2, FewerPromises
<1> QED
  BY <1>3, <1>4, <1>5, <1>6 DEF IInv

(* Where a sweep may stand, with somebody to hand the next seat to.        *)
Place == [at : SweepPoints, free : 0 .. Capacity, next : Seq(Users)]
Hands(s) == s.at \in {"ranging", "holding", "unqueueing"}
NextOf(s) ==
  /\ s.at \in {"holding", "unqueueing"} => s.next # <<>> /\ s.free = 0
  /\ s.at = "ranging" => s.next = <<>>
  /\ ~Hands(s) => s.next = <<>> /\ s.free = 0

(* The promises fit after the step of one enforcer to s, when those of its *)
(* own do, and when it is alone to hand out seats or promises nothing.     *)
LEMMA OneSweeps ==
  ASSUME IInv, NEW e \in Enforcers, NEW s \in Place,
         sweep' = [sweep EXCEPT ![e] = s], crossed' = crossed,
         HandsOut(e) \/ (~Hands(s) /\ Promised' \subseteq Promised),
         Promised' \subseteq Promised \cup ToSet(sweep[e].next),
         ~crossed => Cardinality(Promised' \cup ToSet(s.next)) + s.free <= Capacity
  PROVE  PromisesFit'
<1> SUFFICES ASSUME ~crossed PROVE PromisesFit'
  BY DEF PromisesFit
<1>1. sweep \in [Enforcers -> Place] /\ Promised \subseteq Users
  BY PromisedPeople DEF IInv, TypeOK, Place
<1>2. \A f \in Enforcers : /\ sweep[f].next \in Seq(Users) /\ sweep[f].free \in Nat
                            /\ ToSet(sweep[f].next) \subseteq Users
  BY <1>1, ListCount, CapacityIsNat DEF Place
<1>3. sweep'[e] = s /\ \A f \in Enforcers \ {e} : sweep'[f] = sweep[f]
  BY <1>1
<1>4. \A f, g \in Enforcers : HandsOut(f) /\ HandsOut(g) => f = g
  BY DEF IInv, PromisesFit
<1>5. \A f, g \in Enforcers : HandsOut(f)' /\ HandsOut(g)' => f = g
  BY <1>3, <1>4 DEF HandsOut, Hands
<1>6. \A f \in Enforcers :
        Cardinality(Promised \cup ToSet(sweep[f].next)) + sweep[f].free <= Capacity
  BY DEF IInv, PromisesFit, Promised
<1>7. Cardinality(Promised') <= Capacity
  <2>1. Promised \cup ToSet(sweep[e].next) \subseteq Users
    BY <1>1, <1>2
  <2>2. Cardinality(Promised') <= Cardinality(Promised \cup ToSet(sweep[e].next))
        /\ Cardinality(Promised') \in Nat
        /\ Cardinality(Promised \cup ToSet(sweep[e].next)) \in Nat
    BY <2>1, FewerPeople
  <2> QED
    BY <1>2, <1>6, <2>2, CapacityIsNat
<1>8. ASSUME NEW f \in Enforcers
      PROVE  Cardinality(Promised' \cup ToSet(sweep'[f].next)) + sweep'[f].free <= Capacity
  <2>1. CASE f = e
    BY <1>3, <2>1
  <2>2. CASE f # e /\ HandsOut(e)
    <3>1. ~HandsOut(f)
      BY <1>4, <2>2
    <3>2. sweep'[f].next = <<>> /\ sweep'[f].free = 0
      BY <1>3, <2>2, <3>1 DEF IInv, SweepHasNext
    <3>3. ToSet(sweep'[f].next) = {}
      BY <3>2 DEF ToSet
    <3>4. Promised' \cup ToSet(sweep'[f].next) = Promised'
      BY <3>3
    <3>5. Promised' \subseteq Users
      BY <1>1, <1>2
    <3>6. Cardinality(Promised') \in Nat
      BY <3>5, PeopleCount
    <3> QED
      BY <1>7, <3>2, <3>4, <3>6, FitAlone
  <2>3. CASE f # e /\ Promised' \subseteq Promised
    <3>1. Promised' \cup ToSet(sweep[f].next) \subseteq Promised \cup ToSet(sweep[f].next)
          /\ Promised \cup ToSet(sweep[f].next) \subseteq Users
      BY <1>1, <1>2, <2>3
    <3>2. /\ Cardinality(Promised' \cup ToSet(sweep[f].next))
               <= Cardinality(Promised \cup ToSet(sweep[f].next))
          /\ Cardinality(Promised' \cup ToSet(sweep[f].next)) \in Nat
          /\ Cardinality(Promised \cup ToSet(sweep[f].next)) \in Nat
      BY <3>1, FewerPeople
    <3>3. Cardinality(Promised' \cup ToSet(sweep[f].next)) + sweep[f].free <= Capacity
      <4>1. sweep[f].free \in Nat
        BY <1>2
      <4>2. Cardinality(Promised \cup ToSet(sweep[f].next)) + sweep[f].free <= Capacity
        BY <1>6
      <4> QED
        BY <3>2, <4>1, <4>2, CapacityIsNat
    <3>4. sweep'[f] = sweep[f]
      BY <1>3, <2>3
    <3> QED
      BY <3>3, <3>4, SameFit
  <2> QED
    BY <2>1, <2>2, <2>3
<1> QED
  BY <1>5, <1>7, <1>8 DEF PromisesFit, Promised

(* The enforcers touch the list, the holds and their own place only.       *)
LEMMA SweepTypes ==
  ASSUME IInv, NEW e \in Enforcers, StartSweep(e) \/ SweepStep(e),
         NEW s \in Place, NextOf(s), sweep' = [sweep EXCEPT ![e] = s], PromisesFit'
  PROVE  IInv'
<1>1. UNCHANGED <<at, seats, joined>>
  BY DEF StartSweep, SweepStep, CountWaiting, DropRoom, MeasureRoom, RangeQueue, HoldSeat, Unqueue,
     lobbyVars
<1>2. sweep \in [Enforcers -> Place] /\ sweep[e] \in Place /\ queue \in Seq(Users)
  BY DEF IInv, TypeOK, Place
<1>5. listed' \in BOOLEAN /\ lock' \in BOOLEAN /\ crossed' \in BOOLEAN
  BY Zenon DEF StartSweep, SweepStep, CountWaiting, DropRoom, MeasureRoom, RangeQueue, HoldSeat, Unqueue,
     waitingVars, IInv, TypeOK
<1>6. hold' \in [Users -> {"none", "held", "lapsed"}]
  BY DEF StartSweep, SweepStep, CountWaiting, DropRoom, MeasureRoom, RangeQueue, HoldSeat, Unqueue,
     waitingVars, IInv, TypeOK
<1>7. tidying' \subseteq Users
  BY DEF StartSweep, SweepStep, CountWaiting, DropRoom, MeasureRoom, RangeQueue, HoldSeat, Unqueue,
     waitingVars, TidyHolds, IInv, TypeOK
<1>8. queue' \in Seq(Users)
  <2>1. Without(queue, Head(sweep[e].next)) \in Seq(Users)
    BY <1>2, WithoutIsSeq
  <2> QED
    BY <1>2, <2>1 DEF StartSweep, SweepStep, CountWaiting, DropRoom, MeasureRoom, RangeQueue, HoldSeat,
       Unqueue, waitingVars
<1>11. sweep' \in [Enforcers -> Place]
  BY <1>2
<1>12. SweepHasNext'
  BY <1>2 DEF IInv, SweepHasNext, HandsOut, NextOf, Hands
<1>13. TypeOK'
  BY <1>1, <1>5, <1>6, <1>7, <1>8, <1>11, Zenon DEF IInv, TypeOK, Place
<1>14. LearnersWithinCapacity'
  BY <1>1 DEF IInv, LearnersWithinCapacity
<1> QED
  BY <1>12, <1>13, <1>14 DEF IInv

(* The counting and the handing out of one sweep.                          *)
LEMMA SweepPreserves ==
  ASSUME IInv, NEW e \in Enforcers, StartSweep(e) \/ SweepStep(e) PROVE IInv'
<1>1. /\ sweep \in [Enforcers -> Place] /\ sweep[e] \in Place /\ queue \in Seq(Users)
      /\ sweep[e].next \in Seq(Users) /\ sweep[e].free \in Nat
      /\ NextOf(sweep[e]) /\ (HandsOut(e) <=> Hands(sweep[e]))
  BY CapacityIsNat DEF IInv, TypeOK, Place, SweepHasNext, HandsOut, NextOf, Hands
<1>2. Promised \subseteq Users
  BY PromisedPeople DEF IInv
<1>3. ~crossed => /\ Cardinality(Promised) <= Capacity
                  /\ Cardinality(Promised \cup ToSet(sweep[e].next)) + sweep[e].free <= Capacity
  BY DEF IInv, PromisesFit, Promised
<1>4. /\ ToSet(<<>>) = {} /\ Cardinality(Promised) \in Nat
      /\ ToSet(sweep[e].next) \subseteq Users
      /\ Cardinality(Promised \cup ToSet(sweep[e].next)) \in Nat
  <2>1. ToSet(<<>>) = {}
    BY DEF ToSet
  <2>2. ToSet(sweep[e].next) \subseteq Users
    BY <1>1, ListCount
  <2>3. Promised \cup ToSet(sweep[e].next) \subseteq Users
    BY <1>2, <2>2
  <2> QED
    BY <1>2, <2>1, <2>2, <2>3, PeopleCount
(* A step that hands out and promises nothing. *)
<1>5. ASSUME NEW s \in Place, sweep' = [sweep EXCEPT ![e] = s], ~Hands(s), NextOf(s),
             Promised' = Promised, crossed' = crossed
      PROVE  IInv'
  <2>1. s.next = <<>> /\ s.free = 0
    BY <1>5 DEF NextOf
  <2>2. Promised' \cup ToSet(s.next) = Promised
    BY <1>4, <1>5, <2>1
  <2>3. ~crossed => Cardinality(Promised' \cup ToSet(s.next)) + s.free <= Capacity
    BY <1>3, <1>4, <2>1, <2>2, FitAlone
  <2>4. PromisesFit'
    BY <1>5, <2>3, OneSweeps
  <2> QED
    BY <1>5, <2>4, SweepTypes
<1>6. Idle \in Place /\ ~Hands(Idle) /\ NextOf(Idle)
  BY CapacityIsNat DEF Idle, SweepPoints, Place, Hands, NextOf
<1>7. ASSUME NEW p \in {"counting", "dropping", "measuring"}, Goto(e, p), ~HandsOut(e),
             Promised' = Promised, crossed' = crossed
      PROVE  IInv'
  <2> DEFINE s == [sweep[e] EXCEPT !.at = p]
  <2>1. s \in Place /\ s.at = p /\ s.next = sweep[e].next /\ s.free = sweep[e].free
    BY <1>1 DEF Place, SweepPoints
  <2>2. sweep' = [sweep EXCEPT ![e] = s]
    BY <1>1, <1>7 DEF Goto
  <2> HIDE DEF s
  <2>3. ~Hands(s) /\ NextOf(s)
    BY <1>1, <1>7, <2>1 DEF Hands, NextOf
  <2> QED
    BY <1>5, <1>7, <2>1, <2>2, <2>3
<1>8. CASE StartSweep(e)
  <2>1. Promised' = Promised /\ crossed' = crossed /\ ~HandsOut(e)
    BY <1>8 DEF StartSweep, lobbyVars, waitingVars, Promised, Counted, Held, OnTheWay, HandsOut, Idle
  <2>2. CASE sweep' = sweep
    <3>1. sweep' = [sweep EXCEPT ![e] = Idle]
      BY <1>1, <1>8, <2>2 DEF StartSweep
    <3> QED
      BY <1>5, <1>6, <2>1, <3>1
  <2>3. CASE Goto(e, "counting")
    BY <1>7, <2>1, <2>3
  <2> QED
    BY <1>8, <2>2, <2>3 DEF StartSweep
<1>9. CASE CountWaiting(e) \/ DropRoom(e)
  <2>1. Promised' = Promised /\ crossed' = crossed /\ ~HandsOut(e)
    BY <1>9 DEF CountWaiting, DropRoom, lobbyVars, waitingVars, Promised, Counted, Held, OnTheWay, HandsOut
  <2>2. CASE CountWaiting(e)
    BY <1>7, <2>1, <2>2 DEF CountWaiting
  <2>3. CASE DropRoom(e)
    BY <1>5, <1>6, <2>1, <2>3 DEF DropRoom, Done
  <2> QED
    BY <1>9, <2>2, <2>3
<1>10. CASE MeasureRoom(e)
  <2> DEFINE s == [at |-> "ranging", free |-> FreeSeats, next |-> <<>>]
  <2>1. UNCHANGED <<Promised, Counted, OnTheWay>> /\ crossed' \in BOOLEAN
    BY <1>10 DEF MeasureRoom, lobbyVars, Promised, Counted, Held, OnTheWay
  <2>2. CASE crossed'
    <3>1. PromisesFit'
      BY <2>2 DEF PromisesFit
    <3>2. s \in Place /\ NextOf(s)
      BY FreeSeatsType DEF SweepPoints, IInv, Place, NextOf, Hands
    <3>3. sweep' = [sweep EXCEPT ![e] = Idle] \/ sweep' = [sweep EXCEPT ![e] = s]
      BY <1>10 DEF MeasureRoom
    <3> HIDE DEF s
    <3> QED
      BY <1>6, <1>10, <3>1, <3>2, <3>3, SweepTypes DEF SweepStep
  <2>3. CASE ~crossed'
    <3>1. ~crossed /\ OnTheWay \subseteq Counted /\ \A f \in Enforcers : ~HandsOut(f)
      BY <1>10, <2>3 DEF MeasureRoom
    <3>2. crossed' = crossed
      BY <2>1, <2>3, <3>1 DEF IInv, TypeOK
    <3>3. CASE sweep' = [sweep EXCEPT ![e] = Idle]
      BY <1>5, <1>6, <2>1, <3>2, <3>3
    <3>4. CASE FreeSeats # 0 /\ sweep' = [sweep EXCEPT ![e] = s]
      <4>1. s \in Place /\ NextOf(s)
        BY FreeSeatsType DEF SweepPoints, IInv, Place, NextOf, Hands
      <4>2. Promised = seats \cup Held /\ seats \subseteq Users /\ Held \subseteq Users
        BY <3>1 DEF Promised, Counted, Held, IInv, TypeOK
      <4>3. Cardinality(seats) \in Nat /\ Cardinality(Held) \in Nat
        BY <4>2, PeopleCount
      <4>4. Cardinality(Promised) <= Cardinality(seats) + Cardinality(Held)
        BY <4>2, Together
      <4>5. FreeSeats = Capacity - (Cardinality(seats) + Cardinality(Held))
        BY <3>4 DEF FreeSeats, LiveHolds
      <4>6. Cardinality(Promised) + FreeSeats <= Capacity
        BY <1>4, <4>3, <4>4, <4>5, CapacityIsNat
      <4>7. \A f \in Enforcers \ {e} :
              ~HandsOut(f)' /\ sweep'[f].free = 0 /\ ToSet(sweep'[f].next) = {}
        <5>1. \A f \in Enforcers \ {e} : sweep'[f] = sweep[f]
          BY <1>1, <3>4
        <5> QED
          BY <1>4, <3>1, <5>1 DEF IInv, SweepHasNext, HandsOut
      <4>8. sweep'[e].free = FreeSeats /\ ToSet(sweep'[e].next) = {}
        BY <1>1, <1>4, <3>4
      <4>9. ASSUME NEW f \in Enforcers
            PROVE  Cardinality(Promised' \cup ToSet(sweep'[f].next)) + sweep'[f].free <= Capacity
        <5>1. Promised' \cup ToSet(sweep'[f].next) = Promised
          BY <2>1, <4>7, <4>8
        <5>2. CASE f = e
          BY <4>6, <4>8, <5>1, <5>2, SameFit
        <5>3. CASE f # e
          BY <1>3, <1>4, <3>1, <4>7, <5>1, <5>3, FitAlone
        <5> QED
          BY <5>2, <5>3
      <4>10. Cardinality(Promised') <= Capacity
        BY <1>3, <2>1, <3>1
      <4>11. \A f, g \in Enforcers : HandsOut(f)' /\ HandsOut(g)' => f = g
        BY <4>7
      <4>12. PromisesFit'
        BY <4>9, <4>10, <4>11 DEF PromisesFit, Promised
      <4> HIDE DEF s
      <4> QED
        BY <1>10, <3>4, <4>1, <4>12, SweepTypes DEF SweepStep
    <3> QED
      BY <1>10, <3>3, <3>4 DEF MeasureRoom
  <2> QED
    BY <2>1, <2>2, <2>3
<1>11. CASE RangeQueue(e)
  <2> DEFINE n == SubSeq(queue, 1, IF sweep[e].free < Len(queue) THEN sweep[e].free ELSE Len(queue))
             s == [at |-> "holding", free |-> 0, next |-> n]
  <2>1. Promised' = Promised /\ crossed' = crossed /\ HandsOut(e) /\ sweep[e].next = <<>>
    BY <1>1, <1>11 DEF RangeQueue, lobbyVars, waitingVars, Promised, Counted, Held, OnTheWay, HandsOut,
                       NextOf
  <2>2. n \in Seq(Users) /\ Len(n) <= sweep[e].free /\ Len(n) \in Nat
    BY <1>1
  <2>3. \/ sweep' = [sweep EXCEPT ![e] = Idle]
        \/ n # <<>> /\ sweep' = [sweep EXCEPT ![e] = s]
    BY <1>11 DEF RangeQueue
  <2> HIDE DEF n
  <2>4. s \in Place /\ s.next = n /\ s.free = 0 /\ (n # <<>> => NextOf(s))
    BY <2>2, CapacityIsNat DEF SweepPoints, Place, NextOf, Hands
  <2> HIDE DEF s
  <2>5. ToSet(n) \subseteq Users /\ Cardinality(ToSet(n)) <= Len(n) /\ Cardinality(ToSet(n)) \in Nat
    BY <2>2, ListCount, PeopleCount
  <2>6. Cardinality(Promised \cup ToSet(n)) <= Cardinality(Promised) + Cardinality(ToSet(n))
        /\ Cardinality(Promised \cup ToSet(n)) \in Nat
    <3>1. Promised \cup ToSet(n) \subseteq Users
      BY <1>2, <2>5
    <3> QED
      BY <1>2, <2>5, <3>1, Together, PeopleCount
  <2>7. Promised \cup ToSet(sweep[e].next) = Promised
    BY <1>4, <2>1
  <2>8. ~crossed => Cardinality(Promised' \cup ToSet(s.next)) + s.free <= Capacity
    <3>1. SUFFICES ASSUME ~crossed
                   PROVE  Cardinality(Promised' \cup ToSet(s.next)) + s.free <= Capacity
      OBVIOUS
    <3>2. Cardinality(Promised) + sweep[e].free <= Capacity
      BY <1>3, <2>7, <3>1, SameFit
    <3>3. Cardinality(Promised \cup ToSet(n)) <= Capacity
      BY <1>1, <1>4, <2>2, <2>5, <2>6, <3>2, CapacityIsNat
    <3>4. Promised \cup ToSet(n) = Promised' \cup ToSet(s.next)
      BY <2>1, <2>4
    <3> QED
      BY <2>4, <2>6, <3>3, <3>4, FitAlone
  <2>9. CASE n # <<>> /\ sweep' = [sweep EXCEPT ![e] = s]
    <3>1. PromisesFit'
      BY <2>1, <2>4, <2>8, <2>9, OneSweeps
    <3> QED
      BY <1>11, <2>4, <2>9, <3>1, SweepTypes DEF SweepStep
  <2> QED
    BY <1>5, <1>6, <2>1, <2>3, <2>9
<1>12. CASE HoldSeat(e)
  <2> DEFINE s == [sweep[e] EXCEPT !.at = "unqueueing"]
  <2>1. sweep[e].next # <<>> /\ sweep[e].free = 0 /\ HandsOut(e) /\ crossed' = crossed
    BY <1>12 DEF HoldSeat, IInv, SweepHasNext, HandsOut
  <2>2. sweep' = [sweep EXCEPT ![e] = s]
    BY <1>1, <1>12 DEF HoldSeat, Goto
  <2>3. s \in Place /\ s.at = "unqueueing" /\ s.next = sweep[e].next /\ s.free = 0
    BY <1>1, <2>1 DEF SweepPoints, Place
  <2> HIDE DEF s
  <2>4. Head(sweep[e].next) \in ToSet(sweep[e].next)
    BY <1>1, <2>1 DEF ToSet
  <2>5. Promised' \subseteq Promised \cup ToSet(sweep[e].next)
    <3>1. Held' \subseteq Held \cup {Head(sweep[e].next)}
      BY <1>12 DEF HoldSeat, Held, IInv, TypeOK
    <3> QED
      BY <1>12, <2>4, <3>1 DEF HoldSeat, lobbyVars, Promised, Counted, OnTheWay
  <2>6. Promised' \cup ToSet(s.next) \subseteq Promised \cup ToSet(sweep[e].next)
        /\ Promised \cup ToSet(sweep[e].next) \subseteq Users
    BY <1>2, <1>4, <2>3, <2>5
  <2>7. Cardinality(Promised' \cup ToSet(s.next)) <= Cardinality(Promised \cup ToSet(sweep[e].next))
        /\ Cardinality(Promised' \cup ToSet(s.next)) \in Nat
    BY <2>6, FewerPeople
  <2>8. ~crossed => Cardinality(Promised' \cup ToSet(s.next)) + s.free <= Capacity
    BY <1>3, <1>4, <2>1, <2>3, <2>7, CapacityIsNat
  <2>9. PromisesFit'
    BY <2>1, <2>2, <2>3, <2>5, <2>8, OneSweeps
  <2>10. NextOf(s)
    BY <2>1, <2>3 DEF NextOf, Hands
  <2> QED
    BY <1>12, <2>2, <2>3, <2>9, <2>10, SweepTypes DEF SweepStep
<1>13. CASE Unqueue(e)
  <2> DEFINE rest == Tail(sweep[e].next)
             s == [at |-> "holding", free |-> 0, next |-> rest]
  <2>1. sweep[e].next # <<>> /\ sweep[e].free = 0 /\ HandsOut(e) /\ crossed' = crossed
    BY <1>13 DEF Unqueue, IInv, SweepHasNext, HandsOut
  <2>2. rest \in Seq(Users) /\ ToSet(rest) \subseteq ToSet(sweep[e].next)
    BY <1>1, <2>1 DEF ToSet
  <2>3. \/ sweep' = [sweep EXCEPT ![e] = Idle]
        \/ rest # <<>> /\ sweep' = [sweep EXCEPT ![e] = s]
    BY <1>13 DEF Unqueue
  <2>4. Promised' = Promised
    BY <1>13 DEF Unqueue, lobbyVars, Promised, Counted, Held, OnTheWay
  <2> HIDE DEF rest
  <2>5. s \in Place /\ s.next = rest /\ s.free = 0 /\ (rest # <<>> => NextOf(s))
    BY <2>2, CapacityIsNat DEF SweepPoints, Place, NextOf, Hands
  <2> HIDE DEF s
  <2>6. Promised' \cup ToSet(s.next) \subseteq Promised \cup ToSet(sweep[e].next)
        /\ Promised \cup ToSet(sweep[e].next) \subseteq Users
    BY <1>2, <1>4, <2>2, <2>4, <2>5
  <2>7. Cardinality(Promised' \cup ToSet(s.next)) <= Cardinality(Promised \cup ToSet(sweep[e].next))
        /\ Cardinality(Promised' \cup ToSet(s.next)) \in Nat
    BY <2>6, FewerPeople
  <2>8. ~crossed => Cardinality(Promised' \cup ToSet(s.next)) + s.free <= Capacity
    BY <1>3, <1>4, <2>1, <2>5, <2>7, CapacityIsNat
  <2>9. CASE rest # <<>> /\ sweep' = [sweep EXCEPT ![e] = s]
    <3>1. PromisesFit'
      BY <2>1, <2>4, <2>5, <2>8, <2>9, OneSweeps
    <3> QED
      BY <1>13, <2>5, <2>9, <3>1, SweepTypes DEF SweepStep
  <2> QED
    BY <1>5, <1>6, <2>1, <2>3, <2>4, <2>9
<1> QED
  BY <1>8, <1>9, <1>10, <1>11, <1>12, <1>13 DEF SweepStep

(* Every step keeps the inductive invariant.                               *)
LEMMA StepPreserves == IInv /\ [Next]_vars => IInv'
<1> SUFFICES ASSUME IInv, [Next]_vars PROVE IInv'
  OBVIOUS
<1>1. ASSUME NEW u \in Users,
             \/ joinWaitlist(u) \/ leaveWaitlist(u) \/ Decide(u) \/ LobbyStep(u)
             \/ Leave(u) \/ HoldLapses(u) \/ SeatExpires(u) \/ Tidy(u)
      PROVE  IInv'
  <2>1. CASE Decide(u)
    BY <2>1, LobbyPreserves, DecidePromises
  <2>2. CASE \/ joinWaitlist(u) \/ ListRoom(u) \/ leaveWaitlist(u) \/ DropHold(u)
             \/ HoldLapses(u) \/ admissionFor(u) \/ Tidy(u)
    BY <2>2, LobbyPreserves, LobbyPromises
  <2>3. CASE Reserve(u) \/ Leave(u) \/ SeatExpires(u)
    BY <2>3, ReservePreserves, LeavingPreserves
  <2> QED
    BY <1>1, <2>1, <2>2, <2>3 DEF LobbyStep
<1>2. ASSUME NEW e \in Enforcers, StartSweep(e) \/ SweepStep(e) PROVE IInv'
  BY <1>2, SweepPreserves
<1>3. ASSUME UNCHANGED <<at, seats, joined, queue, hold, tidying, crossed, listed, sweep>>,
             lock' \in BOOLEAN
      PROVE  IInv'
  <2>1. TypeOK'
    BY <1>3, Zenon DEF IInv, TypeOK
  <2>2. Promised' = Promised
    BY <1>3 DEF Promised, Counted, Held, OnTheWay
  <2>3. PromisesFit'
    BY <1>3, <2>2, FewerPromises
  <2> QED
    BY <1>3, <2>1, <2>3 DEF IInv, LearnersWithinCapacity, SweepHasNext, HandsOut
<1>4. CASE LockExpires
  BY <1>3, <1>4 DEF LockExpires, lobbyVars, waitingVars
<1>5. CASE UNCHANGED vars
  <2>1. UNCHANGED <<at, seats, joined, queue, hold, tidying, crossed, listed, lock, sweep>>
    BY <1>5 DEF vars, lobbyVars, waitingVars, sweepVars
  <2>2. lock' \in BOOLEAN
    BY <2>1 DEF IInv, TypeOK
  <2> QED
    BY <1>3, <2>1, <2>2
<1> QED
  BY <1>1, <1>2, <1>4, <1>5 DEF Next

(* The inductive invariant holds throughout.                               *)
THEOREM WaitingInvariant == Spec => []IInv
BY InitEstablishes, StepPreserves, PTL DEF Spec

(* Whom the decision or a hold lets in the seat script refuses only after  *)
(* somebody came in past the count, for any number of people and seats:    *)
(* the person on the way is counted in what fits, so there is a seat.      *)
THEOREM LetInIsSeated == Spec => LetInGetIn
<1> DEFINE Kept == \A u \in Users :
                     at[u] \in {"cleared", "redeeming"} /\ at'[u] = "lobby" => crossed
<1>1. ASSUME IInv, [Next]_vars, NEW u \in Users,
             at[u] \in {"cleared", "redeeming"}, at'[u] = "lobby", ~crossed
      PROVE  FALSE
  <2>1. at'[u] # at[u] /\ at \in [Users -> Points]
    BY <1>1 DEF IInv, TypeOK
  <2>2. Reserve(u)
    <3>1. ASSUME NEW v \in Users,
                 \/ joinWaitlist(v) \/ leaveWaitlist(v) \/ Decide(v) \/ ListRoom(v) \/ DropHold(v)
                 \/ admissionFor(v) \/ Leave(v)
          PROVE  at'[u] = at[u]
      BY <1>1, <2>1, <3>1 DEF joinWaitlist, leaveWaitlist, Decide, ListRoom, DropHold, admissionFor,
                              Leave, Go
    <3>2. ASSUME NEW v \in Users, HoldLapses(v) \/ SeatExpires(v) \/ Tidy(v)
          PROVE  at' = at
      BY <3>2 DEF HoldLapses, SeatExpires, Tidy, lobbyVars
    <3>3. ASSUME NEW v \in Users, v # u, Reserve(v)
          PROVE  at'[u] = at[u]
      BY <2>1, <3>3 DEF Reserve, Go
    <3>4. ASSUME NEW e \in Enforcers, StartSweep(e) \/ SweepStep(e)
          PROVE  at' = at
      BY <3>4 DEF StartSweep, SweepStep, CountWaiting, DropRoom, MeasureRoom, RangeQueue, HoldSeat,
                  Unqueue, lobbyVars
    <3>5. CASE LockExpires \/ UNCHANGED vars
      BY <2>1, <3>5 DEF LockExpires, vars, lobbyVars
    <3> QED
      BY <1>1, <2>1, <3>1, <3>2, <3>3, <3>4, <3>5 DEF Next, LobbyStep
  <2>3. ~SeatFree(u)
    BY <1>1, <2>1, <2>2 DEF Reserve, Go
  <2>4. u \notin seats /\ ~(Cardinality(seats) < Capacity)
    BY <2>3 DEF SeatFree
  <2>5. seats \cup {u} \subseteq Promised /\ Promised \subseteq Users
    BY <1>1, PromisedPeople DEF Promised, Counted, OnTheWay, IInv
  <2>6. /\ Cardinality(seats \cup {u}) <= Cardinality(Promised)
        /\ Cardinality(seats \cup {u}) \in Nat /\ Cardinality(Promised) \in Nat
    BY <2>5, FewerPeople
  <2>7. Cardinality(seats \cup {u}) = Cardinality(seats) + 1 /\ Cardinality(seats) \in Nat
    <3>1. IsFiniteSet(seats) /\ Cardinality(seats) \in Nat
      BY <1>1, PeopleCount DEF IInv, TypeOK
    <3> QED
      BY <2>4, <3>1, FS_AddElement
  <2>8. Cardinality(Promised) <= Capacity
    BY <1>1 DEF IInv, PromisesFit, Promised
  <2> QED
    BY <2>4, <2>6, <2>7, <2>8, CapacityIsNat
<1>2. IInv /\ [Next]_vars => [Kept]_vars
  BY <1>1
<1> QED
  BY <1>2, WaitingInvariant, PTL DEF Spec, LetInGetIn
=============================================================================
