-------------------------- MODULE SeatReservation --------------------------
(***************************************************************************)
(* The seat hash of one room: capacity/reserveSeat.lua, run by Redis as    *)
(* one atomic step, and capacity/CapacityGuard.js, which calls it.         *)
(*                                                                         *)
(* Several API and SFU tasks call reserveSeat concurrently.  Each reads    *)
(* its own Date.now() before the command travels to Redis, so the "now" a  *)
(* script runs with may be older than the time it runs at, and scripts may *)
(* run in another order than the one in which their clocks were read.      *)
(***************************************************************************)
EXTENDS Integers, FiniteSets

CONSTANTS
  Users,      \* everyone who may ask for a seat
  Moderators, \* hosts and co-hosts: their call carries limit 0, "no limit"
  Limits,     \* the limits a learner's call may carry while the room exists
  Capacity,   \* the largest of them
  TTL,        \* SEAT_TTL_MS, in ticks of the clock
  MaxTime,    \* bound: the clock stops here
  MaxCalls    \* bound: reserveSeat calls on their way to Redis

ASSUME UsersFinite  == IsFiniteSet(Users) /\ Moderators \subseteq Users
ASSUME LimitsBound  == Capacity \in Nat /\ Limits \subseteq 1 .. Capacity
ASSUME TTLPositive  == TTL \in Nat \ {0}
ASSUME BoundsAreNat == MaxTime \in Nat /\ MaxCalls \in Nat

VARIABLES
  clock,      \* wall clock shared by the tasks
  expiry,     \* the Redis hash: holder -> expires_at; its domain is the fields
  keyExpiry,  \* when PEXPIRE removes the whole hash
  calls,      \* reserveSeat calls sent and not yet run: [user, limit, now]
  releases    \* HDEL commands sent and not yet run

seatVars == <<clock, expiry, keyExpiry, calls, releases>>

Holders == DOMAIN expiry

LimitsFor(u) == IF u \in Moderators THEN {0} ELSE Limits

Call == [user : Users, limit : 0 .. Capacity, now : 0 .. MaxTime]

SeatTypeOK ==
  /\ clock \in 0 .. MaxTime
  /\ Holders \subseteq Users
  /\ expiry \in [Holders -> Int]
  /\ keyExpiry \in Int
  /\ calls \subseteq Call
  /\ releases \subseteq Users

SeatInit ==
  /\ clock = 0
  /\ expiry = [u \in {} |-> 0]
  /\ keyExpiry = 0
  /\ calls = {}
  /\ releases = {}

Tick ==
  /\ clock < MaxTime
  /\ clock' = clock + 1
  /\ UNCHANGED <<expiry, keyExpiry, calls, releases>>

(* reserveSeat evaluates Date.now() here; the script runs later.           *)
reserveSeat(u, limit) ==
  /\ limit \in LimitsFor(u)
  /\ Cardinality(calls) < MaxCalls
  /\ calls' = calls \cup {[user |-> u, limit |-> limit, now |-> clock]}
  /\ UNCHANGED <<clock, expiry, keyExpiry, releases>>

(* Mutant of Live: a seat pruned in the very millisecond of its expiry.    *)
LivePrunedEarly(now) == {u \in Holders : expiry[u] > now}

(* The script prunes the seats that expired before its own now.            *)
Live(now) == {u \in Holders : expiry[u] >= now}

(* Mutant of Granted: one seat more than the limit.                        *)
GrantedOneMore(c) ==
  \/ c.user \in Live(c.now)
  \/ c.limit = 0
  \/ Cardinality(Live(c.now)) <= c.limit

(* The caller holds a seat already, has no limit, or finds a seat free.    *)
Granted(c) ==
  \/ c.user \in Live(c.now)
  \/ c.limit = 0
  \/ Cardinality(Live(c.now)) < c.limit

(* Mutant of HashAfter: the seat given the lifetime of the key.            *)
HashAfterKeyTTL(c) ==
  IF Granted(c)
  THEN [u \in Live(c.now) \cup {c.user} |->
          IF u = c.user THEN c.now + 3 * TTL ELSE expiry[u]]
  ELSE [u \in Live(c.now) |-> expiry[u]]

(* The hash the script leaves: pruned, and with the caller's seat written  *)
(* when it is granted.                                                     *)
HashAfter(c) ==
  IF Granted(c)
  THEN [u \in Live(c.now) \cup {c.user} |->
          IF u = c.user THEN c.now + TTL ELSE expiry[u]]
  ELSE [u \in Live(c.now) |-> expiry[u]]

(* Mutant of RunScript: the key given the lifetime of one seat.            *)
RunScriptShortKey(c) ==
  /\ c \in calls
  /\ calls' = calls \ {c}
  /\ expiry' = HashAfter(c)
  /\ keyExpiry' = clock + TTL
  /\ UNCHANGED <<clock, releases>>

(* One run of the script.  Each of its three returns sets PEXPIRE.         *)
RunScript(c) ==
  /\ c \in calls
  /\ calls' = calls \ {c}
  /\ expiry' = HashAfter(c)
  /\ keyExpiry' = clock + 3 * TTL
  /\ UNCHANGED <<clock, releases>>

(* Redis unreachable: reserveSeat admits the caller and writes nothing.    *)
FailOpen(c) ==
  /\ c \in calls
  /\ calls' = calls \ {c}
  /\ UNCHANGED <<clock, expiry, keyExpiry, releases>>

(* releaseSeat: one HDEL, sent now and run later, or lost with a warning.  *)
releaseSeat(u) ==
  /\ releases' = releases \cup {u}
  /\ UNCHANGED <<clock, expiry, keyExpiry, calls>>

RunRelease(u) ==
  /\ u \in releases
  /\ releases' = releases \ {u}
  /\ expiry' = [v \in Holders \ {u} |-> expiry[v]]
  /\ UNCHANGED <<clock, keyExpiry, calls>>

LoseRelease(u) ==
  /\ u \in releases
  /\ releases' = releases \ {u}
  /\ UNCHANGED <<clock, expiry, keyExpiry, calls>>

(* PEXPIRE: an idle key disappears, with every seat in it.                 *)
KeyExpires ==
  /\ Holders # {}
  /\ clock >= keyExpiry
  /\ expiry' = [u \in {} |-> 0]
  /\ UNCHANGED <<clock, keyExpiry, calls, releases>>

SeatNext ==
  \/ Tick
  \/ \E u \in Users, l \in 0 .. Capacity : reserveSeat(u, l)
  \/ \E c \in calls : RunScript(c) \/ FailOpen(c)
  \/ \E u \in Users : releaseSeat(u)
  \/ \E u \in releases : RunRelease(u) \/ LoseRelease(u)
  \/ KeyExpires

SeatSpec == SeatInit /\ [][SeatNext]_seatVars

-----------------------------------------------------------------------------
(* Learners never hold more seats than the largest limit the room ever     *)
(* had, whatever the order and the delay of the scripts: the check and the *)
(* take of reserveSeat.lua are one operation.                              *)
LearnersWithinCapacity == Cardinality(Holders \ Moderators) <= Capacity

(* A seat nobody refreshes is gone one TTL from now at the latest, so a    *)
(* crashed browser never blocks a room: no script, however late, writes an *)
(* expiry further ahead.                                                   *)
SeatsExpireInTime == \A u \in Holders : expiry[u] <= clock + TTL

(* A seat that has not expired is freed only by its own release: neither   *)
(* another caller's prune nor the expiry of the key takes it away.         *)
OnlyReleaseFreesLiveSeat ==
  [][\A u \in Holders :
        (expiry[u] >= clock /\ u \notin Holders') => u \in releases \ releases']_seatVars

-----------------------------------------------------------------------------
(* What the first two need to be inductive: a call on its way read its     *)
(* clock in the past, a learner's call carries a limit, and the key        *)
(* outlives every seat in it.                                              *)
CallsFromThePast ==
  \A c \in calls : c.now <= clock /\ (c.user \notin Moderators => c.limit \in 1 .. Capacity)

KeyOutlivesSeats == \A u \in Holders : expiry[u] + TTL < keyExpiry

SeatInv ==
  /\ SeatTypeOK
  /\ CallsFromThePast
  /\ LearnersWithinCapacity
  /\ SeatsExpireInTime
  /\ KeyOutlivesSeats
=============================================================================
