----------------------------- MODULE SfuDrain -----------------------------
(***************************************************************************)
(* Taking one SFU node out of service: lifecycle/drainSfu.js.              *)
(*                                                                         *)
(* The controller is one promise chain (run) beside a poller (watch) and   *)
(* callers of beginDrain, all on the node's event loop: the actions below  *)
(* are the stretches between two awaits.  The rooms of the node are what   *)
(* the drain waits for; people come and go meanwhile.                      *)
(***************************************************************************)
EXTENDS Naturals

CONSTANTS
  MaxPeople,   \* bound on the people on the node
  Attempts,    \* COMPLETE_ATTEMPTS
  FlagWriters  \* who writes the drain flag: a subset of {"manual", "lifecycle"}

ASSUME MaxPeopleType == MaxPeople \in Nat \ {0}
ASSUME AttemptsType  == Attempts \in Nat \ {0}
ASSUME WritersType   == FlagWriters \subseteq {"manual", "lifecycle"}

VARIABLES
  state,      \* the controller's state
  at,         \* where run is waiting; "idle" is running === null
  lifecycle,  \* trigger.lifecycle: the flag run was started with names a hook
  cancelled,  \* cancelRequested
  notified,   \* run told the rooms to move
  seen,       \* the time as run last read it
  forced,     \* run gave up waiting at the deadline
  attempt,    \* completeLifecycle's attempt
  time,       \* now() against this run's moveAt and deadlineAt
  flag,       \* media:drain:<nodeId> in Redis
  poll,       \* checkFlag: "none", or what its GET has read
  marked,     \* the node is out of the assignment pool
  hook,       \* the lifecycle action of the ASG
  rooms,      \* the node carries a room
  opening,    \* a createRoom is past canAcceptRoom
  people      \* peers in the node's rooms

ctl == <<state, at, lifecycle, cancelled, notified, seen, forced, attempt>>
load == <<rooms, opening, people>>
drainVars == <<ctl, time, flag, poll, marked, hook, load>>

Phases == {"early", "grace", "late"}   \* before moveAt, before deadlineAt, after
Flags == {"absent", "manual", "lifecycle"}

DrainTypeOK ==
  /\ state \in {"serving", "draining", "moving", "drained", "cancelled"}
  /\ at \in {"idle", "mark", "loop", "notify", "beat", "sleep", "unmark", "leave", "complete"}
  /\ lifecycle \in BOOLEAN /\ cancelled \in BOOLEAN
  /\ notified \in BOOLEAN /\ forced \in BOOLEAN
  /\ seen \in Phases /\ time \in Phases
  /\ attempt \in 1..Attempts
  /\ flag \in Flags
  /\ poll \in Flags \cup {"none"}
  /\ marked \in BOOLEAN
  /\ hook \in {"none", "waiting", "completed"}
  /\ rooms \in BOOLEAN /\ opening \in BOOLEAN
  /\ people \in 0..MaxPeople

DrainInit ==
  /\ state = "serving" /\ at = "idle"
  /\ lifecycle = FALSE /\ cancelled = FALSE /\ notified = FALSE /\ forced = FALSE
  /\ seen = "early" /\ time = "early" /\ attempt = 1
  /\ flag = "absent" /\ poll = "none"
  /\ marked = FALSE /\ hook = "none"
  /\ rooms = FALSE /\ opening = FALSE /\ people = 0

isDraining == state \in {"draining", "moving", "drained"}
running == at # "idle"

-----------------------------------------------------------------------------
(* start, cancel, checkFlag                                                *)

(* start(flag): run begins unless one is under way or the node is drained. *)
(* deadlineAt may be as near as startedAt, so any phase may come first.    *)
CanStart == ~running /\ state # "drained"
StartRun(withHook) ==
  /\ state' = "draining" /\ at' = "mark"
  /\ lifecycle' = withHook
  /\ cancelled' = FALSE /\ notified' = FALSE /\ forced' = FALSE
  /\ seen' \in Phases /\ time' = seen'
  /\ attempt' = 1

(* beginDrain, from SIGTERM or after too many worker crashes.              *)
BeginDrain ==
  /\ CanStart
  /\ StartRun(FALSE)
  /\ UNCHANGED <<flag, poll, marked, hook, load>>

(* checkFlag's GET, every POLL_INTERVAL_MS.                                *)
ReadFlag ==
  /\ poll = "none"
  /\ poll' = flag
  /\ UNCHANGED <<ctl, time, flag, marked, hook, load>>

(* Mutant of CanCancel: the trigger is not looked at.                      *)
CanCancelAny == running

CanCancel == running /\ ~lifecycle

Starts == poll # "absent" /\ state = "serving" /\ CanStart
Cancels == poll = "absent" /\ CanCancel

(* What checkFlag does with the answer.                                    *)
ApplyFlag ==
  /\ poll # "none"
  /\ poll' = "none"
  /\ \/ Starts /\ StartRun(poll = "lifecycle")
     \/ /\ Cancels
        /\ cancelled' = TRUE
        /\ UNCHANGED <<state, at, lifecycle, notified, seen, forced, attempt, time>>
     \/ ~Starts /\ ~Cancels /\ UNCHANGED <<ctl, time>>
  /\ UNCHANGED <<flag, marked, hook, load>>

(* Redis did not answer: keep serving.                                     *)
CheckFlagFails ==
  /\ poll # "none"
  /\ poll' = "none"
  /\ UNCHANGED <<ctl, time, flag, marked, hook, load>>

-----------------------------------------------------------------------------
(* run                                                                     *)

Goto(point) == at' = point

(* setDraining(true) is back, or failed.                                   *)
Marked ==
  /\ at = "mark"
  /\ marked' \in {marked, TRUE}
  /\ Goto("loop")
  /\ UNCHANGED <<state, lifecycle, cancelled, notified, seen, forced, attempt, time, flag, poll,
                 hook, load>>

NobodyHere == ~rooms \/ people = 0

(* Mutant of Continue: the deadline is not looked at.                      *)
ContinueForever(now) ==
  /\ at' = IF lifecycle THEN "beat" ELSE "sleep"
  /\ UNCHANGED forced

(* The rest of a round, with the time read before the notification: over   *)
(* at the deadline, otherwise a heartbeat when one is due, then a sleep.   *)
Continue(now) ==
  IF now = "late" THEN at' = "leave" /\ forced' = TRUE
                  ELSE /\ at' \in {"sleep"} \cup (IF lifecycle THEN {"beat"} ELSE {})
                       /\ UNCHANGED forced

(* Mutant of Round: the deadline is looked at first.                       *)
RoundDeadlineFirst ==
  IF time = "late" \/ time = "early" \/ notified
  THEN Continue(time) /\ UNCHANGED <<state, notified>>
  ELSE state' = "moving" /\ Goto("notify") /\ UNCHANGED <<notified, forced>>

(* From the clock to the next await, on a node that carries people.        *)
Round ==
  IF time # "early" /\ ~notified
  THEN state' = "moving" /\ Goto("notify") /\ UNCHANGED <<notified, forced>>
  ELSE Continue(time) /\ UNCHANGED <<state, notified>>

(* The top of the loop.                                                    *)
Loop ==
  /\ at = "loop"
  /\ IF cancelled
     THEN Goto("unmark") /\ UNCHANGED <<state, notified, seen, forced>>
     ELSE IF NobodyHere
     THEN Goto("leave") /\ UNCHANGED <<state, notified, seen, forced>>
     ELSE Round /\ seen' = time
  /\ UNCHANGED <<lifecycle, cancelled, attempt, time, flag, poll, marked, hook, load>>

(* notifyRoomsDraining is back, or failed.                                 *)
Notified ==
  /\ at = "notify"
  /\ notified' = TRUE
  /\ Continue(seen)
  /\ UNCHANGED <<state, lifecycle, cancelled, seen, attempt, time, flag, poll, marked, hook, load>>

(* The lifecycle heartbeat is back, or failed; then the sleep is over.     *)
Beat ==
  /\ at = "beat"
  /\ Goto("sleep")
  /\ UNCHANGED <<state, lifecycle, cancelled, notified, seen, forced, attempt, time, flag, poll,
                 marked, hook, load>>

Wake ==
  /\ at = "sleep"
  /\ Goto("loop")
  /\ UNCHANGED <<state, lifecycle, cancelled, notified, seen, forced, attempt, time, flag, poll,
                 marked, hook, load>>

(* setDraining(false) is back: the process registrar ignores it, another   *)
(* one puts the node back.                                                 *)
Unmarked ==
  /\ at = "unmark"
  /\ marked' \in {marked, FALSE}
  /\ state' = "cancelled" /\ Goto("idle")
  /\ UNCHANGED <<lifecycle, cancelled, notified, seen, forced, attempt, time, flag, poll, hook, load>>

Finish == state' = "drained" /\ Goto("idle")

(* deregister is back, or failed.                                          *)
Deregistered ==
  /\ at = "leave"
  /\ marked' \in {marked, TRUE}
  /\ IF lifecycle THEN Goto("complete") /\ UNCHANGED state ELSE Finish
  /\ UNCHANGED <<lifecycle, cancelled, notified, seen, forced, attempt, time, flag, poll, hook, load>>

(* completeLifecycle: an attempt lands, or is repeated, or was the last.   *)
Completed ==
  /\ at = "complete"
  /\ hook' = "completed"
  /\ Finish
  /\ UNCHANGED <<lifecycle, cancelled, notified, seen, forced, attempt, time, flag, poll, marked, load>>

CompleteFails ==
  /\ at = "complete"
  /\ IF attempt < Attempts THEN attempt' = attempt + 1 /\ UNCHANGED <<state, at>>
                           ELSE Finish /\ UNCHANGED attempt
  /\ UNCHANGED <<lifecycle, cancelled, notified, seen, forced, time, flag, poll, marked, hook, load>>

Run ==
  \/ Marked \/ Loop \/ Notified \/ Beat \/ Wake \/ Unmarked
  \/ Deregistered \/ Completed \/ CompleteFails

-----------------------------------------------------------------------------
(* The surroundings: the flag, the clock, the node's rooms                 *)

(* An operator sets the flag, node-lifecycle does for a terminate hook.    *)
WriteFlag(kind) ==
  /\ kind \in FlagWriters
  /\ flag' = kind
  /\ hook' = IF kind = "lifecycle" /\ hook = "none" THEN "waiting" ELSE hook
  /\ UNCHANGED <<ctl, time, poll, marked, load>>

(* An operator deletes the flag of a manual drain.                         *)
DeleteFlag ==
  /\ flag = "manual"
  /\ flag' = "absent"
  /\ UNCHANGED <<ctl, time, poll, marked, hook, load>>

TimePasses ==
  /\ running /\ time # "late"
  /\ time' = IF time = "early" THEN "grace" ELSE "late"
  /\ UNCHANGED <<ctl, flag, poll, marked, hook, load>>

(* createRoom: canAcceptRoom, and after the router is made, rooms.set.     *)
OpenRoom ==
  /\ ~rooms /\ ~opening /\ ~isDraining
  /\ opening' = TRUE
  /\ UNCHANGED <<ctl, time, flag, poll, marked, hook, rooms, people>>

RoomOpened ==
  /\ opening
  /\ opening' = FALSE /\ rooms' = TRUE
  /\ UNCHANGED <<ctl, time, flag, poll, marked, hook, people>>

(* addPeer: a room that is here admits late joiners, draining or not.      *)
PersonJoins ==
  /\ rooms /\ people < MaxPeople
  /\ people' = people + 1
  /\ UNCHANGED <<ctl, time, flag, poll, marked, hook, rooms, opening>>

PersonLeaves ==
  /\ people > 0
  /\ people' = people - 1
  /\ UNCHANGED <<ctl, time, flag, poll, marked, hook, rooms, opening>>

(* closeRoom: the last one left, or the host ended it for everyone.        *)
RoomCloses ==
  /\ rooms
  /\ rooms' = FALSE /\ people' = 0
  /\ UNCHANGED <<ctl, time, flag, poll, marked, hook, opening>>

DrainNext ==
  \/ BeginDrain \/ ReadFlag \/ ApplyFlag \/ CheckFlagFails
  \/ Run
  \/ \E kind \in {"manual", "lifecycle"} : WriteFlag(kind)
  \/ DeleteFlag \/ TimePasses
  \/ OpenRoom \/ RoomOpened \/ PersonJoins \/ PersonLeaves \/ RoomCloses

DrainSpec == DrainInit /\ [][DrainNext]_drainVars

(* What run awaits comes back or times out, the clock goes on, the poller  *)
(* polls, and Redis does not fail for ever.                                *)
DrainFairness == WF_drainVars(Run) /\ WF_drainVars(TimePasses) /\ WF_drainVars(ReadFlag) /\ SF_drainVars(ApplyFlag)
DrainFairSpec == DrainSpec /\ DrainFairness

-----------------------------------------------------------------------------
(* Nobody loses their room unwarned: a drain that gives up at its deadline *)
(* has told the rooms to move, also when the deadline had passed before it *)
(* began or passed while it slept.                                         *)
ForcedWereTold == forced => notified

(* "A lifecycle drain cannot be cancelled": not by a poll that read the    *)
(* flag before it was set, nor by what an earlier drain left behind.       *)
LifecycleIsFinal == state = "cancelled" => ~lifecycle

(* A drain that began ends: drained, or cancelled, at the latest after the *)
(* deadline and the attempts to complete the hook.                         *)
DrainSettles == running ~> ~running

-----------------------------------------------------------------------------
(* No cancel request is pending against a run that has a hook, and a run   *)
(* that is being undone was asked to.                                      *)
CancelIsAllowed ==
  /\ cancelled => ~lifecycle
  /\ at = "unmark" => cancelled

DrainInv == DrainTypeOK /\ ForcedWereTold /\ LifecycleIsFinal /\ CancelIsAllowed
=============================================================================
