---------------------------- MODULE LessonMedia ----------------------------
(***************************************************************************)
(* One lesson page: SfuClient, which owns the signalling socket, the media *)
(* and their recovery, and the hook useClassroom, which joins, captures    *)
(* and publishes, and shows the buttons.  An action is the code between    *)
(* two awaits; a request and its answer are one step of the server and one *)
(* of the client together, and other code runs while it is waited for.     *)
(*                                                                         *)
(* The send and the receive transport are one (both are built, closed and  *)
(* replaced together), and the screen share is PresenterLock's.            *)
(***************************************************************************)
EXTENDS Naturals, Sequences, FiniteSets

CONSTANTS
  Nothing,        \* no snapshot, no press (a model value)
  StartMuted,     \* the setting "join with the microphone off"
  MaxJoins,       \* calls of join
  MaxDrops,       \* losses of the signalling socket
  MaxPathFaults,  \* failures of the media path while the server keeps it
  MaxRefusals,    \* requests refused or timed out on a working socket
  MaxDrains,      \* notices of a draining node
  MaxPresses      \* presses of the camera and the microphone button

Sources == {"camera", "microphone"}
RecoverySteps == 3    \* FALLBACK_RECOVERY_STEPS
RejoinAttempts == 3   \* rejoinAttempts

ASSUME LessonAssumption ==
  /\ StartMuted \in BOOLEAN
  /\ Nothing \notin [Sources -> {"none", "live", "paused"}]
  /\ \A n \in {MaxJoins, MaxDrops, MaxPathFaults, MaxRefusals, MaxDrains, MaxPresses} :
       n \in Nat

VARIABLES
  state,     \* SfuClient.state
  room,      \* roomId is set
  joined,    \* joinedRef of the hook
  page,      \* where the hook's join stands
  away,      \* the person has left the page
  policy,    \* roomPolicyRef: "learners join muted", and this is a learner
  enabled,   \* what the buttons say
  track,     \* the captured tracks
  link,      \* the signalling socket
  session,   \* the server has a session for this socket
  media,     \* the transports
  producer,  \* the client's producers
  srv,       \* the server's producers
  pending,   \* pendingLocalMedia
  work,      \* recoveryChain: the rebuilds, the first one running
  at,        \* where the running rebuild stands
  failures,  \* consecutiveFailures
  fallback,  \* fallbackRecover
  drain,     \* handleNodeDraining: where it stands, and its attempt
  press,     \* the toggle that waits for its answer
  leaving,   \* leave waits for its answer
  lost,      \* requests whose answer will not come
  used,      \* how often each bounded event has happened
  seen       \* history: published, blind (see below) and gaveUp

client == <<state, room, failures, fallback, drain, work, at, pending>>
hook == <<joined, page, away, policy, enabled, track, press, leaving>>
wire == <<link, session, media, producer, srv, lost>>
vars == <<client, hook, wire, used, seen>>

ButtonsAtFirst == [k \in Sources |-> k = "camera" \/ ~StartMuted]
None == [k \in Sources |-> "none"]
Bounds == [joins |-> MaxJoins, drops |-> MaxDrops, faults |-> MaxPathFaults,
           refusals |-> MaxRefusals, drains |-> MaxDrains, presses |-> MaxPresses]

TypeOK ==
  /\ state \in {"idle", "resolving", "connecting", "joined", "reconnecting", "closed"}
  /\ {room, joined, away, policy, session, leaving} \subseteq BOOLEAN
  /\ page \in {"out", "token", "socket", "join", "capture", "mute", "done"} \cup Sources
  /\ enabled \in [Sources -> BOOLEAN]
  /\ track \in [Sources -> {"none", "live", "stopped"}]
  /\ link \in {"none", "up", "down", "dead"}
  /\ media \in {"none", "new", "up", "failed"}
  /\ producer \in [Sources -> {"none", "live", "paused"}]
  /\ srv \in [Sources -> {"none", "live", "paused"}]
  /\ pending = Nothing \/ pending \in [Sources -> {"none", "live", "paused"}]
  /\ work \in Seq([kind : {"recreate", "rejoin"}, by : {"fallback", "drain"}])
  /\ at \in {<<"start">>, <<"ask">>} \cup ({"publish", "pause"} \X Sources)
  /\ failures \in 0..RecoverySteps
  /\ fallback \in {"idle", "restart", "waits"}
  /\ drain \in [at : {"idle", "waits", "pause"}, try : 0..RejoinAttempts]
  /\ press = Nothing \/ press \in [of : Sources, to : BOOLEAN]
  /\ lost \subseteq {"page", "task", "fallback", "press"}
  /\ used \in [DOMAIN Bounds -> Nat] /\ \A e \in DOMAIN Bounds : used[e] <= Bounds[e]
  /\ seen \in [published : SUBSET Sources, blind : SUBSET Sources, gaveUp : BOOLEAN]

Init ==
  /\ state = "idle" /\ room = FALSE /\ failures = 0 /\ fallback = "idle"
  /\ drain = [at |-> "idle", try |-> 0] /\ work = <<>> /\ at = <<"start">>
  /\ pending = Nothing
  /\ joined = FALSE /\ page = "out" /\ away = FALSE /\ policy = FALSE
  /\ press = Nothing /\ leaving = FALSE
  /\ enabled = ButtonsAtFirst
  /\ track = None
  /\ link = "none" /\ session = FALSE /\ media = "none"
  /\ producer = None /\ srv = None /\ lost = {}
  /\ used = [e \in DOMAIN Bounds |-> 0]
  /\ seen = [published |-> {}, blind |-> {}, gaveUp |-> FALSE]

Spend(e) == used[e] < Bounds[e] /\ used' = [used EXCEPT ![e] = @ + 1]

-----------------------------------------------------------------------------
(* Requests *)

(* Who waits for an answer on the socket.                                  *)
Waiting ==
  {w \in {"page", "task", "fallback", "press"} :
    CASE w = "page" -> page \in {"join", "mute"} \cup Sources
      [] w = "task" -> at # <<"start">>
      [] w = "fallback" -> fallback = "restart"
      [] w = "press" -> press # Nothing}

(* emitWithAck: on a socket that is not connected it fails at once.        *)
Sent(w, l) == IF link = "up" THEN l \ {w} ELSE l \cup {w}

(* The server answers a request that needs a session.                      *)
Served(w) == w \notin lost /\ link = "up" /\ session

(* It refuses it, or the answer does not come in time.                     *)
Failed(w) ==
  IF Served(w) THEN Spend("refusals") ELSE UNCHANGED used

-----------------------------------------------------------------------------
(* Closing *)

(* Mutant: the client keeps its producers although the transports close.   *)
CloseTransports(l) ==
  /\ producer' = producer
  /\ media' = "none"
  /\ lost' = l

(* closeMedia: what waits on the transports, restartIce and produce, is    *)
(* rejected with them; a request of its own, to pause or resume, is not.   *)
CloseMedia(l) ==
  /\ producer' = None
  /\ media' = "none"
  /\ lost' = l \cup (Waiting \cap {"fallback"})
               \cup (IF page \in Sources THEN {"page"} ELSE {})

(* Mutant: only the tracks of the producers are stopped.                   *)
TeardownOfProducers ==
  /\ track' = [k \in Sources |-> IF producer[k] # "none" THEN "stopped" ELSE track[k]]
  /\ pending' = Nothing
  /\ producer' = None /\ media' = "none"
  /\ link' = "none" /\ session' = FALSE /\ srv' = None
  /\ lost' = Waiting
  /\ room' = FALSE /\ failures' = 0
  /\ state' = "closed"
  /\ joined' = FALSE

(* teardown: the tracks of the producers and of the snapshot are stopped,  *)
(* and the socket goes.  A connect in progress never settles.              *)
Teardown ==
  /\ track' = [k \in Sources |->
       IF producer[k] # "none" \/ (pending # Nothing /\ pending[k] # "none")
         THEN "stopped" ELSE track[k]]
  /\ pending' = Nothing
  /\ producer' = None /\ media' = "none"
  /\ link' = "none" /\ session' = FALSE /\ srv' = None
  /\ lost' = Waiting
  /\ room' = FALSE /\ failures' = 0
  /\ state' = "closed"
  /\ joined' = FALSE

-----------------------------------------------------------------------------
(* Joining: useClassroom's join, and SfuClient's inside it *)

(* The page opens, or somebody tries again: what waited on the old socket  *)
(* has failed with it by then, and the pause of a drain is over.           *)
Join ==
  /\ page \in {"out", "done"} /\ ~joined /\ ~away /\ ~leaving
  /\ Waiting = {} /\ work = <<>> /\ drain.at = "idle"
  /\ Spend("joins")
  /\ joined' = TRUE
  /\ room' = TRUE /\ failures' = 0 /\ state' = "resolving"
  /\ page' = "token"
  /\ UNCHANGED <<fallback, drain, work, at, pending, away, policy, enabled, track, press,
                 leaving, wire, seen>>

(* The token is there: the socket is made, also after a teardown.          *)
TokenCame ==
  /\ page = "token"
  /\ state' = "connecting" /\ page' = "socket"
  /\ UNCHANGED <<room, failures, fallback, drain, work, at, pending, joined, away, policy,
                 enabled, track, press, leaving, wire, used, seen>>

SocketUp ==
  /\ page = "socket" /\ room
  /\ link' = "up" /\ lost' = lost \ {"page"}
  /\ page' = "join"
  /\ UNCHANGED <<client, joined, away, policy, enabled, track, press, leaving, session, media,
                 producer, srv, used, seen>>

(* The join ack: a session on the server, transports on both sides, and    *)
(* the room's state with its policy.                                       *)
JoinAnswered ==
  /\ page = "join" /\ "page" \notin lost /\ link = "up" /\ ~session
  /\ session' = TRUE /\ media' = "new" /\ srv' = None
  /\ state' = "joined" /\ page' = "capture" /\ policy' \in BOOLEAN
  /\ seen' = [published |-> {}, gaveUp |-> FALSE,
               blind |-> {k \in Sources : enabled[k] # ButtonsAtFirst[k]}]
  /\ UNCHANGED <<room, failures, fallback, drain, work, at, pending, joined, away,
                 enabled, track, press, leaving, link, producer, lost, used>>

(* No token, no socket, no room id any more, refused or no answer.         *)
JoinFails ==
  /\ page \in {"token", "socket", "join"}
  /\ IF (page = "socket" /\ ~room) \/ (page = "join" /\ ("page" \in lost \/ session))
       THEN UNCHANGED used ELSE Spend("refusals")
  /\ Teardown
  /\ page' = "out"
  /\ UNCHANGED <<fallback, drain, work, at, away, policy, enabled, press, leaving, seen>>

(* The hook's join goes on to publish k, or stops in its catch.            *)
PublishNext(k, l) ==
  IF media = "none"
    THEN page' = "done" /\ lost' = l \ {"page"}
    ELSE page' = k /\ lost' = Sent("page", l)

(* getUserMedia, after the prompt was answered.                            *)
Capture ==
  /\ page = "capture"
  /\ track' = [k \in Sources |-> "live"]
  /\ PublishNext("microphone", lost)
  /\ UNCHANGED <<client, joined, away, policy, enabled, press, leaving, link, session, media,
                 producer, srv, used, seen>>

CaptureDenied ==
  /\ page = "capture"
  /\ page' = "done"
  /\ UNCHANGED <<client, joined, away, policy, enabled, track, press, leaving, wire, used, seen>>

(* A source has a producer: the client's end and the server's.             *)
Publishes(k, how) ==
  /\ producer' = [producer EXCEPT ![k] = how]
  /\ srv' = [srv EXCEPT ![k] = "live"]

(* publishMicrophone is followed by the pause of somebody who joins muted, *)
(* by a setting of the page or by the room's policy.                       *)
PublishedMicrophone ==
  /\ page = "microphone" /\ Served("page")
  /\ seen' = [seen EXCEPT !.published = @ \cup {"microphone"}]
  /\ IF StartMuted \/ policy
       THEN /\ Publishes("microphone", "paused")
            /\ page' = "mute" /\ lost' = Sent("page", lost)
       ELSE /\ Publishes("microphone", "live")
            /\ PublishNext("camera", lost)
  /\ UNCHANGED <<client, joined, away, policy, enabled, track, press, leaving, link, session,
                 media, used>>

JoinedMuted ==
  /\ page = "mute" /\ Served("page")
  /\ srv' = [srv EXCEPT !["microphone"] = "paused"]
  /\ enabled' = [enabled EXCEPT !["microphone"] = FALSE]
  /\ PublishNext("camera", lost)
  /\ UNCHANGED <<client, joined, away, policy, track, press, leaving, link, session, media,
                 producer, used, seen>>

PublishedCamera ==
  /\ page = "camera" /\ Served("page")
  /\ Publishes("camera", "live")
  /\ seen' = [seen EXCEPT !.published = @ \cup {"camera"}]
  /\ page' = "done"
  /\ UNCHANGED <<client, joined, away, policy, enabled, track, press, leaving, link, session,
                 media, lost, used>>

(* A pause that fails leaves the producer paused and the button as it was. *)
PublishFails ==
  /\ page \in {"mute"} \cup Sources
  /\ Failed("page")
  /\ seen' = IF page = "mute" /\ enabled["microphone"]
               THEN [seen EXCEPT !.blind = @ \cup {"microphone"}] ELSE seen
  /\ page' = "done"
  /\ UNCHANGED <<client, joined, away, policy, enabled, track, press, leaving, wire>>

-----------------------------------------------------------------------------
(* Leaving, and being sent away *)

(* The button, the unmounting page, or the page that is hidden.            *)
Leave ==
  /\ state \notin {"idle", "closed"} /\ ~leaving
  /\ leaving' = TRUE /\ away' = TRUE
  /\ UNCHANGED <<client, joined, page, policy, enabled, track, press, wire, used, seen>>

LeaveEnds ==
  /\ leaving /\ leaving' = FALSE
  /\ Teardown
  /\ page' = IF page = "socket" THEN "out" ELSE page
  /\ UNCHANGED <<fallback, drain, work, at, away, policy, enabled, press, used, seen>>

RoomClosed ==
  /\ session
  /\ Teardown
  /\ UNCHANGED <<fallback, drain, work, at, page, away, policy, enabled, press, leaving,
                 used, seen>>

-----------------------------------------------------------------------------
(* The buttons *)

(* The button changes at once; without a producer that is all.  Blind: the *)
(* press meets no producer, or comes while one is being published, or      *)
(* rebuilt from an older snapshot; or it was made in an earlier lesson.    *)
Press(k) ==
  /\ state \in {"joined", "reconnecting"} /\ ~away /\ press = Nothing
  /\ Spend("presses")
  /\ enabled' = [enabled EXCEPT ![k] = ~@]
  /\ seen' = IF producer[k] = "none" \/ pending # Nothing \/ page # "done"
               THEN [seen EXCEPT !.blind = @ \cup {k}] ELSE seen
  /\ IF producer[k] = "none"
       THEN UNCHANGED <<producer, press, lost>>
       ELSE /\ producer' = [producer EXCEPT ![k] = IF enabled[k] THEN "paused" ELSE "live"]
            /\ press' = [of |-> k, to |-> ~enabled[k]]
            /\ lost' = Sent("press", lost)
  /\ UNCHANGED <<client, joined, page, away, policy, track, leaving, link, session, media, srv>>

PressAnswered ==
  /\ press # Nothing /\ Served("press")
  /\ srv' = [srv EXCEPT ![press.of] = IF press.to THEN "live" ELSE "paused"]
  /\ press' = Nothing
  /\ UNCHANGED <<client, joined, page, away, policy, enabled, track, leaving, link, session,
                 media, producer, lost, used, seen>>

(* The button is put back where it was; the producer is not.               *)
PressFails ==
  /\ press # Nothing
  /\ Failed("press")
  /\ enabled' = [enabled EXCEPT ![press.of] = ~press.to]
  /\ seen' = [seen EXCEPT !.blind = @ \cup {press.of}]
  /\ press' = Nothing
  /\ UNCHANGED <<client, joined, page, away, policy, track, leaving, wire>>

-----------------------------------------------------------------------------
(* Recovery *)

(* restartIce: it fails at once when there is no transport to restart.     *)
Restarted == IF media = "none" THEN lost \cup {"fallback"} ELSE Sent("fallback", lost)

(* Mutant: the steps are not counted, the first is tried for ever.         *)
FallbackForEver(f, st, w) ==
  /\ failures' = f
  /\ state' = st
  /\ seen' = seen
  /\ fallback' = "restart" /\ work' = w
  /\ lost' = Restarted

(* The next step of fallbackRecover after f failures: restartIce, new      *)
(* transports, a rejoin, and then it gives up.  w is the chain, st the     *)
(* state the failed step has left.                                         *)
FallbackFrom(f, st, w) ==
  IF f = RecoverySteps
    THEN /\ fallback' = "idle" /\ failures' = f /\ work' = w /\ lost' = lost
         /\ seen' = [seen EXCEPT !.gaveUp = TRUE]
         /\ state' = IF st = "reconnecting" THEN "joined" ELSE st
    ELSE /\ failures' = f + 1
         /\ state' = st
         /\ seen' = seen
         /\ IF f = 0
              THEN fallback' = "restart" /\ work' = w /\ lost' = Restarted
              ELSE /\ fallback' = "waits" /\ lost' = lost
                   /\ work' = Append(w, [kind |-> IF f = 1 THEN "recreate" ELSE "rejoin",
                                         by |-> "fallback"])

PathWorks ==
  /\ media = "new" /\ session
  /\ media' = "up" /\ failures' = 0
  /\ UNCHANGED <<state, room, fallback, drain, work, at, pending, hook, link, session,
                 producer, srv, lost, used, seen>>

(* The path fails, at the latest because the server has closed its end.    *)
PathFails ==
  /\ media \in {"new", "up"}
  /\ IF session THEN Spend("faults") ELSE UNCHANGED used
  /\ media' = "failed"
  /\ IF state = "joined" /\ fallback = "idle"
       THEN FallbackFrom(failures, state, work)
       ELSE UNCHANGED <<fallback, failures, work, state, seen, lost>>
  /\ UNCHANGED <<room, drain, at, pending, hook, link, session, producer, srv>>

RestartAnswered ==
  /\ fallback = "restart" /\ Served("fallback")
  /\ fallback' = "idle" /\ media' = "new"
  /\ UNCHANGED <<state, room, failures, drain, work, at, pending, hook, link, session,
                 producer, srv, lost, used, seen>>

RestartFails ==
  /\ fallback = "restart"
  /\ Failed("fallback")
  /\ FallbackFrom(failures, state, work)
  /\ UNCHANGED <<room, drain, at, pending, hook, link, session, media, producer, srv>>

(* The running rebuild has ended: who asked for it goes on.                *)
TaskEnds(ok) ==
  LET w == Tail(work)
      by == Head(work).by
  IN
  /\ at' = <<"start">>
  /\ CASE ok ->
            /\ state' = IF state = "reconnecting" THEN "joined" ELSE state
            /\ seen' = [seen EXCEPT !.gaveUp = FALSE]
            /\ work' = w
            /\ fallback' = IF by = "fallback" THEN "idle" ELSE fallback
            /\ drain' = IF by = "drain" THEN [at |-> "idle", try |-> 0] ELSE drain
            /\ failures' = failures /\ lost' = lost
       [] ~ok /\ by = "fallback" ->
            FallbackFrom(failures, state, w) /\ drain' = drain
       [] ~ok /\ by = "drain" ->
            /\ drain' = IF state = "closed" THEN [at |-> "idle", try |-> 0]
                                            ELSE [drain EXCEPT !.at = "pause"]
            /\ work' = w
            /\ UNCHANGED <<fallback, failures, state, seen, lost>>

(* captureLocalMedia *)
Captured ==
  [k \in Sources |-> IF track[k] = "live" THEN producer[k] ELSE "none"]

(* Mutant: every attempt takes its own snapshot.                           *)
NewSnapshot == Captured

(* The snapshot of an attempt that failed is kept.                         *)
Snapshot == IF pending = Nothing THEN Captured ELSE pending

TaskStarts ==
  /\ work # <<>> /\ at = <<"start">>
  /\ IF state \in {"idle", "closed"}
       THEN TaskEnds(FALSE) /\ UNCHANGED <<pending, media, producer>>
       ELSE /\ state' = "reconnecting"
            /\ pending' = Snapshot
            /\ CloseMedia(Sent("task", lost))
            /\ at' = <<"ask">>
            /\ UNCHANGED <<work, fallback, failures, drain, seen>>
  /\ UNCHANGED <<room, hook, link, session, srv, used>>

(* restoreLocalMedia: the first of the sources that has something to       *)
(* publish, or the end of the rebuild.                                     *)
RestoreFrom(rest) ==
  LET left == {k \in rest : pending[k] # "none" /\ track[k] = "live"}
  IN  IF left = {}
        THEN pending' = Nothing /\ TaskEnds(TRUE)
        ELSE /\ at' = <<"publish", IF "camera" \in left THEN "camera" ELSE "microphone">>
             /\ lost' = Sent("task", lost)
             /\ UNCHANGED <<pending, work, fallback, failures, drain, seen, state>>

After(k) == IF k = "camera" THEN {"microphone"} ELSE {}

(* A request to pause or resume was sent before, and the server takes what *)
(* comes on one socket in order: it is answered first.                     *)
PauseIsOut ==
  (press # Nothing /\ "press" \notin lost) \/ (page = "mute" /\ "page" \notin lost)

(* New transports: in place for a session, with a new session for a socket *)
(* that has none and asks to rejoin.  A rejoin brings the room's state too;*)
(* its policy is kept here when the join has still to read it.             *)
TaskAnswered ==
  /\ at = <<"ask">> /\ "task" \notin lost /\ link = "up"
  /\ session \/ Head(work).kind = "rejoin"
  /\ ~PauseIsOut
  /\ session' = TRUE /\ media' = "new" /\ srv' = None
  /\ IF Head(work).kind = "rejoin" /\ page = "capture"
       THEN policy' \in BOOLEAN ELSE policy' = policy
  /\ RestoreFrom(Sources)
  /\ UNCHANGED <<room, joined, page, away, enabled, track, press, leaving, link, producer,
                 used>>

TaskPublished ==
  /\ at[1] = "publish" /\ Served("task")
  /\ LET k == at[2] IN
     /\ Publishes(k, pending[k])
     /\ IF pending[k] = "paused"
          THEN /\ at' = <<"pause", k>> /\ lost' = Sent("task", lost)
               /\ UNCHANGED <<pending, work, fallback, failures, drain, seen, state>>
          ELSE RestoreFrom(After(k))
  /\ UNCHANGED <<room, hook, link, session, media, used>>

TaskPaused ==
  /\ at[1] = "pause" /\ Served("task")
  /\ srv' = [srv EXCEPT ![at[2]] = "paused"]
  /\ RestoreFrom(After(at[2]))
  /\ UNCHANGED <<room, hook, link, session, media, producer, used>>

TaskFails ==
  /\ at # <<"start">>
  /\ Failed("task")
  /\ TaskEnds(FALSE)
  /\ UNCHANGED <<room, pending, hook, link, session, media, producer, srv>>

(* The node drains: the media are asked for again, three times.            *)
DrainNotice ==
  /\ session /\ Spend("drains") /\ drain.at = "idle"
  /\ IF state = "joined"
       THEN /\ drain' = [at |-> "waits", try |-> 1]
            /\ work' = Append(work, [kind |-> "rejoin", by |-> "drain"])
       ELSE UNCHANGED <<drain, work>>
  /\ UNCHANGED <<state, room, failures, fallback, at, pending, hook, wire, seen>>

DrainAgain ==
  /\ drain.at = "pause" /\ drain.try < RejoinAttempts
  /\ drain' = [at |-> "waits", try |-> drain.try + 1]
  /\ work' = Append(work, [kind |-> "rejoin", by |-> "drain"])
  /\ UNCHANGED <<state, room, failures, fallback, at, pending, hook, wire, used, seen>>

DrainGivesUp ==
  /\ drain.at = "pause" /\ drain.try = RejoinAttempts
  /\ drain' = [at |-> "idle", try |-> 0]
  /\ Teardown
  /\ page' = IF page = "socket" THEN "out" ELSE page
  /\ UNCHANGED <<fallback, work, at, away, policy, enabled, press, leaving, used, seen>>

-----------------------------------------------------------------------------
(* The signalling socket *)

(* The socket breaks, or the server hangs up.  With it the session goes,   *)
(* the server's end of the media, and every answer still to come.          *)
Drop ==
  /\ link = "up" /\ Spend("drops")
  /\ link' \in {"down", "dead"}
  /\ session' = FALSE /\ srv' = None
  /\ lost' = lost \cup Waiting
  /\ UNCHANGED <<client, hook, media, producer, seen>>

(* Socket.IO connects again; nothing in SfuClient listens to it.           *)
Reconnect ==
  /\ link = "down"
  /\ link' \in {"up", "dead"}
  /\ UNCHANGED <<client, hook, session, media, producer, srv, lost, used, seen>>

-----------------------------------------------------------------------------
PageStep == TokenCame \/ SocketUp \/ JoinAnswered \/ JoinFails \/ PublishedMicrophone
              \/ JoinedMuted \/ PublishedCamera \/ PublishFails
PressStep == PressAnswered \/ PressFails
RestartStep == RestartAnswered \/ RestartFails
TaskStep == TaskStarts \/ TaskAnswered \/ TaskPublished \/ TaskPaused \/ TaskFails
DrainStep == DrainAgain \/ DrainGivesUp

Next ==
  \/ Join \/ Capture \/ CaptureDenied \/ PageStep
  \/ Leave \/ LeaveEnds \/ RoomClosed
  \/ (\E k \in Sources : Press(k)) \/ PressStep
  \/ PathWorks \/ PathFails \/ RestartStep \/ TaskStep
  \/ DrainNotice \/ DrainStep
  \/ Drop \/ Reconnect

(* Requests are answered, refused or time out after ackTimeoutMs; timers   *)
(* fire.  People, prompts, paths and sockets owe nothing.                  *)
Fairness ==
  /\ WF_vars(PageStep) /\ WF_vars(PressStep) /\ WF_vars(LeaveEnds)
  /\ WF_vars(RestartStep) /\ WF_vars(TaskStep) /\ WF_vars(DrainStep)

Spec == Init /\ [][Next]_vars /\ Fairness

-----------------------------------------------------------------------------
(* Properties *)

(* The page is in the lesson and nothing is under way.                     *)
Settled ==
  /\ state = "joined" /\ page = "done" /\ press = Nothing /\ ~leaving
  /\ work = <<>> /\ fallback = "idle" /\ drain.at = "idle"

InLesson == state \in {"joined", "reconnecting"}

(* Producers hang on transports, a session hangs on its socket, and a      *)
(* producer's track is running.                                            *)
Attached ==
  /\ media = "none" => producer = None
  /\ session => link = "up"
  /\ \A k \in Sources : producer[k] # "none" => track[k] = "live"

(* There are no media outside a lesson, and no recovery before it.         *)
OutsideLesson ==
  /\ room = joined
  /\ InLesson => joined
  /\ ~InLesson => media = "none" /\ ~session /\ pending = Nothing
  /\ state = "resolving" => page = "token"
  /\ state = "connecting" => page \in {"socket", "join"}
  /\ page \in {"token", "socket", "join"} =>
       ~InLesson /\ work = <<>> /\ drain.at = "idle" /\ fallback # "restart"
  /\ page = "join" /\ "page" \notin lost => joined

(* A rebuild whose request can still be answered is one of a lesson, and   *)
(* has a source of the snapshot to publish; so have transports that came   *)
(* with a snapshot left.                                                   *)
RebuildRuns ==
  /\ at # <<"start">> => work # <<>>
  /\ at # <<"start">> /\ "task" \notin lost => InLesson /\ pending # Nothing
  /\ \A k \in Sources :
       at \in {<<"publish", k>>, <<"pause", k>>} /\ "task" \notin lost =>
         /\ media # "none" /\ pending[k] # "none" /\ track[k] = "live"
         /\ at = <<"pause", k>> => producer[k] # "none"
         /\ k = "microphone" /\ pending["camera"] # "none" /\ track["camera"] = "live" =>
              producer["camera"] # "none"
  /\ pending # Nothing /\ media # "none" => \E k \in Sources : pending[k] # "none"
  /\ fallback = "restart" /\ "fallback" \notin lost => media # "none"

(* What has been published when the hook's join stands at page, and that   *)
(* no rebuild has come between while its request can still be answered.    *)
JoinGoesOn ==
  /\ page \in {"capture", "microphone"} => seen.published = {}
  /\ page \in {"mute", "camera"} => seen.published \subseteq {"microphone"}
  /\ page \in {"mute"} \cup Sources /\ "page" \notin lost =>
       /\ \A k \in Sources : track[k] = "live"
       /\ pending = Nothing \/ (page = "mute" /\ media = "none")
       /\ page = "mute" \/ media # "none"

(* A published track is in the producers' hands, or in the snapshot's, all *)
(* through the lesson; nothing else is.                                    *)
PublishedIsHeld ==
  \A k \in Sources :
    /\ producer[k] # "none" => k \in seen.published
    /\ pending # Nothing /\ pending[k] # "none" => k \in seen.published
    /\ k \in seen.published /\ track[k] = "live" =>
         IF pending = Nothing THEN producer[k] # "none" ELSE pending[k] # "none"
    /\ k \in seen.published /\ InLesson => track[k] = "live"

(* A snapshot outlives its rebuild only while the page says reconnecting,  *)
(* or after giving up.                                                     *)
NothingLeftBehind == state = "joined" /\ ~seen.gaveUp => pending = Nothing

(* What the button says, or will say when the pause of the join is done.   *)
Says(k) == enabled[k] /\ ~(page = "mute" /\ k = "microphone")

(* Producers and snapshot say what the buttons say.                        *)
ButtonsAgree ==
  \A k \in Sources \ seen.blind :
    /\ producer[k] # "none" => (producer[k] = "paused" <=> ~Says(k))
    /\ pending # Nothing /\ pending[k] # "none" => (pending[k] = "paused" <=> ~Says(k))
    /\ page \in {"capture", "microphone"} => enabled[k] = ButtonsAtFirst[k]
    /\ page \in {"mute", "camera"} /\ k = "camera" => enabled[k]

(* The inductive invariant: through every interleaving of the join, the    *)
(* buttons, the rebuilds and the end, what was captured is accounted for.  *)
LessonInv ==
  /\ TypeOK /\ Attached /\ OutsideLesson /\ RebuildRuns /\ JoinGoesOn
  /\ PublishedIsHeld /\ NothingLeftBehind /\ ButtonsAgree

(* SfuClient.ts:40: "Tracks are stopped only when the session ends", and   *)
(* then they are: every track that was published is stopped, also when the *)
(* end comes in the middle of a rebuild or after one that failed, while    *)
(* only the snapshot knows the track.                                      *)
ClosedStopsTracks ==
  state = "closed" => \A k \in seen.published : track[k] # "live"

(* Rebuilds give back what they took, after however many failed attempts:  *)
(* what was published has a producer again, and it is paused exactly when  *)
(* the button says off.  Presses that met a rebuild or failed, and a pause *)
(* of the join that failed, are excepted, and so is a client that has given*)
(* up.                                                                     *)
RebuildsRestore ==
  Settled /\ ~seen.gaveUp =>
    \A k \in seen.published :
      /\ producer[k] # "none"
      /\ k \notin seen.blind => (producer[k] = "paused") = ~enabled[k]

(* "Bounded, because an endless rebuild loop looks to everyone else like a  *)
(* person being thrown out repeatedly" (SfuClient.ts, fallbackRecover): of *)
(* finitely many faults no recovery goes on for ever, not even on a socket *)
(* that stays dead, and nobody waits for a rebuild that never runs.        *)
Recovering == work # <<>> \/ fallback # "idle" \/ drain.at # "idle"
RecoveryEnds == Recovering ~> ~Recovering

(* A page that says "moving this session to another server" says so for a  *)
(* while only.  Fails: a rebuild whose transport connects resets the count *)
(* of failures; when its restore fails then, the fallback restarts ICE and *)
(* returns, and the state stays reconnecting, where a failed path is not   *)
(* answered any more.                                                      *)
ReconnectingEnds == state = "reconnecting" ~> state # "reconnecting"

(* Others hear or see the source.                                          *)
Heard(k) == producer[k] = "live" /\ srv[k] = "live" /\ media # "none"

(* A microphone whose button says off is not heard.  Fails: the button may *)
(* be pressed before there is a producer, or during a rebuild.             *)
MutedIsSilent == Settled /\ ~enabled["microphone"] => ~Heard("microphone")

(* useClassroom.ts:256: "put the button back where it was", and with it the *)
(* camera: a button that says on has a producer that sends.  Fails: the    *)
(* producer was paused before the request, and stays paused when it fails. *)
(* The microphone of a learner whom the policy mutes goes the same way.    *)
PutBackIsTrue ==
  Settled /\ enabled["camera"] /\ producer["camera"] # "none" => producer["camera"] = "live"

(* Nothing captures after the lesson.  Fails for a track that was captured *)
(* and not published when the lesson was left.                             *)
NothingLitAfterwards ==
  state = "closed" /\ page \in {"out", "done"} => \A k \in Sources : track[k] # "live"

(* "After the last step the signalling socket stays up, so chat, hand      *)
(* raise and the peer list keep working without media."  Fails: the socket *)
(* that is up again is not in the room.                                    *)
LessonStillWorks == Settled /\ seen.gaveUp /\ link = "up" => session
=============================================================================
