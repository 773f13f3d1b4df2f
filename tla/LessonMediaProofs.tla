------------------------- MODULE LessonMediaProofs -------------------------
(***************************************************************************)
(* Theorems about LessonMedia, for every number of joins, losses, faults,  *)
(* refusals, drains and presses: the inductive invariant LessonInv, and    *)
(* from it that the end of a lesson stops what was published, and that     *)
(* rebuilds give back what they took.  The proof goes part by part: each   *)
(* step lemma shows that every action keeps one part of the invariant.     *)
(***************************************************************************)
EXTENDS LessonMedia, SequenceTheorems, TLAPS

TaskType == [kind : {"recreate", "rejoin"}, by : {"fallback", "drain"}]
SeenType == [published : SUBSET Sources, blind : SUBSET Sources, gaveUp : BOOLEAN]
Counted == used \in [DOMAIN Bounds -> Nat] /\ \A e \in DOMAIN Bounds : used[e] <= Bounds[e]

-----------------------------------------------------------------------------
(* What the operators of the model do *)

(* Every bound is a natural number.                                        *)
LEMMA BoundsAreNat == \A e \in DOMAIN Bounds : Bounds[e] \in Nat
BY LessonAssumption DEF Bounds

(* An event that is spent stays within its bound.                          *)
LEMMA SpendCounts ==
  ASSUME TypeOK, NEW e \in DOMAIN Bounds, Spend(e)
  PROVE  Counted'
BY BoundsAreNat DEF TypeOK, Spend, Counted

(* Every step keeps the events within their bounds.                        *)
LEMMA EventsAreCounted ==
  ASSUME TypeOK, [Next]_vars
  PROVE  Counted'
<1>1. Counted
  BY DEF TypeOK, Counted
<1>2. CASE UNCHANGED used
  BY <1>1, <1>2 DEF Counted
<1>3. ASSUME NEW e \in {"joins", "drops", "faults", "refusals", "drains", "presses"}, Spend(e)
      PROVE  Counted'
  BY <1>3, SpendCounts DEF Bounds
<1> QED
  BY <1>2, <1>3
     DEF Next, PageStep, PressStep, RestartStep, TaskStep, DrainStep, vars, Failed,
         Join, TokenCame, SocketUp, JoinAnswered, JoinFails, Capture, CaptureDenied,
         PublishedMicrophone, JoinedMuted, PublishedCamera, PublishFails, Leave, LeaveEnds,
         RoomClosed, Press, PressAnswered, PressFails, PathWorks, PathFails, RestartAnswered,
         RestartFails, TaskStarts, TaskAnswered, TaskPublished, TaskPaused, TaskFails,
         DrainNotice, DrainAgain, DrainGivesUp, Drop, Reconnect

(* A sequence that is appended to is not empty and keeps its type, and so  *)
(* does the rest of one.                                                   *)
LEMMA ChainTypes ==
  ASSUME NEW S, NEW w \in Seq(S)
  PROVE  /\ \A t \in S : Append(w, t) \in Seq(S) /\ Append(w, t) # <<>>
         /\ w # <<>> => Head(w) \in S /\ Tail(w) \in Seq(S)
OBVIOUS

(* The history keeps its type, whichever field is set.                     *)
LEMMA SeenTypes ==
  ASSUME NEW s \in SeenType
  PROVE  /\ \A b \in BOOLEAN : [s EXCEPT !.gaveUp = b] \in SeenType
         /\ \A k \in Sources : /\ [s EXCEPT !.blind = @ \cup {k}] \in SeenType
                              /\ [s EXCEPT !.published = @ \cup {k}] \in SeenType
BY DEF SeenType

(* The next step of the fallback has its types.                            *)
LEMMA FallbackTypes ==
  ASSUME TypeOK, NEW w \in Seq(TaskType), FallbackFrom(failures, state, w)
  PROVE  /\ failures' \in 0..RecoverySteps /\ fallback' \in {"idle", "restart", "waits"}
         /\ work' \in Seq(TaskType) /\ (w # <<>> => work' # <<>>)
         /\ state' \in {state, "joined"}
         /\ lost' \subseteq lost \cup {"fallback"}
         /\ seen' \in SeenType
<1>1. seen \in SeenType /\ failures \in 0..3
  BY DEF TypeOK, SeenType, RecoverySteps
<1>2. CASE failures = RecoverySteps
  BY <1>1, <1>2, SeenTypes DEF FallbackFrom, RecoverySteps
<1>3. CASE failures # RecoverySteps
  <2>1. \A kind \in {"recreate", "rejoin"} :
          [kind |-> kind, by |-> "fallback"] \in TaskType
    BY DEF TaskType
  <2>2. \A kind \in {"recreate", "rejoin"} :
          /\ Append(w, [kind |-> kind, by |-> "fallback"]) \in Seq(TaskType)
          /\ Append(w, [kind |-> kind, by |-> "fallback"]) # <<>>
    BY <2>1, ChainTypes
  <2> QED
    BY <1>1, <1>3, <2>2 DEF FallbackFrom, RecoverySteps, Restarted, Sent
<1> QED
  BY <1>2, <1>3

(* What a failed step of a recovery leaves to the one that follows.        *)
StepHasFailed ==
  /\ seen'.published = seen.published /\ seen'.blind = seen.blind
  /\ state' = state \/ (state = "reconnecting" /\ state' = "joined" /\ seen'.gaveUp)
  /\ seen.gaveUp => seen'.gaveUp
  /\ \A w \in {"page", "task", "press"} : w \in lost' <=> w \in lost
  /\ fallback' = "restart" /\ "fallback" \notin lost' => media # "none"

(* FallbackFrom is such a step, and so is the end of a failed rebuild.     *)
LEMMA FallbackLeaves ==
  ASSUME TypeOK, NEW w, FallbackFrom(failures, state, w)
  PROVE  StepHasFailed
BY DEF TypeOK, FallbackFrom, StepHasFailed, Restarted, Sent

LEMMA FailedTaskLeaves ==
  ASSUME TypeOK, RebuildRuns, work # <<>>, TaskEnds(FALSE)
  PROVE  StepHasFailed /\ at' = <<"start">>
<1>1. work \in Seq(TaskType) /\ Head(work) \in TaskType
  BY ChainTypes DEF TypeOK, TaskType
<1>2. CASE Head(work).by = "fallback"
  BY <1>2, FallbackLeaves DEF TaskEnds
<1>3. CASE Head(work).by = "drain"
  BY <1>3 DEF TaskEnds, StepHasFailed, RebuildRuns
<1> QED
  BY <1>1, <1>2, <1>3 DEF TaskType
-----------------------------------------------------------------------------
(* Types *)

(* The end of a lesson has its types.                                      *)
LEMMA TeardownTypes ==
  ASSUME TypeOK, Teardown
  PROVE  /\ track' \in [Sources -> {"none", "live", "stopped"}]
         /\ producer' = None /\ srv' = None /\ pending' = Nothing /\ media' = "none"
         /\ link' = "none" /\ session' = FALSE /\ room' = FALSE /\ joined' = FALSE
         /\ failures' \in 0..RecoverySteps /\ state' = "closed"
         /\ lost' \subseteq {"page", "task", "fallback", "press"}
         /\ None \in [Sources -> {"none", "live", "paused"}]
<1>1. Waiting \subseteq {"page", "task", "fallback", "press"}
  BY Zenon DEF Waiting
<1>4. 0 \in 0..RecoverySteps
  BY DEF RecoverySteps
<1>2. track' \in [Sources -> {"none", "live", "stopped"}]
  <2>1. \A k \in Sources : track'[k] \in {"none", "live", "stopped"}
    BY DEF TypeOK, Teardown
  <2> QED
    BY <2>1 DEF Teardown
<1>3. None \in [Sources -> {"none", "live", "paused"}]
  BY DEF None
<1> QED
  BY <1>1, <1>2, <1>3, <1>4 DEF Teardown

(* So has the end of a rebuild.                                            *)
LEMMA TaskEndsTypes ==
  ASSUME TypeOK, work # <<>>, NEW ok \in BOOLEAN, TaskEnds(ok)
  PROVE  /\ state' \in {state, "joined"} /\ work' \in Seq(TaskType) /\ at' = <<"start">>
         /\ failures' \in 0..RecoverySteps /\ fallback' \in {"idle", "restart", "waits"}
         /\ drain' \in [at : {"idle", "waits", "pause"}, try : 0..RejoinAttempts]
         /\ lost' \subseteq {"page", "task", "fallback", "press"}
         /\ seen' \in SeenType
<1>1. /\ Head(work) \in TaskType /\ Tail(work) \in Seq(TaskType)
      /\ seen \in SeenType /\ drain \in [at : {"idle", "waits", "pause"}, try : 0..RejoinAttempts]
  BY ChainTypes DEF TypeOK, TaskType, SeenType
<1>2. CASE ok
  <2>1. [at |-> "idle", try |-> 0] \in [at : {"idle", "waits", "pause"}, try : 0..RejoinAttempts]
    BY DEF RejoinAttempts
  <2>2. /\ at' = <<"start">> /\ work' = Tail(work) /\ failures' = failures /\ lost' = lost
        /\ state' = IF state = "reconnecting" THEN "joined" ELSE state
        /\ seen' = [seen EXCEPT !.gaveUp = FALSE]
        /\ fallback' \in {fallback, "idle"}
        /\ drain' \in {drain, [at |-> "idle", try |-> 0]}
    BY <1>2 DEF TaskEnds
  <2>3. seen' \in SeenType
    BY <1>1, <2>2, SeenTypes
  <2> QED
    BY <1>1, <2>1, <2>2, <2>3 DEF TypeOK
<1>3. CASE ~ok /\ Head(work).by = "fallback"
  BY <1>1, <1>3, FallbackTypes DEF TaskEnds, TypeOK
<1>4. CASE ~ok /\ Head(work).by = "drain"
  <2>1. /\ [at |-> "idle", try |-> 0] \in [at : {"idle", "waits", "pause"}, try : 0..RejoinAttempts]
        /\ [drain EXCEPT !.at = "pause"]
             \in [at : {"idle", "waits", "pause"}, try : 0..RejoinAttempts]
    BY <1>1 DEF RejoinAttempts
  <2> QED
    BY <1>1, <1>4, <2>1 DEF TaskEnds, TypeOK
<1> QED
  BY <1>1, <1>2, <1>3, <1>4 DEF TaskType

(* And so has what a rebuild restores.                                     *)
LEMMA RestoreTypes ==
  ASSUME TypeOK, work # <<>>, NEW rest \in SUBSET Sources, RestoreFrom(rest)
  PROVE  /\ state' \in {state, "joined"} /\ work' \in Seq(TaskType)
         /\ at' \in {<<"start">>} \cup {"publish"} \X Sources
         /\ failures' \in 0..RecoverySteps /\ fallback' \in {"idle", "restart", "waits"}
         /\ drain' \in [at : {"idle", "waits", "pause"}, try : 0..RejoinAttempts]
         /\ lost' \subseteq {"page", "task", "fallback", "press"}
         /\ seen' \in SeenType /\ pending' \in {Nothing, pending}
<1> DEFINE left == {k \in rest : pending[k] # "none" /\ track[k] = "live"}
<1>1. CASE left = {}
  BY <1>1, TaskEndsTypes DEF RestoreFrom
<1>2. CASE left # {}
  <2>1. /\ at' = <<"publish", IF "camera" \in left THEN "camera" ELSE "microphone">>
        /\ lost' = Sent("task", lost)
        /\ UNCHANGED <<pending, work, fallback, failures, drain, seen, state>>
    BY <1>2 DEF RestoreFrom
  <2> HIDE DEF left
  <2>2. at' \in {"publish"} \X Sources
    BY <2>1 DEF Sources
  <2> QED
    BY <2>1, <2>2 DEF TypeOK, Sent, TaskType, SeenType
<1> QED
  BY <1>1, <1>2

(* The types, variable group by variable group.                            *)
MediaType == [Sources -> {"none", "live", "paused"}]
Requests == {"page", "task", "fallback", "press"}
DrainType == [at : {"idle", "waits", "pause"}, try : 0..RejoinAttempts]
ClientTypes ==
  /\ state \in {"idle", "resolving", "connecting", "joined", "reconnecting", "closed"}
  /\ room \in BOOLEAN
  /\ failures \in 0..RecoverySteps
  /\ fallback \in {"idle", "restart", "waits"}
  /\ drain \in DrainType
  /\ work \in Seq(TaskType)
  /\ at \in {<<"start">>, <<"ask">>} \cup ({"publish", "pause"} \X Sources)
  /\ pending = Nothing \/ pending \in MediaType
HookTypes ==
  /\ joined \in BOOLEAN /\ away \in BOOLEAN /\ policy \in BOOLEAN /\ leaving \in BOOLEAN
  /\ page \in {"out", "token", "socket", "join", "capture", "mute", "done"} \cup Sources
  /\ enabled \in [Sources -> BOOLEAN]
  /\ track \in [Sources -> {"none", "live", "stopped"}]
  /\ press = Nothing \/ press \in [of : Sources, to : BOOLEAN]
WireTypes ==
  /\ link \in {"none", "up", "down", "dead"} /\ session \in BOOLEAN
  /\ media \in {"none", "new", "up", "failed"}
  /\ producer \in MediaType /\ srv \in MediaType
  /\ lost \subseteq Requests

LEMMA TypesByGroup == TypeOK <=> ClientTypes /\ HookTypes /\ WireTypes /\ Counted /\ seen \in SeenType
BY DEF TypeOK, ClientTypes, HookTypes, WireTypes, Counted, SeenType, MediaType, TaskType,
       DrainType, Requests

(* Every step keeps the types of the client's variables.                   *)
LEMMA ClientTypesStep ==
  ASSUME TypeOK, RebuildRuns, [Next]_vars
  PROVE  ClientTypes'
<1> USE TypesByGroup DEF client
<1>1. CASE UNCHANGED client
  BY <1>1 DEF ClientTypes
<1>2. CASE Teardown /\ UNCHANGED <<fallback, drain, work, at>>
  BY <1>2, TeardownTypes DEF ClientTypes
<1>3. CASE Join
  BY <1>3 DEF Join, ClientTypes, RecoverySteps
<1>4. CASE TokenCame
  BY <1>4 DEF TokenCame, ClientTypes
<1>5. CASE JoinAnswered
  BY <1>5 DEF JoinAnswered, ClientTypes
<1>6. CASE PathWorks
  BY <1>6 DEF PathWorks, ClientTypes, RecoverySteps
<1>7. ASSUME FallbackFrom(failures, state, work), UNCHANGED <<room, drain, at, pending>>
      PROVE  ClientTypes'
  BY <1>7, FallbackTypes DEF ClientTypes
<1>8. CASE RestartAnswered
  BY <1>8 DEF RestartAnswered, ClientTypes
<1>9. ASSUME NEW ok \in BOOLEAN, TaskEnds(ok), work # <<>>, UNCHANGED <<room, pending>>
      PROVE  ClientTypes'
  BY <1>9, TaskEndsTypes DEF ClientTypes, DrainType
<1>10. CASE TaskStarts /\ state \notin {"idle", "closed"}
  <2>1. pending' = Nothing \/ pending' \in MediaType
    BY <1>10 DEF TaskStarts, Snapshot, Captured, MediaType, ClientTypes, WireTypes
  <2> QED
    BY <1>10, <2>1 DEF TaskStarts, ClientTypes
<1>11. ASSUME NEW rest \in SUBSET Sources, RestoreFrom(rest), work # <<>>, UNCHANGED room
       PROVE  ClientTypes'
  BY <1>11, RestoreTypes DEF ClientTypes, DrainType
<1>12. CASE TaskPublished
  <2>1. CASE at' = <<"pause", at[2]>> /\ UNCHANGED <<pending, work, fallback, failures, drain, seen, state>>
    <3>1. at[2] \in Sources
      BY <1>12 DEF TaskPublished, ClientTypes
    <3> QED
      BY <1>12, <2>1, <3>1 DEF TaskPublished, ClientTypes
  <2>2. CASE RestoreFrom(After(at[2]))
    BY <1>12, <2>2, <1>11 DEF TaskPublished, After, Sources, RebuildRuns
  <2> QED
    BY <1>12, <2>1, <2>2 DEF TaskPublished
<1>13. CASE DrainNotice \/ DrainAgain
  <2>1. /\ [at |-> "waits", try |-> 1] \in DrainType
        /\ drain.try < RejoinAttempts => [at |-> "waits", try |-> drain.try + 1] \in DrainType
        /\ [kind |-> "rejoin", by |-> "drain"] \in TaskType
    BY DEF ClientTypes, DrainType, RejoinAttempts, TaskType
  <2>2. Append(work, [kind |-> "rejoin", by |-> "drain"]) \in Seq(TaskType)
    BY <2>1, ChainTypes DEF ClientTypes
  <2> QED
    BY <1>13, <2>1, <2>2 DEF DrainNotice, DrainAgain, ClientTypes
<1>14. CASE DrainGivesUp
  <2>1. [at |-> "idle", try |-> 0] \in DrainType
    BY DEF DrainType, RejoinAttempts
  <2> QED
    BY <1>14, <2>1, TeardownTypes DEF DrainGivesUp, ClientTypes
<1>15. CASE TaskAnswered \/ TaskPaused
  <2>1. After(at[2]) \in SUBSET Sources /\ Sources \in SUBSET Sources
    BY DEF After, Sources
  <2> QED
    BY <1>15, <2>1, <1>11 DEF TaskAnswered, TaskPaused, RebuildRuns
<1>16. CASE TaskStarts /\ state \in {"idle", "closed"}
  BY <1>16, <1>9 DEF TaskStarts
<1>17. CASE TaskFails
  BY <1>17, <1>9 DEF TaskFails, RebuildRuns
<1> QED
  BY <1>1, <1>2, <1>3, <1>4, <1>5, <1>6, <1>7, <1>8, <1>10, <1>12, <1>13, <1>14, <1>15, <1>16, <1>17
     DEF Next, PageStep, PressStep, RestartStep, TaskStep, DrainStep, vars,
         SocketUp, JoinFails, Capture, CaptureDenied, PublishedMicrophone, JoinedMuted,
         PublishedCamera, PublishFails, Leave, LeaveEnds, RoomClosed, Press, PressAnswered,
         PressFails, PathFails, RestartFails, Drop, Reconnect

(* Every step keeps the types of the hook's variables.                     *)
LEMMA HookTypesStep ==
  ASSUME TypeOK, [Next]_vars
  PROVE  HookTypes'
<1> USE TypesByGroup DEF hook
<1>1. CASE UNCHANGED hook
  BY <1>1 DEF HookTypes
<1>2. CASE Teardown /\ UNCHANGED <<away, policy, enabled, press>> /\ leaving' \in BOOLEAN
           /\ page' \in {page, "out"}
  BY <1>2, TeardownTypes DEF HookTypes
<1>3. CASE Join
  BY <1>3 DEF Join, HookTypes
<1>4. CASE TokenCame \/ SocketUp \/ JoinAnswered \/ CaptureDenied \/ PublishFails
  BY <1>4 DEF TokenCame, SocketUp, JoinAnswered, CaptureDenied, PublishFails, HookTypes
<1>5. CASE Capture
  BY <1>5 DEF Capture, PublishNext, HookTypes, Sources
<1>6. CASE PublishedMicrophone
  BY <1>6 DEF PublishedMicrophone, PublishNext, HookTypes, Sources
<1>7. CASE JoinedMuted
  BY <1>7 DEF JoinedMuted, PublishNext, HookTypes, Sources
<1>8. CASE PublishedCamera
  BY <1>8 DEF PublishedCamera, HookTypes
<1>9. CASE Leave
  BY <1>9 DEF Leave, HookTypes
<1>10. ASSUME NEW k \in Sources, Press(k)
       PROVE  HookTypes'
  <2>1. enabled' \in [Sources -> BOOLEAN]
    BY <1>10 DEF Press, HookTypes
  <2>4. press = Nothing
    BY <1>10 DEF Press
  <2>2. press' \in {press, [of |-> k, to |-> TRUE], [of |-> k, to |-> FALSE]}
    <3>1. CASE enabled[k]
      BY <1>10, <3>1 DEF Press
    <3>2. CASE ~enabled[k]
      BY <1>10, <3>2 DEF Press
    <3> QED
      BY <3>1, <3>2
  <2>3. press' = Nothing \/ press' \in [of : Sources, to : BOOLEAN]
    <3>1. \A b \in BOOLEAN : [of |-> k, to |-> b] \in [of : Sources, to : BOOLEAN]
      OBVIOUS
    <3> QED
      BY <2>2, <2>4, <3>1
  <2> QED
    BY <1>10, <2>1, <2>3 DEF Press, HookTypes
<1>11. CASE PressAnswered
  BY <1>11 DEF PressAnswered, HookTypes
<1>12. CASE PressFails
  <2>1. enabled' \in [Sources -> BOOLEAN]
    BY <1>12 DEF PressFails, HookTypes
  <2> QED
    BY <1>12, <2>1 DEF PressFails, HookTypes
<1> QED
  BY <1>1, <1>2, <1>3, <1>4, <1>5, <1>6, <1>7, <1>8, <1>9, <1>10, <1>11, <1>12
     DEF Next, PageStep, PressStep, RestartStep, TaskStep, DrainStep, vars, HookTypes,
         JoinFails, LeaveEnds, RoomClosed, PathWorks, PathFails, RestartAnswered, RestartFails,
         TaskStarts, TaskAnswered, TaskPublished, TaskPaused, TaskFails,
         DrainNotice, DrainAgain, DrainGivesUp, Drop, Reconnect

(* Every step keeps the types of the sockets, the media and the requests.  *)
LEMMA WireTypesStep ==
  ASSUME TypeOK, RebuildRuns, [Next]_vars
  PROVE  WireTypes'
<1> USE TypesByGroup DEF wire
<1>1. None \in MediaType /\ Waiting \subseteq Requests
  <2>1. None \in MediaType
    BY DEF None, MediaType
  <2> QED
    BY <2>1, Zenon DEF Waiting, Requests
<1>2. \A k \in Sources, how \in {"none", "live", "paused"} :
        /\ [producer EXCEPT ![k] = how] \in MediaType
        /\ [srv EXCEPT ![k] = how] \in MediaType
  BY DEF MediaType, WireTypes
<1>3. \A w \in Requests, l \in SUBSET Requests : Sent(w, l) \in SUBSET Requests
  BY DEF Sent
<1>4. {"page", "task", "fallback", "press"} = Requests
  BY DEF Requests
<1>5. CASE UNCHANGED wire
  BY <1>5 DEF WireTypes
<1>6. CASE Teardown
  BY <1>6, TeardownTypes DEF WireTypes, Requests, MediaType
<1>7. CASE SocketUp \/ JoinAnswered \/ PathWorks \/ RestartAnswered \/ Reconnect
  BY <1>7, <1>1 DEF SocketUp, JoinAnswered, PathWorks, RestartAnswered, Reconnect, WireTypes
<1>8. CASE Capture
  BY <1>8, <1>3 DEF Capture, PublishNext, WireTypes, Requests
<1>9. CASE PublishedMicrophone
  <2>1. "microphone" \in Sources /\ "page" \in Requests
    BY DEF Sources, Requests
  <2>2. producer' \in MediaType /\ srv' \in MediaType
    BY <1>9, <1>2, <2>1 DEF PublishedMicrophone, Publishes
  <2>3. lost' \subseteq Requests
    BY <1>9, <1>3, <2>1 DEF PublishedMicrophone, PublishNext, WireTypes
  <2> QED
    BY <1>9, <2>2, <2>3 DEF PublishedMicrophone, WireTypes
<1>10. CASE JoinedMuted
  <2>1. "microphone" \in Sources /\ "page" \in Requests
    BY DEF Sources, Requests
  <2>2. srv' \in MediaType
    BY <1>10, <1>2, <2>1 DEF JoinedMuted
  <2>3. lost' \subseteq Requests
    BY <1>10, <1>3, <2>1 DEF JoinedMuted, PublishNext, WireTypes
  <2> QED
    BY <1>10, <2>2, <2>3 DEF JoinedMuted, WireTypes
<1>11. CASE PublishedCamera
  BY <1>11, <1>2 DEF PublishedCamera, Publishes, WireTypes, Sources
<1>12. ASSUME NEW k \in Sources, Press(k)
       PROVE  WireTypes'
  <2>1. producer' \in MediaType
    BY <1>12, <1>2 DEF Press, WireTypes
  <2>2. lost' \subseteq Requests
    BY <1>12, <1>3, <1>4 DEF Press, WireTypes
  <2> QED
    BY <1>12, <2>1, <2>2 DEF Press, WireTypes
<1>13. CASE PressAnswered
  <2>1. press.of \in Sources
    BY <1>13 DEF PressAnswered, HookTypes
  <2>2. srv' \in MediaType
    BY <1>13, <1>2, <2>1 DEF PressAnswered
  <2> QED
    BY <1>13, <2>2 DEF PressAnswered, WireTypes
<1>14. ASSUME FallbackFrom(failures, state, work), UNCHANGED <<link, session, producer, srv>>,
              media' \in {media, "failed"}
       PROVE  WireTypes'
  BY <1>14, FallbackTypes DEF WireTypes, ClientTypes, Requests
<1>15. ASSUME NEW ok \in BOOLEAN, TaskEnds(ok), work # <<>>,
              UNCHANGED <<link, session, media, producer, srv>>
       PROVE  WireTypes'
  BY <1>15, TaskEndsTypes DEF WireTypes, Requests
<1>16. CASE TaskStarts
  <2>1. CASE state \in {"idle", "closed"}
    BY <1>16, <2>1, <1>15 DEF TaskStarts
  <2>2. CASE state \notin {"idle", "closed"}
    <3>1. lost' \subseteq Requests
      BY <1>16, <2>2, <1>1, <1>3 DEF TaskStarts, CloseMedia, WireTypes, Requests
    <3> QED
      BY <1>16, <2>2, <1>1, <3>1 DEF TaskStarts, CloseMedia, WireTypes
  <2> QED
    BY <2>1, <2>2
<1>17. ASSUME NEW rest \in SUBSET Sources, RestoreFrom(rest), work # <<>>
       PROVE  lost' \subseteq Requests
  BY <1>17, RestoreTypes DEF Requests
<1>18. After(at[2]) \in SUBSET Sources /\ Sources \in SUBSET Sources
  BY DEF After, Sources
<1>19. CASE TaskAnswered
  BY <1>19, <1>1, <1>17, <1>18 DEF TaskAnswered, WireTypes, RebuildRuns
<1>20. CASE TaskPublished
  <2>1. at[2] \in Sources /\ pending[at[2]] \in {"none", "live", "paused"} /\ work # <<>>
    BY <1>20 DEF TaskPublished, Served, RebuildRuns, ClientTypes, MediaType
  <2>2. producer' \in MediaType /\ srv' \in MediaType
    BY <1>20, <1>2, <2>1 DEF TaskPublished, Publishes
  <2>3. lost' \subseteq Requests
    BY <1>20, <2>1, <1>3, <1>17, <1>18 DEF TaskPublished, WireTypes, Requests
  <2> QED
    BY <1>20, <2>2, <2>3 DEF TaskPublished, WireTypes
<1>21. CASE TaskPaused
  <2>1. at[2] \in Sources /\ work # <<>>
    BY <1>21 DEF TaskPaused, ClientTypes, RebuildRuns
  <2>2. srv' \in MediaType
    BY <1>21, <1>2, <2>1 DEF TaskPaused
  <2> QED
    BY <1>21, <2>1, <2>2, <1>17, <1>18 DEF TaskPaused, WireTypes
<1>22. CASE Drop
  BY <1>22, <1>1 DEF Drop, WireTypes
<1>23. CASE PathFails
  BY <1>23, <1>14 DEF PathFails, WireTypes
<1>24. CASE TaskFails
  BY <1>24, <1>15 DEF TaskFails, RebuildRuns
<1> QED
  BY <1>5, <1>6, <1>7, <1>8, <1>9, <1>10, <1>11, <1>12, <1>13, <1>14, <1>16, <1>19, <1>20,
     <1>21, <1>22, <1>23, <1>24
     DEF Next, PageStep, PressStep, RestartStep, TaskStep, DrainStep, vars, RestartFails,
         Join, TokenCame, JoinFails, CaptureDenied, PublishFails, Leave, LeaveEnds, RoomClosed,
         PressFails, DrainNotice, DrainAgain, DrainGivesUp

(* Every step keeps the type of the history.                               *)
LEMMA SeenTypeStep ==
  ASSUME TypeOK, RebuildRuns, [Next]_vars
  PROVE  seen' \in SeenType
<1> USE TypesByGroup
<1>1. CASE UNCHANGED seen
  BY <1>1
<1>2. CASE JoinAnswered
  BY <1>2 DEF JoinAnswered, SeenType
<1>3. CASE PublishedMicrophone \/ PublishedCamera
  BY <1>3, SeenTypes DEF PublishedMicrophone, PublishedCamera, Sources
<1>4. ASSUME NEW k \in Sources, Press(k)
      PROVE  seen' \in SeenType
  BY <1>4, SeenTypes DEF Press
<1>5. CASE PressFails
  BY <1>5, SeenTypes DEF PressFails, HookTypes
<1>6. ASSUME FallbackFrom(failures, state, work)
      PROVE  seen' \in SeenType
  BY <1>6, FallbackTypes DEF ClientTypes
<1>7. ASSUME NEW ok \in BOOLEAN, TaskEnds(ok), work # <<>>
      PROVE  seen' \in SeenType
  BY <1>7, TaskEndsTypes
<1>8. ASSUME NEW rest \in SUBSET Sources, RestoreFrom(rest), work # <<>>
      PROVE  seen' \in SeenType
  BY <1>8, RestoreTypes
<1>9. After(at[2]) \in SUBSET Sources /\ Sources \in SUBSET Sources
  BY DEF After, Sources
<1>10. CASE TaskAnswered \/ TaskPublished \/ TaskPaused
  BY <1>8, <1>9, <1>10 DEF TaskAnswered, TaskPublished, TaskPaused, RebuildRuns
<1>11. CASE TaskStarts \/ TaskFails
  BY <1>7, <1>11 DEF TaskStarts, TaskFails, RebuildRuns
<1>12. CASE PathFails \/ RestartFails
  BY <1>6, <1>12 DEF PathFails, RestartFails
<1>13. CASE PublishFails
  <2>1. [seen EXCEPT !.blind = @ \cup {"microphone"}] \in SeenType
    BY SeenTypes DEF Sources
  <2> QED
    BY <1>13, <2>1 DEF PublishFails
<1> QED
  BY <1>1, <1>2, <1>3, <1>4, <1>5, <1>10, <1>11, <1>12, <1>13
     DEF Next, PageStep, PressStep, RestartStep, TaskStep, DrainStep, vars,
         Join, TokenCame, SocketUp, JoinFails, Capture, CaptureDenied, JoinedMuted,
         Leave, LeaveEnds, RoomClosed, PressAnswered, PathWorks, RestartAnswered,
         DrainNotice, DrainAgain, DrainGivesUp, Drop, Reconnect

(* Every step keeps the types.                                             *)
LEMMA TypeStep ==
  ASSUME TypeOK, RebuildRuns, [Next]_vars
  PROVE  TypeOK'
<1>1. ClientTypes' /\ HookTypes' /\ WireTypes' /\ Counted' /\ seen' \in SeenType
  BY ClientTypesStep, HookTypesStep, WireTypesStep, EventsAreCounted, SeenTypeStep
<1> QED
  BY <1>1 DEF TypeOK, ClientTypes, HookTypes, WireTypes, Counted, SeenType, MediaType, TaskType,
              DrainType, Requests

-----------------------------------------------------------------------------
(* Rebuilds *)

(* A rebuild takes the media down: only the snapshot holds them then.      *)
MediaAreTaken ==
  /\ state' = "reconnecting" /\ pending' = Snapshot /\ producer' = None /\ media' = "none"
  /\ at' = <<"ask">>
  /\ lost' = Sent("task", lost) \cup (Waiting \cap {"fallback"})
               \cup (IF page \in Sources THEN {"page"} ELSE {})
  /\ UNCHANGED <<work, fallback, failures, drain, seen>>

(* It has nothing more to restore and has ended.                           *)
AllIsRestored(rest) ==
  /\ \A k \in rest : pending[k] = "none" \/ track[k] # "live"
  /\ pending' = Nothing /\ at' = <<"start">> /\ lost' = lost
  /\ state' = IF state = "reconnecting" THEN "joined" ELSE state
  /\ seen'.published = seen.published /\ seen'.blind = seen.blind /\ ~seen'.gaveUp
  /\ fallback' \in {fallback, "idle"}

(* Or it goes on with k, the camera before the microphone.                 *)
NextIsRestored(rest, k) ==
  /\ pending[k] # "none" /\ track[k] = "live"
  /\ k = "microphone" /\ "camera" \in rest =>
       pending["camera"] = "none" \/ track["camera"] # "live"
  /\ at' = <<"publish", k>> /\ lost' = Sent("task", lost)
  /\ UNCHANGED <<pending, work, fallback, failures, drain, seen, state>>

LEMMA RebuildStarts ==
  ASSUME TypeOK, OutsideLesson, RebuildRuns, TaskStarts
  PROVE  \/ /\ state \in {"idle", "closed"} /\ StepHasFailed /\ at' = <<"start">>
            /\ UNCHANGED <<pending, media, producer>>
         \/ InLesson /\ MediaAreTaken
<1>1. CASE state \in {"idle", "closed"}
  BY <1>1, FailedTaskLeaves DEF TaskStarts
<1>2. CASE state \notin {"idle", "closed"}
  <2>1. InLesson
    BY <1>2 DEF TypeOK, TaskStarts, OutsideLesson, InLesson
  <2> QED
    BY <1>2, <2>1 DEF TaskStarts, MediaAreTaken, CloseMedia
<1> QED
  BY <1>1, <1>2

LEMMA RestoreGoesOn ==
  ASSUME TypeOK, NEW rest \in SUBSET Sources, RestoreFrom(rest)
  PROVE  AllIsRestored(rest) \/ \E k \in rest : NextIsRestored(rest, k)
<1> DEFINE left == {k \in rest : pending[k] # "none" /\ track[k] = "live"}
<1>1. CASE left = {}
  <2>1. pending' = Nothing /\ TaskEnds(TRUE)
    BY <1>1 DEF RestoreFrom
  <2>2. /\ at' = <<"start">> /\ lost' = lost /\ fallback' \in {fallback, "idle"}
        /\ state' = IF state = "reconnecting" THEN "joined" ELSE state
        /\ seen' = [seen EXCEPT !.gaveUp = FALSE]
    BY <2>1 DEF TaskEnds
  <2>3. seen'.published = seen.published /\ seen'.blind = seen.blind /\ ~seen'.gaveUp
    BY <2>2 DEF TypeOK
  <2> QED
    BY <1>1, <2>1, <2>2, <2>3 DEF AllIsRestored
<1>2. CASE left # {}
  <2> DEFINE k == IF "camera" \in left THEN "camera" ELSE "microphone"
  <2>1. /\ at' = <<"publish", k>> /\ lost' = Sent("task", lost)
        /\ UNCHANGED <<pending, work, fallback, failures, drain, seen, state>>
    BY <1>2 DEF RestoreFrom
  <2>2. k \in rest /\ pending[k] # "none" /\ track[k] = "live"
    BY <1>2 DEF Sources
  <2>3. k = "microphone" /\ "camera" \in rest =>
          pending["camera"] = "none" \/ track["camera"] # "live"
    OBVIOUS
  <2> QED
    BY <2>1, <2>2, <2>3 DEF NextIsRestored
<1> QED
  BY <1>1, <1>2

-----------------------------------------------------------------------------
(* The parts of the invariant, one by one *)

(* Every step keeps what hangs on the transports and on the socket.        *)
LEMMA AttachedStep ==
  ASSUME LessonInv, [Next]_vars
  PROVE  Attached'
<1> USE DEF LessonInv, TypeOK, Attached, None
<1>1. CASE UNCHANGED <<media, producer, session, link, track>>
  BY <1>1
<1>2. CASE Teardown
  BY <1>2 DEF Teardown
<1>3. CASE SocketUp
  BY <1>3 DEF SocketUp
<1>4. CASE JoinAnswered
  BY <1>4 DEF JoinAnswered, OutsideLesson, InLesson
<1>5. CASE Capture
  BY <1>5 DEF Capture
<1>6. CASE PublishedMicrophone
  BY <1>6 DEF PublishedMicrophone, Publishes, Served, JoinGoesOn, Sources
<1>7. CASE PublishedCamera
  BY <1>7 DEF PublishedCamera, Publishes, Served, JoinGoesOn, Sources
<1>8. ASSUME NEW k \in Sources, Press(k) PROVE Attached'
  BY <1>8 DEF Press
<1>9. CASE media \in {"new", "up"} /\ media' = "failed" /\ UNCHANGED <<producer, session, link, track>>
  BY <1>9
<1>15. CASE PathWorks
  BY <1>15 DEF PathWorks, hook
<1>16. CASE RestartAnswered
  BY <1>16 DEF RestartAnswered, RebuildRuns, Served, hook
<1>10. CASE TaskStarts
  BY <1>10, RebuildStarts DEF MediaAreTaken, TaskStarts, hook
<1>11. CASE TaskAnswered
  BY <1>11 DEF TaskAnswered, hook
<1>12. CASE TaskPublished
  BY <1>12 DEF TaskPublished, Publishes, Served, RebuildRuns, hook
<1>13. CASE Drop
  BY <1>13 DEF Drop, hook
<1>14. CASE Reconnect
  BY <1>14 DEF Reconnect, hook
<1> QED
  BY <1>1, <1>2, <1>3, <1>4, <1>5, <1>6, <1>7, <1>8, <1>9, <1>10, <1>11, <1>12, <1>13, <1>14,
     <1>15, <1>16
     DEF Next, PageStep, PressStep, RestartStep, TaskStep, DrainStep, vars, hook, wire,
         Join, PathFails, CaptureDenied, TokenCame, JoinFails, JoinedMuted, PublishFails, Leave, LeaveEnds,
         RoomClosed, PressAnswered, PressFails, RestartFails, TaskPaused, TaskFails,
         DrainNotice, DrainAgain, DrainGivesUp

(* Every step keeps the media and the recovery within the lesson.          *)
LEMMA OutsideLessonStep ==
  ASSUME LessonInv, [Next]_vars
  PROVE  OutsideLesson'
<1> USE DEF LessonInv, TypeOK, OutsideLesson, InLesson, client, hook, wire
<1>1. CASE UNCHANGED <<room, joined, state, media, session, pending, page, work, drain,
                       fallback, lost>>
  BY <1>1
<1>2. CASE Join
  BY <1>2 DEF Join, Waiting
<1>3. CASE TokenCame
  BY <1>3 DEF TokenCame
<1>4. CASE SocketUp
  BY <1>4 DEF SocketUp
<1>5. CASE JoinAnswered
  BY <1>5 DEF JoinAnswered
<1>6. CASE JoinFails
  BY <1>6 DEF JoinFails, Teardown
<1>7. CASE Capture
  BY <1>7 DEF Capture, PublishNext
<1>8. CASE CaptureDenied
  BY <1>8 DEF CaptureDenied
<1>9. CASE PublishedMicrophone
  BY <1>9 DEF PublishedMicrophone, PublishNext, Served
<1>10. CASE JoinedMuted
  BY <1>10 DEF JoinedMuted, PublishNext, Served
<1>11. CASE PublishedCamera
  BY <1>11 DEF PublishedCamera
<1>12. CASE PublishFails
  BY <1>12 DEF PublishFails, Sources
<1>13. CASE LeaveEnds
  BY <1>13 DEF LeaveEnds, Teardown, Waiting, Sources
<1>14. CASE RoomClosed
  BY <1>14 DEF RoomClosed, Teardown
<1>15. ASSUME NEW k \in Sources, Press(k) PROVE OutsideLesson'
  BY <1>15 DEF Press, Sent
<1>16. CASE PathWorks
  BY <1>16 DEF PathWorks
<1>17. CASE PathFails
  <2>1. CASE state = "joined" /\ fallback = "idle"
    BY <1>17, <2>1, FallbackLeaves DEF PathFails, StepHasFailed
  <2>2. CASE ~(state = "joined" /\ fallback = "idle")
    BY <1>17, <2>2 DEF PathFails
  <2> QED
    BY <2>1, <2>2
<1>18. CASE RestartAnswered
  BY <1>18 DEF RestartAnswered, Served
<1>19. CASE RestartFails
  BY <1>19, FallbackLeaves DEF RestartFails, StepHasFailed
<1>20. CASE TaskStarts
  <2>1. CASE state \in {"idle", "closed"}
    BY <1>20, <2>1, RebuildStarts DEF TaskStarts, StepHasFailed
  <2>2. CASE InLesson /\ MediaAreTaken
    BY <1>20, <2>2 DEF TaskStarts, MediaAreTaken
  <2> QED
    BY <1>20, <2>1, <2>2, RebuildStarts
<1>21. CASE TaskAnswered
  BY <1>21, RestoreGoesOn DEF TaskAnswered, AllIsRestored, NextIsRestored, RebuildRuns, Sent
<1>22. CASE TaskPublished \/ TaskPaused
  <2>1. After(at[2]) \in SUBSET Sources /\ work # <<>>
    BY <1>22 DEF TaskPublished, TaskPaused, After, Sources, RebuildRuns
  <2> QED
    BY <1>22, <2>1, RestoreGoesOn DEF TaskPublished, TaskPaused, AllIsRestored, NextIsRestored, Sent
<1>23. CASE TaskFails
  BY <1>23, FailedTaskLeaves DEF TaskFails, StepHasFailed, RebuildRuns
<1>24. CASE DrainNotice \/ DrainAgain
  BY <1>24 DEF DrainNotice, DrainAgain
<1>25. CASE DrainGivesUp
  BY <1>25 DEF DrainGivesUp, Teardown
<1>26. CASE Drop
  BY <1>26 DEF Drop
<1> QED
  BY <1>1, <1>2, <1>3, <1>4, <1>5, <1>6, <1>7, <1>8, <1>9, <1>10, <1>11, <1>12, <1>13, <1>14,
     <1>15, <1>16, <1>17, <1>18, <1>19, <1>20, <1>21, <1>22, <1>23, <1>24, <1>25, <1>26
     DEF Next, PageStep, PressStep, RestartStep, TaskStep, DrainStep, vars,
         Leave, PressAnswered, PressFails, Reconnect

(* Every step keeps what a running rebuild relies on.                      *)
LEMMA RebuildRunsStep ==
  ASSUME LessonInv, [Next]_vars
  PROVE  RebuildRuns'
<1> USE DEF LessonInv, TypeOK, RebuildRuns, InLesson, client, hook, wire
<1>1. CASE UNCHANGED <<at, work, lost, state, media, pending, track, producer, fallback>>
  BY <1>1
<1>2. CASE Join
  BY <1>2 DEF Join, OutsideLesson, Waiting
<1>3. CASE TokenCame
  BY <1>3 DEF TokenCame, OutsideLesson
<1>4. CASE SocketUp
  BY <1>4 DEF SocketUp
<1>5. CASE JoinAnswered
  BY <1>5 DEF JoinAnswered, OutsideLesson
<1>6. CASE Teardown /\ UNCHANGED <<at, work, fallback>>
  BY <1>6 DEF Teardown, Waiting
<1>7. CASE Capture
  <2>1. \A k \in Sources : pending # Nothing => pending[k] = "none"
    BY <1>7 DEF Capture, JoinGoesOn, PublishedIsHeld
  <2>2. /\ "task" \in lost <=> "task" \in lost'
        /\ "fallback" \in lost <=> "fallback" \in lost'
        /\ UNCHANGED <<at, work, state, media, pending, producer, fallback>>
    BY <1>7 DEF Capture, PublishNext, Sent
  <2> QED
    BY <2>1, <2>2
<1>8. CASE PublishedMicrophone
  <2>1. /\ \A k \in Sources : producer[k] # "none" => producer'[k] # "none"
        /\ "task" \in lost <=> "task" \in lost'
        /\ "fallback" \in lost <=> "fallback" \in lost'
        /\ UNCHANGED <<at, work, state, media, pending, track, fallback>>
    BY <1>8 DEF PublishedMicrophone, Publishes, PublishNext, Sent
  <2> QED
    BY <2>1 DEF Sources
<1>9. CASE JoinedMuted
  BY <1>9 DEF JoinedMuted, PublishNext, Sent
<1>10. CASE PublishedCamera
  BY <1>10 DEF PublishedCamera, Publishes
<1>11. ASSUME NEW k \in Sources, Press(k) PROVE RebuildRuns'
  <2>1. /\ \A j \in Sources : producer[j] # "none" => producer'[j] # "none"
        /\ "task" \in lost <=> "task" \in lost'
        /\ "fallback" \in lost <=> "fallback" \in lost'
        /\ UNCHANGED <<at, work, state, media, pending, track, fallback>>
    BY <1>11 DEF Press, Sent
  <2> QED
    BY <2>1 DEF Sources
<1>12. CASE PathWorks
  BY <1>12 DEF PathWorks
<1>13. CASE PathFails
  <2>1. CASE state = "joined" /\ fallback = "idle"
    <3>1. StepHasFailed /\ (work # <<>> => work' # <<>>) /\ media' = "failed" /\ media # "none"
          /\ UNCHANGED <<at, pending, track, producer>>
      BY <1>13, <2>1, FallbackLeaves, FallbackTypes DEF PathFails, TaskType
    <3> QED
      BY <2>1, <3>1 DEF StepHasFailed
  <2>2. CASE ~(state = "joined" /\ fallback = "idle")
    BY <1>13, <2>2 DEF PathFails
  <2> QED
    BY <2>1, <2>2
<1>14. CASE RestartAnswered
  BY <1>14 DEF RestartAnswered, Served
<1>15. CASE RestartFails
  <2>1. StepHasFailed /\ (work # <<>> => work' # <<>>) /\ UNCHANGED <<at, media, pending, track, producer>>
    BY <1>15, FallbackLeaves, FallbackTypes DEF RestartFails, TaskType
  <2> QED
    BY <2>1 DEF StepHasFailed
<1>16. CASE TaskStarts
  <2>1. CASE state \in {"idle", "closed"}
    BY <1>16, <2>1, RebuildStarts DEF TaskStarts, StepHasFailed, OutsideLesson
  <2>2. CASE InLesson /\ MediaAreTaken
    <3>1. "fallback" \in lost' \/ fallback' # "restart"
      BY <2>2 DEF MediaAreTaken, Waiting
    <3>2. pending' # Nothing
      BY <2>2, LessonAssumption DEF MediaAreTaken, Snapshot, Captured
    <3> QED
      BY <1>16, <2>2, <3>1, <3>2 DEF TaskStarts, MediaAreTaken
  <2> QED
    BY <1>16, <2>1, <2>2, RebuildStarts
<1>17. CASE TaskAnswered
  <2>1. AllIsRestored(Sources) \/ \E k \in Sources : NextIsRestored(Sources, k)
    BY <1>17, RestoreGoesOn DEF TaskAnswered
  <2>2. media' = "new" /\ UNCHANGED <<track, producer>> /\ "task" \notin lost /\ work # <<>> /\ InLesson
    BY <1>17 DEF TaskAnswered
  <2>3. CASE AllIsRestored(Sources)
    BY <2>2, <2>3 DEF AllIsRestored
  <2>4. ASSUME NEW k \in Sources, NextIsRestored(Sources, k) PROVE RebuildRuns'
    <3>1. /\ at' = <<"publish", k>> /\ UNCHANGED <<pending, work, fallback, state, track, producer>>
          /\ pending'[k] # "none" /\ track'[k] = "live"
          /\ k = "microphone" => ~(pending'["camera"] # "none" /\ track'["camera"] = "live")
      BY <2>2, <2>4 DEF NextIsRestored, Sources
    <3>2. pending # Nothing
      BY <1>17 DEF TaskAnswered
    <3> QED
      BY <2>2, <3>1, <3>2
  <2> QED
    BY <2>1, <2>3, <2>4
<1>18. ASSUME NEW k \in Sources, "task" \notin lost, work # <<>>, InLesson, RestoreFrom(After(k)),
              producer'[k] # "none", \A j \in Sources : producer[j] # "none" => producer'[j] # "none",
              k = "microphone" /\ pending["camera"] # "none" /\ track["camera"] = "live" =>
                producer'["camera"] # "none",
              media # "none", pending # Nothing, pending[k] # "none",
              UNCHANGED <<media, track>>
       PROVE  RebuildRuns'
  <2>1. AllIsRestored(After(k)) \/ \E j \in After(k) : NextIsRestored(After(k), j)
    BY <1>18, RestoreGoesOn DEF After, Sources
  <2>2. CASE AllIsRestored(After(k))
    BY <1>18, <2>2 DEF AllIsRestored
  <2>3. ASSUME NEW j \in After(k), NextIsRestored(After(k), j) PROVE RebuildRuns'
    <3>1. k = "camera" /\ j = "microphone"
      BY DEF After
    <3> QED
      BY <1>18, <2>3, <3>1 DEF NextIsRestored, Sent, Sources
  <2> QED
    BY <2>1, <2>2, <2>3
<1>19. CASE TaskPublished
  <2> DEFINE k == at[2]
  <2>1. k \in Sources /\ at = <<"publish", k>> /\ "task" \notin lost
    BY <1>19 DEF TaskPublished, Served
  <2>2. /\ producer' = [producer EXCEPT ![k] = pending[k]] /\ UNCHANGED <<media, track>>
        /\ media # "none" /\ pending # Nothing /\ pending[k] # "none" /\ track[k] = "live"
    BY <1>19, <2>1 DEF TaskPublished, Publishes
  <2>3. CASE at' = <<"pause", k>> /\ lost' = Sent("task", lost)
             /\ UNCHANGED <<pending, work, fallback, failures, drain, seen, state>>
    BY <2>1, <2>2, <2>3 DEF Sent, Sources
  <2>4. CASE RestoreFrom(After(k))
    BY <2>1, <2>2, <2>4, <1>18
  <2> QED
    BY <1>19, <2>3, <2>4 DEF TaskPublished
<1>20. CASE TaskPaused
  <2>1. at[2] \in Sources /\ at = <<"pause", at[2]>> /\ "task" \notin lost
    BY <1>20 DEF TaskPaused, Served
  <2> QED
    BY <1>20, <2>1, <1>18 DEF TaskPaused
<1>21. CASE TaskFails
  BY <1>21, FailedTaskLeaves DEF TaskFails, StepHasFailed
<1>22. CASE DrainNotice \/ DrainAgain
  <2>1. work' = work \/ work' # <<>>
    BY <1>22, ChainTypes DEF DrainNotice, DrainAgain
  <2>2. UNCHANGED <<at, lost, state, media, pending, track, producer, fallback>>
    BY <1>22 DEF DrainNotice, DrainAgain
  <2> QED
    BY <2>1, <2>2
<1>23. CASE Drop
  BY <1>23 DEF Drop
<1> QED
  BY <1>1, <1>2, <1>3, <1>4, <1>5, <1>6, <1>7, <1>8, <1>9, <1>10, <1>11, <1>12, <1>13, <1>14,
     <1>15, <1>16, <1>17, <1>19, <1>20, <1>21, <1>22, <1>23
     DEF Next, PageStep, PressStep, RestartStep, TaskStep, DrainStep, vars, JoinFails, LeaveEnds,
         RoomClosed, DrainGivesUp, CaptureDenied, PublishFails, Leave, PressAnswered, PressFails,
         Reconnect

(* Every step keeps the hook's join in step with what it has published.    *)
LEMMA JoinGoesOnStep ==
  ASSUME LessonInv, [Next]_vars
  PROVE  JoinGoesOn'
<1> USE DEF LessonInv, TypeOK, JoinGoesOn, client, hook, wire, Sources
<1>1. CASE UNCHANGED <<page, seen, lost, pending, media, track>>
  BY <1>1
<1>2. CASE Join
  BY <1>2 DEF Join
<1>3. CASE TokenCame
  BY <1>3 DEF TokenCame
<1>4. CASE SocketUp
  BY <1>4 DEF SocketUp
<1>5. CASE JoinAnswered
  BY <1>5 DEF JoinAnswered
<1>6. CASE Teardown /\ page' \in {page, "out"} /\ UNCHANGED seen
  BY <1>6 DEF Teardown, Waiting
<1>7. CASE Capture
  <2>1. pending # Nothing => \A k \in Sources : pending[k] = "none"
    BY <1>7 DEF Capture, PublishedIsHeld
  <2>2. media # "none" => pending = Nothing
    BY <2>1 DEF RebuildRuns
  <2> QED
    BY <1>7, <2>2 DEF Capture, PublishNext
<1>8. CASE CaptureDenied
  BY <1>8 DEF CaptureDenied
<1>9. CASE PublishedMicrophone
  BY <1>9 DEF PublishedMicrophone, PublishNext, Served
<1>10. CASE JoinedMuted
  BY <1>10 DEF JoinedMuted, PublishNext, Served
<1>11. CASE PublishedCamera
  BY <1>11 DEF PublishedCamera
<1>12. CASE PublishFails
  BY <1>12 DEF PublishFails
<1>13. ASSUME NEW k \in Sources, Press(k) PROVE JoinGoesOn'
  <2>1. seen'.published = seen.published /\ ("page" \in lost <=> "page" \in lost')
    BY <1>13 DEF Press, Sent
  <2> QED
    BY <1>13, <2>1 DEF Press
<1>14. CASE PressFails
  BY <1>14 DEF PressFails
<1>15. CASE PathWorks
  BY <1>15 DEF PathWorks
<1>16. CASE PathFails
  <2>1. media' = "failed" /\ media # "none" /\ UNCHANGED <<page, pending, track>>
    BY <1>16 DEF PathFails
  <2>2. (UNCHANGED <<seen, lost>>) \/ StepHasFailed
    BY <1>16, FallbackLeaves DEF PathFails
  <2> QED
    BY <2>1, <2>2 DEF StepHasFailed
<1>17. CASE RestartAnswered
  BY <1>17 DEF RestartAnswered, Served, RebuildRuns
<1>18. CASE StepHasFailed /\ UNCHANGED <<page, pending, media, track>>
  BY <1>18 DEF StepHasFailed
<1>19. CASE TaskStarts
  <2>1. CASE MediaAreTaken
    BY <1>19, <2>1 DEF TaskStarts, MediaAreTaken, Sent
  <2> QED
    BY <1>19, <2>1, <1>18, RebuildStarts DEF TaskStarts
<1>20. ASSUME NEW rest \in SUBSET Sources, RestoreFrom(rest), UNCHANGED <<page, track>>,
              media' = media \/ (media' = "new" /\ (page = "mute" => "page" \in lost))
       PROVE  JoinGoesOn'
  <2>1. seen'.published = seen.published /\ ("page" \in lost <=> "page" \in lost')
        /\ pending' \in {pending, Nothing}
    BY <1>20, RestoreGoesOn DEF AllIsRestored, NextIsRestored, Sent
  <2> QED
    BY <1>20, <2>1
<1>21. CASE TaskAnswered
  BY <1>20, <1>21 DEF TaskAnswered, PauseIsOut
<1>22. CASE TaskPublished
  <2>1. CASE RestoreFrom(After(at[2]))
    BY <1>20, <1>22, <2>1 DEF TaskPublished, After
  <2>2. CASE lost' = Sent("task", lost) /\ UNCHANGED <<pending, seen>>
    BY <1>22, <2>2 DEF TaskPublished, Sent
  <2> QED
    BY <1>22, <2>1, <2>2 DEF TaskPublished
<1>23. CASE TaskPaused
  BY <1>20, <1>23 DEF TaskPaused, After
<1>24. CASE TaskFails
  BY <1>18, <1>24, FailedTaskLeaves DEF TaskFails, RebuildRuns
<1>25. CASE Drop
  BY <1>25 DEF Drop
<1>26. CASE RestartFails
  BY <1>18, <1>26, FallbackLeaves DEF RestartFails
<1> QED
  BY <1>1, <1>2, <1>3, <1>4, <1>5, <1>6, <1>7, <1>8, <1>9, <1>10, <1>11, <1>12, <1>13, <1>14,
     <1>15, <1>16, <1>17, <1>19, <1>21, <1>22, <1>23, <1>24, <1>25, <1>26
     DEF Next, PageStep, PressStep, RestartStep, TaskStep, DrainStep, vars, JoinFails, LeaveEnds,
         RoomClosed, DrainGivesUp, Leave, PressAnswered, DrainNotice, DrainAgain, Reconnect

(* Every step keeps the published tracks in hand.                          *)
LEMMA PublishedIsHeldStep ==
  ASSUME LessonInv, [Next]_vars
  PROVE  PublishedIsHeld'
<1> USE DEF LessonInv, TypeOK, PublishedIsHeld, InLesson, client, hook, wire
<1>1. CASE UNCHANGED <<producer, seen, pending, track, state>>
  BY <1>1
<1>2. CASE Join \/ TokenCame
  BY <1>2 DEF Join, TokenCame
<1>3. CASE JoinAnswered
  BY <1>3 DEF JoinAnswered, OutsideLesson, Attached, None
<1>4. CASE Teardown /\ UNCHANGED seen
  BY <1>4 DEF Teardown, None
<1>5. CASE Capture
  <2>1. seen.published = {} /\ UNCHANGED <<producer, seen, pending>>
    BY <1>5 DEF Capture, JoinGoesOn
  <2> QED
    BY <2>1
<1>6. CASE PublishedMicrophone
  <2>1. /\ producer'["microphone"] # "none"
        /\ \A k \in Sources \ {"microphone"} : producer'[k] = producer[k]
        /\ seen'.published = seen.published \cup {"microphone"}
        /\ UNCHANGED <<pending, track, state>>
    BY <1>6 DEF PublishedMicrophone, Publishes, Sources
  <2>2. pending = Nothing /\ \A k \in Sources : track[k] = "live"
    BY <1>6 DEF PublishedMicrophone, Served, JoinGoesOn, Sources
  <2> QED
    BY <2>1, <2>2
<1>7. CASE PublishedCamera
  <2>1. /\ producer'["camera"] # "none"
        /\ \A k \in Sources \ {"camera"} : producer'[k] = producer[k]
        /\ seen'.published = seen.published \cup {"camera"}
        /\ UNCHANGED <<pending, track, state>>
    BY <1>7 DEF PublishedCamera, Publishes, Sources
  <2>2. pending = Nothing /\ \A k \in Sources : track[k] = "live"
    BY <1>7 DEF PublishedCamera, Served, JoinGoesOn, Sources
  <2> QED
    BY <2>1, <2>2
<1>8. ASSUME NEW k \in Sources, Press(k) PROVE PublishedIsHeld'
  <2>1. /\ \A j \in Sources : producer'[j] = "none" <=> producer[j] = "none"
        /\ seen'.published = seen.published /\ UNCHANGED <<pending, track, state>>
    BY <1>8 DEF Press
  <2> QED
    BY <2>1
<1>9. CASE PressFails
  BY <1>9 DEF PressFails
<1>10. CASE StepHasFailed /\ UNCHANGED <<producer, pending, track>>
  BY <1>10 DEF StepHasFailed
<1>11. CASE PathFails \/ RestartFails
  BY <1>1, <1>10, <1>11, FallbackLeaves DEF PathFails, RestartFails
<1>12. CASE TaskFails
  BY <1>10, <1>12, FailedTaskLeaves DEF TaskFails, RebuildRuns
<1>13. CASE TaskStarts
  <2>1. CASE InLesson /\ MediaAreTaken
    <3>1. pending' = Snapshot /\ pending' # Nothing /\ producer' = None
          /\ UNCHANGED <<seen, track>>
      BY <1>13, <2>1, LessonAssumption DEF TaskStarts, MediaAreTaken, Snapshot, Captured
    <3>2. CASE pending = Nothing
      BY <2>1, <3>1, <3>2 DEF Snapshot, Captured, None
    <3>3. CASE pending # Nothing
      BY <2>1, <3>1, <3>3 DEF Snapshot, None
    <3> QED
      BY <3>2, <3>3
  <2> QED
    BY <1>10, <1>13, <2>1, RebuildStarts DEF TaskStarts
<1>14. ASSUME NEW rest \in SUBSET Sources, RestoreFrom(rest), InLesson, pending # Nothing,
              UNCHANGED track,
              \A k \in Sources : producer'[k] # "none" => k \in seen.published,
              \A k \in Sources \ rest :
                pending[k] # "none" /\ track[k] = "live" => producer'[k] # "none"
       PROVE  PublishedIsHeld'
  <2>1. CASE AllIsRestored(rest)
    BY <1>14, <2>1 DEF AllIsRestored
  <2>2. ASSUME NEW k \in rest, NextIsRestored(rest, k) PROVE PublishedIsHeld'
    BY <1>14, <2>2 DEF NextIsRestored
  <2> QED
    BY <1>14, <2>1, <2>2, RestoreGoesOn
<1>15. CASE TaskAnswered
  BY <1>14, <1>15 DEF TaskAnswered, RebuildRuns
<1>16. CASE TaskPublished
  <2> DEFINE k == at[2]
  <2>1. k \in Sources /\ at = <<"publish", k>> /\ "task" \notin lost
    BY <1>16 DEF TaskPublished, Served
  <2>2. /\ producer' = [producer EXCEPT ![k] = pending[k]] /\ UNCHANGED track
        /\ pending # Nothing /\ pending[k] # "none" /\ track[k] = "live" /\ InLesson
        /\ k = "microphone" /\ pending["camera"] # "none" /\ track["camera"] = "live" =>
             producer["camera"] # "none"
    BY <1>16, <2>1 DEF TaskPublished, Publishes, RebuildRuns
  <2>3. \A j \in Sources : producer'[j] # "none" => j \in seen.published
    BY <2>1, <2>2
  <2>4. CASE UNCHANGED <<pending, seen, state>>
    BY <2>1, <2>2, <2>3, <2>4
  <2>5. CASE RestoreFrom(After(k))
    <3>1. \A j \in Sources \ After(k) :
            pending[j] # "none" /\ track[j] = "live" => producer'[j] # "none"
      BY <2>1, <2>2 DEF After, Sources
    <3>2. After(k) \in SUBSET Sources
      BY DEF After, Sources
    <3> QED
      BY <1>14, <2>2, <2>3, <2>5, <3>1, <3>2
  <2> QED
    BY <1>16, <2>4, <2>5 DEF TaskPublished
<1>17. CASE TaskPaused
  <2> DEFINE k == at[2]
  <2>1. k \in Sources /\ at = <<"pause", k>> /\ "task" \notin lost
    BY <1>17 DEF TaskPaused, Served
  <2>2. \A j \in Sources \ After(k) :
          pending[j] # "none" /\ track[j] = "live" => producer[j] # "none"
    BY <2>1 DEF RebuildRuns, After, Sources
  <2>3. After(k) \in SUBSET Sources /\ InLesson /\ pending # Nothing
    BY <2>1 DEF After, Sources, RebuildRuns
  <2> QED
    BY <1>14, <1>17, <2>2, <2>3 DEF TaskPaused
<1> QED
  BY <1>1, <1>2, <1>3, <1>4, <1>5, <1>6, <1>7, <1>8, <1>9, <1>11, <1>12, <1>13, <1>15, <1>16, <1>17
     DEF Next, PageStep, PressStep, RestartStep, TaskStep, DrainStep, vars, JoinFails, LeaveEnds,
         RoomClosed, DrainGivesUp, SocketUp, CaptureDenied, JoinedMuted, PublishFails, Leave,
         PressAnswered, PathWorks, RestartAnswered, DrainNotice, DrainAgain, Drop, Reconnect

(* Every step leaves no snapshot behind in a lesson that has recovered.    *)
LEMMA NothingLeftBehindStep ==
  ASSUME LessonInv, [Next]_vars
  PROVE  NothingLeftBehind'
<1> USE DEF LessonInv, TypeOK, NothingLeftBehind, client, hook, wire
<1>1. CASE UNCHANGED <<state, seen, pending>>
  BY <1>1
<1>2. CASE Join \/ TokenCame
  BY <1>2 DEF Join, TokenCame
<1>3. CASE JoinAnswered
  BY <1>3 DEF JoinAnswered, OutsideLesson, InLesson
<1>4. CASE Teardown
  BY <1>4 DEF Teardown
<1>5. CASE seen'.gaveUp = seen.gaveUp /\ UNCHANGED <<state, pending>>
  BY <1>5
<1>6. CASE PublishedMicrophone \/ PublishedCamera \/ PressFails
  BY <1>5, <1>6 DEF PublishedMicrophone, PublishedCamera, PressFails
<1>7. ASSUME NEW k \in Sources, Press(k) PROVE NothingLeftBehind'
  BY <1>5, <1>7 DEF Press
<1>8. CASE StepHasFailed /\ UNCHANGED pending
  BY <1>8 DEF StepHasFailed
<1>9. CASE PathFails \/ RestartFails
  BY <1>1, <1>8, <1>9, FallbackLeaves DEF PathFails, RestartFails
<1>10. CASE TaskFails
  BY <1>8, <1>10, FailedTaskLeaves DEF TaskFails, RebuildRuns
<1>11. CASE TaskStarts
  BY <1>8, <1>11, RebuildStarts DEF MediaAreTaken
<1>12. ASSUME NEW rest \in SUBSET Sources, RestoreFrom(rest)
       PROVE  NothingLeftBehind'
  BY <1>1, <1>12, RestoreGoesOn DEF AllIsRestored, NextIsRestored
<1>13. CASE TaskAnswered \/ TaskPublished \/ TaskPaused
  <2>1. After(at[2]) \in SUBSET Sources /\ Sources \in SUBSET Sources
    BY DEF After, Sources
  <2> QED
    BY <1>1, <1>12, <1>13, <2>1 DEF TaskAnswered, TaskPublished, TaskPaused
<1> QED
  BY <1>1, <1>2, <1>3, <1>4, <1>6, <1>7, <1>9, <1>10, <1>11, <1>13
     DEF Next, PageStep, PressStep, RestartStep, TaskStep, DrainStep, vars, JoinFails, LeaveEnds,
         RoomClosed, DrainGivesUp, SocketUp, Capture, CaptureDenied, JoinedMuted, PublishFails,
         Leave, PressAnswered, PathWorks, RestartAnswered, DrainNotice, DrainAgain, Drop,
         Reconnect

(* Every step keeps producers and snapshot in agreement with the buttons.  *)
LEMMA ButtonsAgreeStep ==
  ASSUME LessonInv, [Next]_vars
  PROVE  ButtonsAgree'
<1> USE DEF LessonInv, TypeOK, ButtonsAgree, Says, client, hook, wire
<1>1. CASE UNCHANGED <<seen, producer, pending, enabled, page>>
  BY <1>1
<1>2. ASSUME page' = page \/ (page # "mute" /\ page' \in {"out", "token", "socket", "join", "done"}),
             producer' \in {producer, None}, pending' \in {pending, Nothing},
             seen'.blind = seen.blind, UNCHANGED enabled
      PROVE  ButtonsAgree'
  BY <1>2 DEF None, Sources
<1>3. CASE Join \/ TokenCame \/ SocketUp \/ CaptureDenied
  BY <1>2, <1>3 DEF Join, TokenCame, SocketUp, CaptureDenied
<1>20. CASE PublishFails
  <2>1. page' = "done" /\ UNCHANGED <<producer, pending, enabled>>
    BY <1>20 DEF PublishFails
  <2>2. CASE page = "mute"
    <3>1. seen.blind \subseteq seen'.blind
      BY <1>20 DEF PublishFails
    <3>2. enabled["microphone"] => "microphone" \in seen'.blind
      BY <1>20, <2>2 DEF PublishFails
    <3> QED
      BY <2>1, <2>2, <3>1, <3>2
  <2>3. CASE page # "mute"
    BY <1>2, <1>20, <2>1, <2>3 DEF PublishFails
  <2> QED
    BY <2>2, <2>3
<1>4. CASE Teardown /\ page' \in {page, "out"} /\ UNCHANGED <<seen, enabled>>
  BY <1>4 DEF Teardown, None
<1>5. CASE JoinAnswered
  <2>1. /\ seen'.blind = {k \in Sources : enabled[k] # ButtonsAtFirst[k]}
        /\ UNCHANGED <<producer, pending, enabled>>
    BY <1>5 DEF JoinAnswered
  <2>2. producer = None /\ pending = Nothing /\ page' = "capture"
    BY <1>5 DEF JoinAnswered, OutsideLesson, Attached, InLesson
  <2>3. \A k \in Sources \ seen'.blind : enabled'[k] = ButtonsAtFirst[k]
    BY <2>1
  <2>4. \A k \in Sources : producer'[k] = "none"
    BY <2>1, <2>2 DEF None
  <2> QED
    BY <2>1, <2>2, <2>3, <2>4
<1>6. CASE Capture
  BY <1>6 DEF Capture, PublishNext, Sources
<1>7. CASE PublishedMicrophone
  <2>1. /\ \/ page' = "mute" /\ producer' = [producer EXCEPT !["microphone"] = "paused"]
           \/ /\ page' \in {"camera", "done"} /\ ~StartMuted
              /\ producer' = [producer EXCEPT !["microphone"] = "live"]
        /\ seen'.blind = seen.blind
        /\ UNCHANGED <<pending, enabled>>
    BY <1>7 DEF PublishedMicrophone, Publishes, PublishNext
  <2>2. pending = Nothing /\ page = "microphone" /\ "microphone" \in Sources
    BY <1>7 DEF PublishedMicrophone, Served, JoinGoesOn, Sources
  <2>3. \A k \in Sources \ seen.blind : enabled[k] <=> ButtonsAtFirst[k]
    BY <2>2
  <2>4. ButtonsAtFirst["microphone"] = ~StartMuted /\ ButtonsAtFirst["camera"] = TRUE
    BY <2>2 DEF ButtonsAtFirst, Sources
  <2>5. \A k \in Sources \ seen'.blind :
          producer'[k] # "none" =>
            (producer'[k] = "paused" <=> ~(enabled'[k] /\ ~(page' = "mute" /\ k = "microphone")))
    BY <2>1, <2>2, <2>3, <2>4 DEF Sources
  <2> QED
    BY <2>1, <2>2, <2>3, <2>4, <2>5
<1>8. CASE JoinedMuted
  BY <1>8 DEF JoinedMuted, PublishNext, Served, JoinGoesOn, Sources, ButtonsAtFirst
<1>9. CASE PublishedCamera
  BY <1>9 DEF PublishedCamera, Publishes, Served, JoinGoesOn, Sources, ButtonsAtFirst
<1>10. ASSUME NEW k \in Sources, Press(k) PROVE ButtonsAgree'
  <2>1. /\ \A j \in Sources \ {k} : producer'[j] = producer[j]
        /\ seen.blind \subseteq seen'.blind /\ UNCHANGED <<pending, page>>
    BY <1>10 DEF Press
  <2>3. enabled' = [enabled EXCEPT ![k] = ~@] /\ enabled \in [Sources -> BOOLEAN]
    BY <1>10 DEF Press
  <2>4. \A j \in Sources \ {k} : enabled'[j] = enabled[j]
    BY <2>3
  <2>5. enabled'[k] = ~enabled[k]
    BY <2>3
  <2>2. k \notin seen'.blind =>
          /\ pending = Nothing /\ page = "done" /\ k \notin seen.blind
          /\ producer'[k] = IF enabled[k] THEN "paused" ELSE "live"
    BY <1>10 DEF Press
  <2>6. ASSUME NEW j \in Sources \ seen'.blind, j # k
        PROVE  /\ producer'[j] # "none" => (producer'[j] = "paused" <=> ~Says(j)')
               /\ pending' # Nothing /\ pending'[j] # "none" =>
                    (pending'[j] = "paused" <=> ~Says(j)')
               /\ page' \in {"capture", "microphone"} => enabled'[j] = ButtonsAtFirst[j]
               /\ page' \in {"mute", "camera"} /\ j = "camera" => enabled'[j]
    BY <2>1, <2>4, <2>6
  <2>7. ASSUME k \notin seen'.blind
        PROVE  /\ producer'[k] # "none" => (producer'[k] = "paused" <=> ~Says(k)')
               /\ pending' = Nothing
               /\ page' = "done"
    BY <2>1, <2>2, <2>5, <2>7 DEF Sources
  <2>8. ASSUME NEW j \in Sources \ seen'.blind
        PROVE  /\ producer'[j] # "none" => (producer'[j] = "paused" <=> ~Says(j)')
               /\ pending' # Nothing /\ pending'[j] # "none" =>
                    (pending'[j] = "paused" <=> ~Says(j)')
               /\ page' \in {"capture", "microphone"} => enabled'[j] = ButtonsAtFirst[j]
               /\ page' \in {"mute", "camera"} /\ j = "camera" => enabled'[j]
    <3>1. CASE j = k
      BY <2>7, <3>1
    <3>2. CASE j # k
      BY <2>6, <3>2
    <3> QED
      BY <3>1, <3>2
  <2>9. ButtonsAtFirst' = ButtonsAtFirst
    BY DEF ButtonsAtFirst
  <2> QED
    BY <2>8, <2>9
<1>11. CASE PressFails
  BY <1>11 DEF PressFails
<1>12. CASE StepHasFailed /\ UNCHANGED <<producer, pending, enabled, page>>
  BY <1>2, <1>12 DEF StepHasFailed
<1>13. CASE PathFails \/ RestartFails
  BY <1>1, <1>12, <1>13, FallbackLeaves DEF PathFails, RestartFails
<1>14. CASE TaskFails
  BY <1>12, <1>14, FailedTaskLeaves DEF TaskFails, RebuildRuns
<1>15. CASE TaskStarts
  <2>1. CASE MediaAreTaken
    <3>1. pending' = Snapshot /\ producer' = None /\ UNCHANGED <<seen, enabled, page>>
      BY <1>15, <2>1 DEF TaskStarts, MediaAreTaken
    <3>2. CASE pending = Nothing
      BY <3>1, <3>2 DEF Snapshot, Captured, None
    <3>3. CASE pending # Nothing
      BY <3>1, <3>3, <1>2 DEF Snapshot
    <3> QED
      BY <3>2, <3>3
  <2> QED
    BY <1>12, <1>15, <2>1, RebuildStarts DEF TaskStarts
<1>16. ASSUME NEW rest \in SUBSET Sources, RestoreFrom(rest), UNCHANGED <<enabled, page>>,
              \A k \in Sources \ seen.blind :
                producer'[k] # "none" => (producer'[k] = "paused" <=> ~Says(k))
       PROVE  ButtonsAgree'
  <2>1. seen'.blind = seen.blind /\ pending' \in {pending, Nothing}
    BY <1>16, RestoreGoesOn DEF AllIsRestored, NextIsRestored
  <2> QED
    BY <1>16, <2>1
<1>17. CASE TaskAnswered
  BY <1>16, <1>17 DEF TaskAnswered
<1>18. CASE TaskPublished
  <2> DEFINE k == at[2]
  <2>1. /\ k \in Sources /\ pending # Nothing /\ pending[k] # "none"
        /\ producer' = [producer EXCEPT ![k] = pending[k]] /\ UNCHANGED <<enabled, page>>
    BY <1>18 DEF TaskPublished, Publishes, Served, RebuildRuns
  <2>2. \A j \in Sources \ seen.blind :
          producer'[j] # "none" => (producer'[j] = "paused" <=> ~Says(j))
    BY <2>1
  <2>3. CASE UNCHANGED <<pending, seen>>
    BY <2>1, <2>2, <2>3
  <2>4. CASE RestoreFrom(After(k))
    BY <1>16, <2>1, <2>2, <2>4 DEF After, Sources
  <2> QED
    BY <1>18, <2>3, <2>4 DEF TaskPublished
<1>19. CASE TaskPaused
  BY <1>16, <1>19 DEF TaskPaused, After, Sources
<1> QED
  BY <1>1, <1>3, <1>4, <1>5, <1>6, <1>7, <1>8, <1>9, <1>10, <1>11, <1>13, <1>14, <1>15, <1>17,
     <1>18, <1>19, <1>20
     DEF Next, PageStep, PressStep, RestartStep, TaskStep, DrainStep, vars, JoinFails, LeaveEnds,
         RoomClosed, DrainGivesUp, Leave, PressAnswered, PathWorks, RestartAnswered,
         DrainNotice, DrainAgain, Drop, Reconnect

-----------------------------------------------------------------------------
(* The theorems *)

(* The first state satisfies the invariant.                                *)
LEMMA InitEstablishes == Init => LessonInv
<1> SUFFICES ASSUME Init PROVE LessonInv
  OBVIOUS
<1>1. TypeOK
  <2>1. ClientTypes
    <3>1. drain \in DrainType /\ failures \in 0..RecoverySteps
      BY DEF Init, DrainType, RecoverySteps, RejoinAttempts
    <3>2. work \in Seq(TaskType)
      BY DEF Init
    <3> QED
      BY <3>1, <3>2 DEF Init, ClientTypes
  <2>2. HookTypes
    BY LessonAssumption DEF Init, HookTypes, None, ButtonsAtFirst
  <2>3. WireTypes
    BY DEF Init, WireTypes, None, MediaType
  <2>4. Counted
    BY BoundsAreNat DEF Init, Counted
  <2>5. seen \in SeenType
    BY DEF Init, SeenType
  <2> QED
    BY <2>1, <2>2, <2>3, <2>4, <2>5, TypesByGroup
<1> QED
  BY <1>1 DEF Init, LessonInv, Attached, OutsideLesson, InLesson, RebuildRuns, JoinGoesOn,
              PublishedIsHeld, NothingLeftBehind, ButtonsAgree, None, Sources

(* Every step preserves it.                                                *)
LEMMA StepPreserves == LessonInv /\ [Next]_vars => LessonInv'
<1> SUFFICES ASSUME LessonInv, [Next]_vars PROVE LessonInv'
  OBVIOUS
<1>1. TypeOK'
  BY TypeStep DEF LessonInv
<1> QED
  BY <1>1, AttachedStep, OutsideLessonStep, RebuildRunsStep, JoinGoesOnStep,
     PublishedIsHeldStep, NothingLeftBehindStep, ButtonsAgreeStep DEF LessonInv

(* The inductive invariant holds in every reachable state, however often   *)
(* people join and leave, sockets break, paths fail and nodes drain.       *)
THEOREM LessonHolds == Spec => []LessonInv
BY InitEstablishes, StepPreserves, PTL DEF Spec

(* teardown leaves no published track running, also when it comes in the   *)
(* middle of a rebuild or after one that failed: a track that runs has a   *)
(* producer or a place in the snapshot, and a closed client has neither.   *)
THEOREM EndStopsTracks == Spec => []ClosedStopsTracks
<1>1. LessonInv => ClosedStopsTracks
  <2> SUFFICES ASSUME LessonInv, state = "closed", NEW k \in seen.published
               PROVE  track[k] # "live"
    BY DEF ClosedStopsTracks
  <2>1. k \in Sources /\ pending = Nothing /\ producer[k] = "none"
    BY DEF LessonInv, TypeOK, OutsideLesson, InLesson, Attached, None
  <2> QED
    BY <2>1 DEF LessonInv, PublishedIsHeld
<1> QED
  BY <1>1, LessonHolds, PTL

(* A client that is settled again, and has not given up, has a producer    *)
(* for everything it published, paused exactly when the button says off:   *)
(* the snapshot survives every failed attempt and agrees with the buttons. *)
THEOREM RebuildsGiveBack == Spec => []RebuildsRestore
<1>1. LessonInv => RebuildsRestore
  <2> SUFFICES ASSUME LessonInv, Settled, ~seen.gaveUp, NEW k \in seen.published
               PROVE  /\ producer[k] # "none"
                      /\ k \notin seen.blind => (producer[k] = "paused") = ~enabled[k]
    BY DEF RebuildsRestore
  <2>1. k \in Sources /\ pending = Nothing /\ InLesson
    BY DEF LessonInv, TypeOK, NothingLeftBehind, Settled, InLesson
  <2>2. producer[k] # "none"
    BY <2>1 DEF LessonInv, PublishedIsHeld
  <2>3. k \notin seen.blind => (producer[k] = "paused" <=> ~enabled[k])
    BY <2>1, <2>2 DEF LessonInv, ButtonsAgree, Says, Settled
  <2> QED
    BY <2>2, <2>3
<1> QED
  BY <1>1, LessonHolds, PTL
=============================================================================
