# A TLA+ model of the SFU classroom

The repository is a teaching platform: a Node.js server (`server/src`), a web
client and a mobile app. Its live lessons run on a cluster of SFU nodes
(mediasoup), coordinated through Redis. The lessons are where the server keeps
state that several processes and many `await`s share: who gets a seat and who
waits for one, on which node a room lives, which Room object carries it, who
presents, how a node is emptied before it stops, and how the lesson page keeps
its camera and microphone alive meanwhile. Three more parts have the same
character and are modelled from the browser to the database: the renewal of a
sign-in by several tabs, a conversation on several devices, and a person's files.

Paths below are relative to `server/src/` unless they start with `src/`.

## 1. Inventory

### The live classroom

| Component | State | Operations | Talks to |
|---|---|---|---|
| Seat reservation: `capacity/CapacityGuard.js`, `reserveSeat.lua` | one Redis hash per room: user -> expiry; the TTL of the key | `reserveSeat` (Lua script), `releaseSeat`; `heartbeatSeat`, `releaseRoom` and `admit` have no caller; `occupancy` only reads | called by `onJoin` and `teardown` on every node |
| Room lifecycle: `signaling/socketHandlers.js`, `classroom/RoomManager.js`, `Room.js`, `Peer.js`, `mediasoup/*` | the map `rooms`, each Room's peers and router, `socket.data.session`, a worker's routers | `onJoin`, `onLeave`, `disconnect`, `onHostAction` (remove), `createRoom`, `closeRoom`, `handleWorkerLoss` | seats, registry, recording, drain |
| Presenter lock: `classroom/ScreenShareManager.js` | per room: holder, producer id, time of acquisition | `acquire`, `attachProducer`, `release`, `revoke`, `releaseForPeer` | `onProduce`, `onCloseProducer`, moderation, teardown |
| Room registry: `classroom/RoomRegistry.js` | Redis: node key with TTL, node set, room -> node key | `heartbeat`, `markNodeDraining`, `listNodes`, `resolveNode`, `whereIs`, `releaseRoom` | `GET /rooms/:id/node`, `onJoin`, `closeRoom`, drain |
| SFU drain: `lifecycle/drainSfu.js` | state, deadlines, drain flag in Redis | `beginDrain`, `checkFlag`, `cancel`, the drain loop, lifecycle completion | registry, `RoomManager`, Auto Scaling |
| Graceful shutdown, readiness: `lifecycle/gracefulShutdown.js`, `readiness.js` | step list, budget | ordered steps, second signal | drain, HTTP server |
| Moderation and roles: `classroom/ModerationControls.js` | role per peer, waiting room | `promote`, `demote`, `transferHost`, `admit`, `deny`, `remove`, `mute`, `stopScreenShare` | Room, presenter lock |
| Breakouts, attendance: `classroom/BreakoutManager.js`, `AttendanceService.js`; hands, polls, reactions, chat, whiteboard: `classroom/interaction/*` | sub-rooms, intervals of presence, queues, votes | per feature | Room |
| Scheduled rooms: `rooms/ScheduledRooms.js`, `roomRules.js` | admissions, knocks, waiting list, held seats, end of lesson | `decide`, `knock`, `admit`, `joinWaitlist`, `leaveWaitlist`, `extend`, `end`, the enforcer (`promoteWaitlists`, `closeEndedRooms`) | the seat hash, `onJoin`, `closeRoom` |
| Lesson page: `src/packages/core-client/src/rtc/SfuClient.ts`, `state/useClassroom.ts`, `socket/socketClient.ts` | connection state, transports, producers, tracks, the snapshot of a rebuild, failure count, buttons | `join`, `leave`, publish, toggle, `fallbackRecover`, `recreateTransports`, `rejoinMedia`, `handleNodeDraining`, `teardown` | `onJoin`, `onTransportCreate`, `onProduce`, the drain notice |
| Recording, SFU health: `mediasoup/recording/*`, `mediasoup/health.js` | recording handles, crash counts | start, finalise, crash | `closeRoom`, drain |

### The rest of the server and the clients

| Component | State | Operations | Talks to |
|---|---|---|---|
| Sessions: `identity/SessionStore.js`, `AuthService.js`, `accountDeletion.js`; in the browser `CoreProvider.tsx`, `http/httpClient.ts` | session record and family in Redis, the users row, the refresh cookie, a Web Lock, the status of each tab | `rotate`, `revokeSession`, `revokeFamily`, `revokeAllForUser`, `refresh`, `logout`, `anonymise`; restoring, `refreshOnce`, `signOut` | each other, over HTTP |
| Messaging: `messaging/*`, `routes/messaging.routes.js`; in the browser `state/useChat.ts`, `httpClient.ts` | message rows, read markers, socket subscriptions; the bubbles of each screen | send, history, mark read, broadcast; the first page, retries, echoes | PostgreSQL, Socket.IO |
| Files: `files/FileService.js`, `FileStore.js`, `addMaterial` of `hub/HubExtras.js`; in the browser `src/apps/web/src/lib/files.js` | rows of `files` and `space_materials`, a raw and a delivery bucket | `createUpload`, `completeUpload`, `remove`, `open`, `markMissing`, `addMaterial` | PostgreSQL, S3, the virus scanner |

Media pipeline and storage quota, queues and jobs, billing, presence, courses and
assignments, hub/community, notifications; the web and mobile apps with an
offline outbox. `PROJECT.json` lists every one with its source files.

### What is hard

* **Handlers interleave at every `await`.** `onJoin` has several of them
  between its first check and the session it sets. A check made before one is
  stale after it.
* **Three keys for one person.** A seat belongs to a *user*, a peer and a session
  to a *socket*, a lock to a *peer*. A page reload makes two of one.
* **References outlive map entries.** Handlers hold a `Room` across awaits while
  the map is given another object for the same id.
* **Redis is asynchronous shared memory.** Only a Lua script and `SET NX` are
  atomic; everything else is read, then write.
* **Expiry is not death.** A node that misses its heartbeat is treated as gone.
* **Deadlines race people**, and a lifecycle hook races an operator's flag.
* **Decisions count what moves.** A place on the waiting list, a held seat and a
  taken seat are three keys, counted one after the other by enforcers and joins.
* **An answer can be lost after its effect.** A token is rotated, a message
  stored, a producer closed, and the client hears nothing.
* **One fact arrives three times.** A message is a bubble, an answer and an echo,
  in any order.
* **Two stores, no transaction.** A file is a row and an object; a call that breaks
  off between them leaves one without the other, and no job looks for that.
* **Recovery recovers from itself.** A rebuild may fail halfway, be asked for twice,
  meet a press of a button, or run on a socket the server no longer knows.

The `hazards` list of `PROJECT.json` puts each of these at its line, with the
properties that look at it.

### What makes the components correct

* Seats: the learners' limit holds under any interleaving of scripts; a live
  seat is taken from nobody.
* Lifecycle: the map never hands out a closed room; a session, its room's peer
  list, and the joins in flight agree; nobody is left behind in a room; empty rooms
  get closed; a room has one router.
* Presenter lock: one share at a time; a lock never outlives its holder.
* Registry: everyone in a room is on one node, and a room whose node is gone can
  be opened again.
* Drain: it ends; whoever is cut off was told; a drain the Auto Scaling group
  waits for is not cancelled.
* Scheduled rooms: whom the lobby lets in gets a seat; a free seat does not stay free
  in front of somebody who waits.
* Sessions: renewals alone sign nobody out; a deleted account keeps no session; a
  page that restores its session settles.
* Messaging: one bubble per message; "sent" is true; what was written stays.
* Lesson page: a rebuild gives back what it took, in the state the buttons show;
  what was published is stopped at the end; recovery ends.
* Files: what the library lists can be opened; a refused or deleted file leaves no
  bytes; the last copy of a wanted upload is never dropped; the quota holds.

## 2. Modules

A component has its specification, an `MC` module with the sets TLC needs, and a
`Proofs` module; `ClusterProofs` holds those of the three small components that live
in Redis and around it, SeatReservation, RoomRegistry and SfuDrain, whose names
therefore carry a prefix where they would meet (`SeatSpec`, `DrainSpec`). An action is the code between two awaits; the `map` of
`PROJECT.json` gives the lines of every definition.

### SeatReservation

`expiry` is the hash (its domain the holders, its values the fields),
`keyExpiry` the TTL of the key, `clock` the time. `reserveSeat` reads `Date.now()`
*before* the script is sent, so a call is put in flight with its own `now` and
the script runs later, in any order (`RunScript`). The script is one action:
prune (`Live`), refresh or count (`Granted`), write, `PEXPIRE` (`HashAfter`).
`releaseSeat` is a delayed or lost `HDEL`. When Redis fails, the guard admits
without a seat (`FailOpen`).

### RoomLifecycle

One room id on one node. Room objects are numbered in the order their router
exists; `current` is the map's entry. `join[s]`, `leave[s]` and `closing[c]` say
at which await each `onJoin`, `teardown` and `closeRoom` stands and which Room it
holds. The path of a join:

    JoinStart -> JoinWhereIs -> JoinSeated -> [RouterMade -> RoomMade] -> AddPeer
      -> JoinDone, or JoinUndo -> JoinReleased -> [closeRoom] -> JoinUndone

`Disconnect`, `Leave`, `Kick`, `EndRoom` (the schedule's enforcer), `WorkerDied`
and `SeatExpires` may come between any two. A second `onJoin` of a socket with a
session is refused, and with `rejoin` it rebuilds the media of the peer in place
(`socketHandlers.js:304-314`). Neither touches the map, the peers or the sessions, so
this module leaves them out; the rebuild is `MediaLost` in PresenterLock and the
subject of LessonMedia. `overtaken` remembers the sockets whose disconnect came while
their `onJoin` ran: `teardown` finds no session then, and the session that `onJoin`
sets afterwards belongs to nobody (`RoomGhostPeer.cfg`).

### PresenterLock

The lock (`holder`, `attached`, `expired`) and the two producers it governs
(`open["screen"]`, `open["screenAudio"]`) of the peers of one room. `Produce` is
`onProduce` up to `transport.produce`, `Produced` the rest; the lock may age,
change hands or be revoked in between. Clients ask as they like:
`startScreenShare` looks at `producers.screen` once
(`src/packages/core-client/src/rtc/SfuClient.ts:555`) and sets it only after the
produce is acknowledged (`:590`), so a second request may come while the server's
share is open, and it makes a confirmed lock a pending one. `loose` remembers under
whose share the lock was let go that way, or by a moderator whose session still
refers to a closed Room. `cohosts` changes by `Promote` and `Demote`, also while
its peer shares or asks.

### RoomRegistry

One room id in a cluster. `room` is the assignment key, `info[n]` a node's key,
`pool` the set of node ids. `call[c]` walks through `resolveNode`
one Redis command at a time (`GetRoom`, `CheckNode`, `DelRoom`, `ListIds`,
`ListInfos`, `SetNX`, `GetWinner`, `CheckWinner`), then `Join` or `SentBack` on
the node found, with the node's own checks (draining, `whereIs`). `Leave` and
`ReleaseRoom` are the two ends of `closeRoom`, `Tidy` the unawaited `SREM` of
`listNodes`. A node may drain, expire while it serves, or die; which ones may is
a constant, so that a run can ask for each fault separately. `astray` remembers the
nodes whose people lost the key to a `DEL`, or came in on an old answer while there
was no key.

`RoomPlacement` is what this amounts to: a node is chosen once, and people enter
and leave there. `RoomRegistry` instantiates it (`Placement == INSTANCE RoomPlacement
WITH ...`): `room` is the assignment key and `here[n]` who is in the room on node n.
`PlacedOnce` says that every behaviour of the registry is one of it.

### SfuDrain

The controller of one node. Time has three phases (before the move notice is
due, before the deadline, after it): the loop compares `now` with these two
instants and nothing else. `at` is where `run` stands; `poll` is the answer
of an outstanding `GET` of the flag. People and rooms come and go by themselves,
including a `createRoom` that is past its drain check.

### WaitingList

One scheduled room that is running. `queue`, `hold`, `joined`, `listed` and `lock`
are the Redis keys of `ScheduledRooms.js`, `seats` is the seat hash; `at[u]` is the
call a person's browser has under way, `sweep[e]` where an enforcer's
`promoteWaitlists` stands. The sweep is one Redis command per action
(`CountWaiting`, `DropRoom`, `MeasureRoom`, `RangeQueue`, `HoldSeat`, `Unqueue`),
and so is a person's way in: the decision (`Decide`), its clean-up, the seat script
that decides for good. A hold lapses by itself and is tidied later by an `HDEL`
nobody waits for. `crossed` remembers that somebody came in past the count
(`Crosses`): an exempt person into a full room, or a learner whom a decision let in
while another was on the way uncounted or while a sweep handed out what it had counted.

### SessionRenewal

One sign-in of one browser. `stored` and `family` are the records in Redis,
`cookie` the refresh cookie, `status[t]` what a tab shows, `call[r]` a renewal: its
end in the browser, and how far the server is (`ReadSession`, `Rotate`,
`ReadFamily`, `EndSession`, `FindUser`: one await each). Two kinds of renewal exist, as in
the code: restoring a page and refreshing after a 401; both take the Web Lock
where there is one. Signing out and deleting the account run between these steps,
and `faults` counts requests that fail, answers that are lost, CSRF tokens that go
stale, and pages that are loaded again or come back online (`Online`).

A refresh token is only compared with the one in the record, and one that was replaced
never comes back, so it is `Current` or `Old` (`Aged`) and nothing bounds the
number of rotations. A renewal whose tab has a stale CSRF token is answered
`forbidden` before the server looks at anything: a page that restores its session
drops the token and tries once more (`TriesAgain`, `retried`), while `refresh()` after
a 401 returns `null`, and `httpClient` takes that for the end of the session
(`Settle`). `refused` remembers that.

### ChatThread

One conversation on several devices. `view[d]` is what `useChat` holds: bubbles in
their order, each sending, sent or failed. `wire` holds attempts of a POST, `fanout`
sends that are stored but not broadcast yet, `feed[d]` the echoes on a socket,
`page[d]` the first page's request. `httpClient` repeats an attempt that timed out,
although the server may have stored it (`TryAgain`, `Inserted`); a person may retry
a failed bubble.

### LessonMedia

One lesson page against the node it is on. `state`, `pending`, `failures`, `work`
(the chain of `runRecovery`), `fallback` and `drain` are SfuClient's own; `page` is
where the `join` of `useClassroom` stands; `enabled` what the buttons say; `producer`
and `srv` are the two ends of each producer, `link` and `session` the socket and
what the server knows of it. `lost` names the requests whose answer can no longer
come: they fail by themselves, while a refusal or a timeout on a working socket is
counted by `MaxRefusals`. Closing the transports rejects a produce and a `restartIce`;
a pause or a resume is a plain request of the socket and goes on. `restartIce` without a transport fails before it asks
anybody (`Restarted`). `policy` is the host's "learners join muted", which comes with
the room's state (`useClassroom.ts:114-119`): the join pauses the microphone for it
(`:204`) although the button started on (`:88`), and turns the button off only when the
pause was answered. The path of a rebuild:

    TaskStarts -> TaskAnswered -> [TaskPublished -> [TaskPaused]] per source -> TaskEnds

`fallbackRecover` and `handleNodeDraining` both put rebuilds on the chain and both
decide what follows a failed one (`FallbackFrom`, `DrainAgain`, `DrainGivesUp`).

### FileLibrary

The files of one person: `row` and `material` in PostgreSQL, `raw` and `delivery` in
the storage, and how far the calls for each file are: `upload` (browser and server
together), `removal`, `opening`, `adding`. The path of an upload:

    Choose -> CountUsage -> Reserve -> Put -> Complete -> Check -> Copy -> Drop -> Mark
                                                          \-> RejectRow -> RejectObject

`UploadFails` and `RemovalFails` break a call off at any await and leave both stores
as they are. The bytes are `good` or `bad` (incomplete, another format, or flagged):
`Check` is `head`, `readStart` and `scan` in one: the page writes the object once and
before it asks for the check. That is a promise of the page only. The signed URL stays
valid for 900 s (`files/FileStore.js:32`), so the storage would take another `PUT`
between the scan and the copy; the model assumes a page that does not send one.

## 3. Runs

### Passing

| Run | Checks | Shows |
|---|---|---|
| `seats` | `SeatInv`, `LearnersWithinCapacity`, `SeatsExpireInTime`, `OnlyReleaseFreesLiveSeat` | late, reordered and lost calls never exceed the limit and never take a live seat |
| `room` | `IInv`, `MapHoldsOpenRoom`, `SessionIsInItsRoom`, `NobodyIsStranded`, `EmptyRoomIsClosed` | two people, one worker that may die, every await: map, peers, sessions and joins agree, and only a disconnect during `onJoin` leaves somebody behind; under fairness an empty room is closed or used again |
| `presenter` | `IInv`, `OneHeldShare`, `HolderHasSession` | a host and two co-hosts who may be demoted and promoted, any requests in any order: a second share appears only beside one whose own lock was let go, and no lock outlives its holder's session |
| `registry` | `OneNode`, `PlacedOnce` | first joins at once, `?avoid=`, full and draining nodes: one node; every step is one of `RoomPlacement` or leaves it alone |
| `registry_failover` | `OneKeyedNode`, `DeadNodeIsForgotten` | a node that dies or is silent, rooms that close, `?avoid=`: people are on two nodes only where a `DEL` took the key from them or somebody came in without one, and one resolve frees the room |
| `drain` | `ForcedWereTold`, `LifecycleIsFinal`, `DrainSettles` | flag, hook, timeouts and people in every order; under fairness every drain ends |
| `waitlist` | `IInv`, `LetInGetIn`, `FreeSeatIsOffered` | two learners and a host for one seat, an enforcer between all their steps: the seat script refuses whom the lobby let in only after somebody came in past the count, and no listed learner waits for ever in front of a free seat |
| `sessions` | `IInv`, `NotSignedOutByItself`, `DeletedHasNoSession`, `RestoringSettles` | two tabs, two renewals, a fault (a failure, a lost answer, a stale CSRF token, a reload), sign-out and deletion at any await |
| `chat` | `IInv`, `OneBubblePerMessage`, `SentIsStored`, `WrittenStays` | two devices that each write a message, timeouts, repeated attempts, late pages and echoes, a socket that breaks |
| `chat_settles` | `SendingSettles`, `EchoIsShown` | three attempts and two faults under fairness: no bubble is sending for ever, a subscribed screen shows what is broadcast |
| `files` | `LibraryInv`, `LastCopyIsKept`, `BucketsMatchRows`, `OverrunIsBounded` | three files, two started at once, one call that breaks off anywhere: listed files open, nothing wanted is lost, the quota is overrun by one at most |
| `lesson` | `LessonInv`, `ClosedStopsTracks`, `RebuildsRestore`, `RecoveryEnds` | joining, muted by the room or not, publishing, pressing, leaving, with one fault of each kind at any point |

`IInv` (`SeatInv`, `LibraryInv`, `LessonInv`) is the inductive invariant the module's
proofs use; the type invariant is its first conjunct. RoomRegistry and SfuDrain
have theirs proved and need no run for it.

### Counterexamples: where the code does not do what it says

These configurations are kept beside the runs and are not among them; each
property states what a comment or a text of the code says, and
`tlc -config <cfg> <module>` prints the behaviour that violates it. TLC stops at
the first violated property: where a configuration names several, leave the one in
that is asked for.

| Configuration, module, property | The code says | What happens |
|---|---|---|
| `RoomTwoRouters.cfg`, `MCRoomLifecycle`, `PeersShareOneRouter` | "A room lives on exactly one node, because its peers share one router." (`socketHandlers.js:323`) | Two first joins find no room; both create one across the awaits of `createRoom`. The people in them have two routers and cannot see each other. |
| `RoomPromises.cfg`, `MCRoomLifecycle`, `OnlyEmptyRoomIsClosed` | an undone join removes the room "when it was the only one" (`socketHandlers.js:390`) | Someone joins while the last leaver's `closeRoom` awaits the recording (`RoomManager.js:85`), and is closed with it. |
| `RoomGhostPeer.cfg`, `MCRoomLifecycle`, `PeersAreConnected` | `peerCount` counts "people connected to this node" (`RoomManager.js:120`) | A socket drops during `onJoin`; `teardown` finds no session yet, and the peer, its seat and its room stay for ever. |
| `RoomPromises.cfg`, `MCRoomLifecycle`, `SeatedWhileInRoom` | `heartbeatSeat` is "called on the socket heartbeat" (`CapacityGuard.js:113`) | It has no caller: a seat lapses two minutes into the lesson. A reload's old socket also releases the seat of the new one. |
| `RoomPromises.cfg`, `MCRoomLifecycle`, `NoNewRoomWhileDraining` | "no code path can skip" the drain check (`RoomManager.js:35`) | A room opens on a node that began draining during `createRoom`. |
| `PresenterTwoShares.cfg`, `MCPresenterLock`, `OneShare` | "One person shares at a time, by default" (`ScreenShareManager.js:5`) | The holder's second request makes the lock pending; it goes stale and a second person shares too. |
| `PresenterLateAudio.cfg`, `MCPresenterLock`, `AudioGoesWithShare` | "stopping one stops both" (`Peer.js:111`) | Screen audio produced across a stop plays on alone. |
| `RegistryTurnedAway.cfg`, `MCRoomRegistry`, `ConnectsElsewhere` | a refused client "re-resolves ... and connects elsewhere" (`socketHandlers.js:316`) | A room assigned to a node that drains before the first join: every retry is sent to it and refused. |
| `RegistryNodeSilent.cfg`, `MCRoomRegistry`, `OneNode` | "exactly one SFU node for its whole life" (`RoomRegistry.js:8`) | A silent node that still serves loses its room to another. |
| `RegistryLateRelease.cfg`, `MCRoomRegistry`, `OneNode` | the same | The `DEL` of `closeRoom` comes after somebody reopened the room. |
| `WaitingForgotten.cfg`, `MCWaitingList`, `WaitingIsOffered` | the enforcer "hands freed seats to the waiting list" (`rooms/ScheduledRooms.js:13`), and "you are told at once" (`RoomLobbyPage.jsx:376`) | Somebody joins the list between the `ZCARD` that found it empty and the `SREM` that takes the room off the enforcers' list. |
| `WaitingHoldTaken.cfg`, `MCWaitingList`, `HeldSeatIsKept` | "It is held for you for 2 minutes." (`rooms/ScheduledRooms.js:858`) | The seat script knows nothing of holds: whoever was let in before the seat was held takes it, and the holder is refused. |
| `SessionPromises.cfg`, `MCSessionRenewal`, `SignedOutHasNoSession` | signing out "has to take effect *now*" (`identity/SessionStore.js:5`) | A renewal that has read the record writes it again after the sign-out deleted it. |
| `SessionPromises.cfg`, `MCSessionRenewal`, `SignedOutTabStaysOut` | a logout "still has to clear the client" (`CoreProvider.tsx:552`) | A renewal under way in the tab signs it in again when it is answered. |
| `SessionPromises.cfg`, `MCSessionRenewal`, `LostAnswerIsHarmless` | "No answer from the server: keep the session" (`CoreProvider.tsx:266`) | The token was rotated and the answer lost; the next renewal presents the old one, which looks like theft, and the family is revoked. |
| `ChatWordsLost.cfg`, `MCChatThread`, `NobodyLosesWhatTheyWrote` | the bubble "stays, marked, so nobody loses what they wrote" (`useChat.ts:325`) | The first page arrives after the bubble and replaces it; the send fails and finds no bubble to mark. |
| `ChatSentFails.cfg`, `MCChatThread`, `SentStaysSent` | "sent: the server has it" (`useChat.ts:18`) | The echo confirms the bubble, then the call that timed out marks it failed. |
| `ChatReadUnseen.cfg`, `MCChatThread`, `ReadWasOnScreen` | "Read up to a message" (`messaging.routes.js:384`) | The marker is the server's clock; a message stored meanwhile counts as read before it is shown. |
| `SessionPromises.cfg`, `MCSessionRenewal`, `StaleTokenIsTriedAgain` | "A 403 on the refresh route is almost always a stale CSRF token ...: fetch a fresh one and try once more." (`restorePolicy.ts:13`) | Only a page that restores its session does. In a tab that is signed in, `refresh()` returns `null` (`CoreProvider.tsx:263-268`), which `httpClient.ts:461-464` takes for the end of the session: the tab is signed out by a cookie that lives a day. |
| `LessonPromises.cfg`, `MCLessonMedia`, `MutedIsSilent` | the microphone's button pauses its producer, which is kept alive (`SfuClient.ts:506`) | Without a producer the call returns without a word (`:520`): a button pressed before its source is published, or during a rebuild, says off while the microphone is heard. |
| `LessonPromises.cfg`, `MCLessonMedia`, `PutBackIsTrue` | after a failed toggle "put the button back where it was" (`useClassroom.ts:256`) | The producer was paused before the request (`SfuClient.ts:522-525`) and stays paused when it fails: the button says on, and nobody sees the camera. |
| `LessonPromises.cfg`, `MCLessonMedia`, `NothingLitAfterwards` | "A camera light still on after navigating away is the classic symptom" (`src/apps/web/src/lib/useSfuClient.js:68`) | Leaving during the permission prompt, or before the camera is published: the track belongs to nobody and is never stopped. |
| `LessonPromises.cfg`, `MCLessonMedia`, `LessonStillWorks` | "the signalling socket stays up, so chat, hand raise and the peer list keep working without media" (`SfuClient.ts:860`) | After a reconnect the socket is up and the server has no session for it; nobody joins again. |
| `LessonReconnects.cfg`, `MCLessonMedia`, `ReconnectingEnds` | the page says "moving this session to another server" while the state is reconnecting (`ClassroomPage.jsx:205`) | A rebuild's transport connects, which resets the failure count; its restore fails, the fallback restarts ICE and returns. The state stays reconnecting for ever, camera and microphone stay unpublished, and a later failure of the path is ignored. |
| `FilePromises.cfg`, `MCFileLibrary`, `QuotaIsKept` | "Limits: ... FILES_QUOTA_MB (default 2048) per person" (`files/FileService.js:18`) | Two files dropped together are both counted before either row is there. A reservation a day old stops counting and may still be completed. |
| `FilePromises.cfg`, `MCFileLibrary`, `DeletedIsNoMaterial` | "Deleting a file also removes it from every space it was a material in." (`files/FileService.js:230`) | `addMaterial` has looked, the file is deleted, then the `INSERT`: the material stays, and is shown as unavailable. |
| `FilePromises.cfg`, `MCFileLibrary`, `NothingElseIsKept` | "Anything else is deleted and the reason is told" (`files/FileService.js:11`) | The call breaks off after the copy: the row stays pending, the object stays in the delivery bucket, where nothing ages out. |

`watch()` of `drainSfu.js`, which polls, belongs to a controller that the header
of the file says `sfu.js` installs with `installSfuDrain`; in the repository only
`beginDrain` has a caller today. What is said of the flag is about the controller
as documented.

### Bounds, and why they are enough

* `seats`: a host and three learners, limits 1 and 2, two calls in flight, TTL one
  tick, four ticks. The key lives three TTLs, so seats and key both expire, and a
  script can be a whole TTL late.
* `room`: two sockets, two joins, one worker (573,020 states). Every hazard of the
  list needs two actors and two Room objects; more joins and sockets are covered by
  the proofs. One join and one teardown per socket are in progress at a time.
* `presenter`: a host and two symmetric co-hosts, who may be demoted to learners
  (2,647,326 states). Two who share, and a third who interferes, are the case of
  `OneHeldShare`. One `produce` per source is in flight per peer.
* `registry`: two callers, two nodes: enough for a winner, a loser and an
  alternative. Callers are symmetric; `MCAvoids` names a node, so nodes are not.
  `registry_failover` has the same callers, who may avoid a node too, and one node
  that fails; a room that closes and opens again makes the late `DEL`.
* `drain`: up to two people, three completion attempts as in the code. One `GET`
  of the flag is outstanding at a time.
* `waitlist`: one seat, two learners who want it, a host no limit applies to, one
  enforcer (723,646 states). One seat is where a hold and a join collide; two
  enforcers run one after the other as long as the lock outlasts a sweep
  (`SlowSweeps = FALSE`); overlapping sweeps and any number of enforcers, seats and
  people are in the proof of `LetInIsSeated`.
* `sessions`: two tabs with a renewal each, one fault (432,672 states). A third
  renewal could only wait for the lock. A page whose request is refused twice needs
  two faults: that case is in the proof only. The repetitions `httpClient` makes
  inside one request are seen as a renewal that gives up and another one.
* `chat`: a message by each of two devices, two attempts each, one fault, one broken
  socket (3,913,795 states); `chat_settles` trades the second message for a third
  attempt and a second fault.
* `lesson`: one join, and one of each: a lost socket, a failed path, a refused
  request, a drain notice, a press (1,629,872 states). A dead socket makes every
  further request fail without using up a bound, so the three steps of the fallback
  and the three attempts of the drain are all taken. `StartMuted` is `FALSE`: the
  join mutes where the room's policy says so, which is the same path with a button
  that starts on. The theorems hold for both, and for any number of joins.
* `files`: three files, two at once, a quota of one, one fault (1,785,619 states up to
  symmetry). Two that count at once and a third that must find the quota full are the
  case of `OverrunIsBounded`; all files have one size. `AtOnce` bounds the model:
  nothing in the code limits how many uploads one person starts. `FileDrop` takes 20
  files per drop, and drops and tabs add up.

`CHECK_DEADLOCK FALSE` is set where the model may stop because a bound is used up
or everybody has left.

### Fairness

* `RoomLifecycle!Fairness`: awaits of a join, a teardown and `closeRoom` settle
  (Redis and mediasoup calls have timeouts and both outcomes are modelled), and
  `onHostAction` disconnects the socket it found, in the same handler. Joining,
  leaving, dying and expiring are not fair.
* `RoomRegistry!Fairness`: a `resolveNode` call in progress goes on.
  `RetryingSpec` adds that a refused client asks again, as the SFU client does;
  it makes the counterexample of `RegistryTurnedAway.cfg` stronger, since retrying
  does not help.
* `SfuDrain!Fairness`: `run` goes on, the clock advances, the poller polls,
  and Redis does not fail every poll (strong fairness of `ApplyFlag`).
* `WaitingList!Fairness`: handlers go on, some enforcer's interval ticks, the lock
  (a `PX`) and holds expire. Nobody has to come for a held seat.
* `SessionRenewal!Fairness`: the server answers or the attempt times out, the timer
  of a restoring tab fires; strong fairness of `PostAlone`, because the Web Lock is
  granted in the order of asking.
* `ChatThread!Fairness`: requests that are carried are served, answers, pages and echoes
  arrive. Nobody has to write or to retry.
* `LessonMedia!Fairness`: a request is answered, refused, or times out after
  `ackTimeoutMs`, and timers fire. A permission prompt, a path, a socket and people
  owe nothing. `RecoveryEnds` holds for finitely many faults: with a fault in every
  rebuild there is another after it.

### Assumptions of the abstraction

* In RoomLifecycle Redis answers; failures are in SeatReservation and
  RoomRegistry. The six-hour TTL of a room assignment is not modelled.
* A peer that a moderator removed opens no transports before its disconnect.
* `import()` of a module already loaded is not a point where others run
  (`handleWorkerLoss`).
* `markNodeDraining`'s `GET` and `SET` are one step; heartbeats to the Auto
  Scaling group have no effect.
* Rooms opened by `onJoin` have no waiting room and no lock: nothing on that path
  sets either.
* In WaitingList doors, approval and the end of the room are left out: they refuse
  people before anything modelled happens. The batch of reads of a decision
  (`Promise.all`) is one step. `HLEN` counts the moderators' seats too, as in the
  code, although the limit is for learners.
* In SessionRenewal there is one sign-in, and the button that gives up restoring
  (`signInInstead`) is not pressed.
* In ChatThread the first page holds every message there is, and two `PUT`s of the
  read marker by one device count as one. A socket that breaks misses what is broadcast
  meanwhile: the resume that `src/packages/core-client/src/socket/socketClient.ts:17-20`
  and `messaging/chatGateway.js:21-23` speak of has no caller in `useChat`, so
  `EchoIsShown` is about screens that stay subscribed.
* In LessonMedia a request, the server's work and the answer are one step, the send and
  the receive transport are one, one toggle and one drain notice are under way at
  a time, and the end of `leave` is one step with `teardown`. Somebody tries again
  only after the old lesson's recovery is over; in the code the pause of a drain (at
  most nine seconds) may run into the new lesson and rebuild its media once more. A host's
  `mute` and `stopVideo`, which act on the server's producer without the page, are left out.

* In FileLibrary a page asks for each step of an upload once (`uploadFile` does not
  retry), only files that a list has shown are deleted, and the virus scan is on. A
  deletion that is asked for twice does the same twice, and counts as one.

## 4. Proofs

TLC checks the instances above; TLAPS proves these for every value of the
constants. `Spec => []P` needs an invariant that a step preserves by itself, and
in each module the property alone is not one.

* **Seats, in ClusterProofs** (`CapacityHolds`, `SeatsExpire`, `LiveSeatsAreKept`).
  A script counts with the `now` it was given, so the invariant adds that no call
  comes from the future (`CallsFromThePast`), and that the key outlives each of
  its seats (`KeyOutlivesSeats`): without it, the key's expiry could drop a live
  seat. The count uses the library's theorems on cardinality.
* **RoomLifecycleProofs** (`MapStaysOpen`, `SessionsAreInTheirRooms`,
  `NobodyLeftBehind`). A Room enters the map long after it was made, so the
  invariant says that a Room in the making is open, empty and known to one join
  only (`NewRoomIsPrivate`, `RoomsExist`), that a join waiting for its transports
  is among the peers of the Room it holds (`OpeningIsInItsRoom`), and that a
  joining socket has no session (`JoiningHasNoSession`). For `NobodyIsStranded` every
  peer has a session or an `onJoin` that will set one (`PeersBelong`), and a socket
  that is gone has neither unless it went during an `onJoin` (`GoneWereJoining`).
* **PresenterLockProofs** (`LockHasALiveHolder`, `OnePresenter`). A share whose lock was
  not let go is the attached lock's (`ShareHoldsLock`): then two of them would be two
  holders. It holds for any clients; that the exception is needed is what
  `PresenterTwoShares.cfg` shows.
* **Registry, in ClusterProofs** (`RoomLivesOnOneNode`, `CallersAreSentTogether`,
  `ApartOnlyAstray`, `RegistryPlacesTheRoomOnce`). What each call has read agrees with
  the key (`CallsAgree`) and people are only where the key points
  (`LivesWhereAssigned`). The first two assume that no node fails and the room does not
  close: `RegistryNodeSilent.cfg` and `RegistryLateRelease.cfg` show that both are
  needed. The third assumes nothing: a node with people in the room has the key, or
  went astray (`KeyedInv`), through deaths, silences, late `DEL`s and answers of any
  age. The last is the refinement: under the assumptions of the first two, every step of
  the registry is a step of `RoomPlacement` or leaves its variables alone, because only
  the first `SET NX` changes the key and everybody who joins compares it with their own
  node.
* **Drain, in ClusterProofs** (`ForcedDrainsWarn`, `LifecycleDrainsAreFinal`). The loop
  sends the notice before it looks at the deadline; a cancellation in progress is
  only that of a drain without a hook (`CancelIsAllowed`).
* **WaitingListProofs** (`LetInIsSeated`). The seat script refuses for lack of a seat
  only after somebody came in past the count. The invariant counts promises: the seats
  taken and held, the people on their way in, and what the sweep under way has still to
  hand out are together no more than there are (`PromisesFit`), and one sweep at a time
  hands out seats. Each action moves one person from one kind of promise to another,
  or drops one; lemmas on cardinality (`FewerPromises`, `FitAlone`) say what that does
  to the sum. Sweeps that overlap are among the ways to come in past the count.
* **SessionRenewalProofs** (`RenewalsNeverSignOut`, `DeletionEndsSessions`). While nobody
  ends the session, no answer is lost and the CSRF check refuses no `refresh()` and no
  page a second time, the server works for the holder of the Web Lock only
  (`OneRenewal`), and the cookie is the record's token or that renewal brings it
  (`CookieIsCurrent`), so `rotate` never sees an old token. The three exceptions
  are needed: `LostAnswerIsHarmless` and `StaleTokenIsTriedAgain` are counterexamples.
  A session record that a renewal writes after the deletion of the account has that
  renewal behind it, which finds the account not active and ends the session
  (`RecordIsDoomed`).
* **ChatThreadProofs** (`ChatShowsOnce`, `ChatSentIsStored`, `ChatWrittenStays`). Answers, pages and echoes come from rows (`TakenFromRows`), a
  message is nowhere before it is written (`WrittenFirst`), and what is written
  before the first page has settled is known to be early (`EarlyIsKnown`): only
  such a bubble can be replaced by the page.

* **FileLibraryProofs** (`QuotaOverrunIsBounded`, `QuietBucketsMatch`,
  `LastCopyStays`). The invariant says what the row and the two buckets hold at each
  await of an upload (`UploadIsKnown`) and of a deletion (`RemovalIsKnown`): a copy is
  made only of checked bytes, and the raw object is dropped only when the delivery
  object is there. `NothingLeftLying` ties what a file without a call leaves behind to
  `faults`. For the quota, the uploads between their count and their `INSERT` are
  counted with the files themselves: a new one passes the check with fewer than
  `Quota` files stored, and at most `AtOnce` can have started (`StartingIsBounded`).
  Each step adds one file to one set or moves it to another, and lemmas on
  cardinality say what that does to the sum.
* **LessonMediaProofs** (`EndStopsTracks`, `RebuildsGiveBack`). A published track is in
  the hands of a producer, or of the snapshot while there is one
  (`PublishedIsHeld`); that is what lets `closeMedia` stop it, and what a rebuild can
  give back. It survives a rebuild only because of where the rebuild stands: whoever
  is about to publish or to pause has transports, the source is in the snapshot, and the
  sources before it in the order have their producers (`RebuildRuns`). The join is the other
  half: between its own awaits it can meet the start of a rebuild, after which its
  request is `lost` (`JoinGoesOn`). `ButtonsAgree` carries the state of each
  button over, and a snapshot that outlives its rebuild means that the page is still
  reconnecting, or that the client has given up (`NothingLeftBehind`). `EndStopsTracks`
  and `RebuildsGiveBack` follow from the invariant in every state, so they hold in the
  middle of a rebuild and after failed ones. The lemmas with which a failed request
  ends (`FallbackFrom`, `TaskEnds`) are shared by all the actions that may fail.

The inductive invariants are theorems as well: `SeatInvariant`, `DrainInvHolds`,
`WaitingInvariant`, `RenewalInvariant`, `ChatInvariant`, `LibraryHolds`, `LessonHolds`,
`SharesHoldTheLock` of PresenterLock and `InvariantHolds` of RoomLifecycle, for every
value of the constants; `RegistryInvHolds` while no node fails and the room stays open.

One proof found a fault of the model: `LessonInv` was not preserved by the step after a
failed rebuild, because the model let `restartIce` succeed without a transport, while the
code throws. The model was corrected (`Restarted`); every property still holds.

Assumptions on constants are the named `ASSUME`s of the modules: sets are finite,
bounds are naturals, `UserOf` is a function. `LessonAssumption` adds that the value
`Nothing`, which stands for `null`, is not one of the snapshots.

Only model-checked: the liveness properties (`EmptyRoomIsClosed`,
`DeadNodeIsForgotten`, `DrainSettles`, `FreeSeatIsOffered`, `RestoringSettles`,
`SendingSettles`, `EchoIsShown`, `RecoveryEnds`), which rest on fairness, outside
what this prover does; and, of course, the counterexamples. Every safety property of a
run is proved.

## 5. Not modelled, and the plan

In this order:

1. `GracefulShutdown` composed with `SfuDrain`: steps under a budget, a second
   signal, readiness.
2. `Classroom`: RoomLifecycle and RoomRegistry together, as a refinement of an
   abstract "one room, one node, one router", under the assumptions the
   counterexamples of the two modules show to be needed; LessonMedia against it,
   with the host's `mute` and `stopVideo`.
3. The rest of the scheduled rooms (doors, knocking, approval, extending), the job
   lock of `jobs/_runJob.js`, presence.

Looked at and left out, because the code as it stands does not run:

* Roles and locks of `ModerationControls.js`: `transferHost`, `setLocked`,
  `setWaitingRoom` and `setLearnersMayShare` have no caller. The others are reached
  through `onHostAction` and `applyHostAction`: `promote`, `demote`, `remove` and
  `stopScreenShare` are in PresenterLock, `remove` in RoomLifecycle; `admit` and `deny`
  act on a waiting room that nobody is put in while nothing opens it; `mute` and
  `stopVideo` pause and close one producer on the server (planned with 2 above).
* Breakout rooms: `onBreakout` calls functions `BreakoutManager` does not have.
* The media pipeline: the routes call functions `UploadService` does not export, and
  nothing consumes the scan queue.
* Billing: the webhook route hands `handleStripeWebhook` an event where it expects
  the request.
* The offline outbox and the sync queue: no client creates one.
* Attendance: a ledger in memory nothing decides on; what would save and report it
  has no caller. Polls, live chat and the whiteboard of the classroom likewise.

Left out for good: routes and middleware (request plumbing), user interfaces,
content management that is a single SQL statement, mediasoup and Redis
themselves (modelled only by how the code uses them).
