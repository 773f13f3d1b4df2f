----------------------------- MODULE ChatThread -----------------------------
(***************************************************************************)
(* One open conversation as several devices show it.  A message a device   *)
(* sends exists three times: as its optimistic bubble, as the answer to    *)
(* the POST and as the socket echo every subscribed device gets.           *)
(*                                                                         *)
(* Sources: packages/core-client/src/state/useChat.ts (the bubbles),       *)
(* http/httpClient.ts (attempts), server/src/messaging: the send, the      *)
(* fan-out after it, the subscriptions and the read marker.                *)
(*                                                                         *)
(* A message is its clientMessageId.  Every device has the conversation on *)
(* screen and the page holds every message there is.                       *)
(***************************************************************************)
EXTENDS Naturals, Sequences, FiniteSets, SequencesExt

CONSTANTS
  Devices,    \* the devices that have the conversation open
  Keys,       \* clientMessageIds
  Author,     \* the device that writes each of them
  AutoRead,   \* the devices with autoMarkRead
  MaxTries,   \* bounds the attempts for one message, retries included
  MaxFaults,  \* bounds the attempts and pages that go wrong
  MaxDrops    \* bounds the socket connections lost

ASSUME AuthorsAreDevices == Author \in [Keys -> Devices] /\ AutoRead \subseteq Devices
ASSUME TriesArePositive  == MaxTries \in Nat \ {0}
ASSUME BoundsAreNat      == MaxFaults \in Nat /\ MaxDrops \in Nat

VARIABLES
  stored,  \* messages of the conversation, oldest first
  wire,    \* the POSTs on their way: a message and the attempt
  fanout,  \* the sends whose deliver() has not broadcast yet
  readTo,  \* how many messages each device's read marker covers
  call,    \* the author's api.send of each message
  tries,   \* the attempts made for it
  view,    \* useChat's messages, per device
  page,    \* the first page's request, per device
  marks,   \* devices whose PUT read is on its way
  sub,     \* each socket's subscription
  feed,    \* the echoes on each socket
  early,   \* ghost: the messages written while the first page was loading
  faults, drops

serverVars == <<stored, wire, fanout, readTo>>
callVars   == <<call, tries, early>>
screenVars == <<view, page, marks>>
socketVars == <<sub, feed>>
boundVars  == <<faults, drops>>
vars == <<serverVars, callVars, screenVars, socketVars, boundVars>>

Attempts == Keys \X (1 .. MaxTries)
Bubbles  == [key : Keys, delivery : {"sending", "sent", "failed"}]

Shows(v, k)       == \E i \in DOMAIN v : v[i].key = k
Bubble(k, d)      == [key |-> k, delivery |-> d]
IsStored(k)       == \E i \in DOMAIN stored : stored[i] = k
Delivery(v, k, d) == \E i \in DOMAIN v : v[i] = Bubble(k, d)

TypeOK ==
  /\ stored \in Seq(Keys)
  /\ wire \subseteq Attempts
  /\ fanout \subseteq Attempts
  /\ readTo \in [Devices -> Nat]
  /\ call \in [Keys -> {"none", "out", "answered"}]
  /\ tries \in [Keys -> 0 .. MaxTries]
  /\ view \in [Devices -> Seq(Bubbles)]
  /\ page \in [Devices -> [at : {"asked", "read", "done"}, rows : Seq(Keys)]]
  /\ marks \subseteq Devices
  /\ sub \in [Devices -> {"asked", "yes", "no"}]
  /\ feed \in [Devices -> Seq(Keys)]
  /\ early \subseteq Keys
  /\ faults \in 0 .. MaxFaults
  /\ drops \in 0 .. MaxDrops

(* The conversation is opened on an empty list; the page and the           *)
(* subscription are asked for at the same time.                            *)
Init ==
  /\ stored = <<>>
  /\ wire = {}
  /\ fanout = {}
  /\ readTo = [d \in Devices |-> 0]
  /\ call = [k \in Keys |-> "none"]
  /\ tries = [k \in Keys |-> 0]
  /\ view = [d \in Devices |-> <<>>]
  /\ page = [d \in Devices |-> [at |-> "asked", rows |-> <<>>]]
  /\ marks = {}
  /\ sub = [d \in Devices |-> "asked"]
  /\ feed = [d \in Devices |-> <<>>]
  /\ early = {}
  /\ faults = 0
  /\ drops = 0

-----------------------------------------------------------------------------
(* What a device shows.                                                    *)

(* setMessages, and the effect after it: when the newest bubble is sent,   *)
(* the conversation is marked read.  Two PUTs under way count as one.      *)
Show(d, v) ==
  /\ view' = [view EXCEPT ![d] = v]
  /\ marks' = IF d \in AutoRead /\ v # <<>> /\ v[Len(v)].delivery = "sent"
                THEN marks \union {d}
                ELSE marks

(* A mutant: a failed message is taken off the screen. *)
MarkedOrGone(v, k, delivery) ==
  IF delivery = "failed"
    THEN SelectSeq(v, LAMBDA b : b.key # k)
    ELSE [i \in DOMAIN v |-> IF v[i].key = k THEN Bubble(k, delivery) ELSE v[i]]

(* Every bubble of the message, with another delivery.                     *)
Marked(v, k, delivery) ==
  [i \in DOMAIN v |-> IF v[i].key = k THEN Bubble(k, delivery) ELSE v[i]]

(* A mutant: only a bubble that already has its real id is recognised. *)
EchoByIdOnly(v, k) ==
  IF Delivery(v, k, "sent") THEN v ELSE Append(v, Bubble(k, "sent"))

(* onNew: the echo takes the place of the bubble with its key, or is added *)
(* at the end.                                                             *)
Echoed(v, k) ==
  IF Shows(v, k) THEN Marked(v, k, "sent") ELSE Append(v, Bubble(k, "sent"))

-----------------------------------------------------------------------------
(* Sending.                                                                *)

(* The next attempt of api.send leaves.                                    *)
Post(k) ==
  /\ tries' = [tries EXCEPT ![k] = @ + 1]
  /\ wire' = wire \union {<<k, tries[k] + 1>>}
  /\ call' = [call EXCEPT ![k] = "out"]

(* send: the bubble is on screen before the request leaves, also while the *)
(* first page is still loading.                                            *)
Send(k) ==
  LET d == Author[k] IN
  /\ tries[k] = 0
  /\ Post(k)
  /\ Show(d, Append(view[d], Bubble(k, "sending")))
  /\ early' = IF page[d].at = "done" THEN early ELSE early \union {k}
  /\ UNCHANGED <<stored, fanout, readTo, page, socketVars, boundVars>>

(* retry, from the button on a failed bubble: the same clientMessageId.    *)
Retry(k) ==
  LET d == Author[k] IN
  /\ call[k] = "none"
  /\ tries[k] < MaxTries
  /\ Delivery(view[d], k, "failed")
  /\ Post(k)
  /\ Show(d, Marked(view[d], k, "sending"))
  /\ UNCHANGED <<stored, fanout, readTo, early, page, socketVars, boundVars>>

(* Message.insert: ON CONFLICT (author, clientMessageId) finds the row.    *)
Inserted(k) == IF IsStored(k) THEN stored ELSE Append(stored, k)

(* A mutant: the sender is answered and the row is left to a queue. *)
StoreLater(k, n) ==
  /\ <<k, n>> \in wire
  /\ wire' = wire \ {<<k, n>>}
  /\ fanout' = fanout \union {<<k, n>>}
  /\ call' = IF n = tries[k] /\ call[k] = "out" THEN [call EXCEPT ![k] = "answered"] ELSE call
  /\ UNCHANGED <<stored, readTo, tries, early, screenVars, socketVars, boundVars>>

(* DirectMessageService.send.  The fan-out is started and not waited for;  *)
(* a replayed send fans out again.                                         *)
Store(k, n) ==
  /\ <<k, n>> \in wire
  /\ wire' = wire \ {<<k, n>>}
  /\ stored' = Inserted(k)
  /\ fanout' = fanout \union {<<k, n>>}
  /\ call' = IF n = tries[k] /\ call[k] = "out" THEN [call EXCEPT ![k] = "answered"] ELSE call
  /\ UNCHANGED <<readTo, tries, early, screenVars, socketVars, boundVars>>

(* deliver, the answer: the bubble is sent.                                *)
Answered(k) ==
  /\ call[k] = "answered"
  /\ call' = [call EXCEPT ![k] = "none"]
  /\ Show(Author[k], Marked(view[Author[k]], k, "sent"))
  /\ UNCHANGED <<serverVars, tries, early, page, socketVars, boundVars>>

(* An attempt times out or its connection breaks, before the server, on    *)
(* the server or on the way back, and another one follows.                 *)
TryAgain(k) ==
  /\ call[k] \in {"out", "answered"}
  /\ faults < MaxFaults
  /\ tries[k] < MaxTries
  /\ faults' = faults + 1
  /\ Post(k)
  /\ UNCHANGED <<stored, fanout, readTo, early, screenVars, socketVars, drops>>

(* A mutant: an error leaves the bubble as it was. *)
GiveUpSilently(k) ==
  /\ call[k] \in {"out", "answered"}
  /\ faults < MaxFaults
  /\ faults' = faults + 1
  /\ call' = [call EXCEPT ![k] = "none"]
  /\ wire' = wire \ {<<k, tries[k]>>}
  /\ UNCHANGED <<stored, fanout, readTo, tries, early, screenVars, socketVars, drops>>

(* The last attempt fails the same way, or the server refuses the message: *)
(* deliver's catch marks the bubble, whatever it was by then.  A request   *)
(* that broke after it left may still reach the server.                    *)
GiveUp(k) ==
  /\ call[k] \in {"out", "answered"}
  /\ faults < MaxFaults
  /\ faults' = faults + 1
  /\ call' = [call EXCEPT ![k] = "none"]
  /\ wire' \in {wire, wire \ {<<k, tries[k]>>}}
  /\ Show(Author[k], Marked(view[Author[k]], k, "failed"))
  /\ UNCHANGED <<stored, fanout, readTo, tries, early, page, socketVars, drops>>

(* A mutant: the echo is for the sender's own devices only. *)
BroadcastToAuthor(k, n) ==
  /\ <<k, n>> \in fanout
  /\ fanout' = fanout \ {<<k, n>>}
  /\ feed' = [d \in Devices |-> IF sub[d] = "yes" /\ d = Author[k] THEN Append(feed[d], k) ELSE feed[d]]
  /\ UNCHANGED <<stored, wire, readTo, callVars, screenVars, sub, boundVars>>

(* deliver on the server: broadcastMessage to the sockets in the room.     *)
Broadcast(k, n) ==
  /\ <<k, n>> \in fanout
  /\ fanout' = fanout \ {<<k, n>>}
  /\ feed' = [d \in Devices |-> IF sub[d] = "yes" THEN Append(feed[d], k) ELSE feed[d]]
  /\ UNCHANGED <<stored, wire, readTo, callVars, screenVars, sub, boundVars>>

-----------------------------------------------------------------------------
(* Receiving.                                                              *)

(* onNew *)
Receive(d) ==
  /\ feed[d] # <<>>
  /\ Show(d, Echoed(view[d], Head(feed[d])))
  /\ feed' = [feed EXCEPT ![d] = Tail(@)]
  /\ UNCHANGED <<serverVars, callVars, page, sub, boundVars>>

(* The history query runs.                                                 *)
ReadPage(d) ==
  /\ page[d].at = "asked"
  /\ page' = [page EXCEPT ![d] = [at |-> "read", rows |-> stored]]
  /\ UNCHANGED <<serverVars, callVars, view, marks, socketVars, boundVars>>

(* The page arrives and replaces everything on screen.                     *)
PageArrives(d) ==
  /\ page[d].at = "read"
  /\ page' = [page EXCEPT ![d] = [at |-> "done", rows |-> <<>>]]
  /\ Show(d, [i \in DOMAIN page[d].rows |-> Bubble(page[d].rows[i], "sent")])
  /\ UNCHANGED <<serverVars, callVars, socketVars, boundVars>>

(* The page does not arrive: the screen keeps what it has.                 *)
PageFails(d) ==
  /\ page[d].at \in {"asked", "read"}
  /\ faults < MaxFaults
  /\ faults' = faults + 1
  /\ page' = [page EXCEPT ![d] = [at |-> "done", rows |-> <<>>]]
  /\ UNCHANGED <<serverVars, callVars, view, marks, socketVars, drops>>

(* chat:subscribe joins the socket to the conversation's room.             *)
Subscribe(d) ==
  /\ sub[d] = "asked"
  /\ sub' = [sub EXCEPT ![d] = "yes"]
  /\ UNCHANGED <<serverVars, callVars, screenVars, feed, boundVars>>

(* The socket breaks and comes back: what was on it is gone, and so is the *)
(* subscription, which nothing asks for again.                             *)
Reconnect(d) ==
  /\ drops < MaxDrops
  /\ drops' = drops + 1
  /\ sub' = [sub EXCEPT ![d] = "no"]
  /\ feed' = [feed EXCEPT ![d] = <<>>]
  /\ UNCHANGED <<serverVars, callVars, screenVars, faults>>

(* PUT read: the marker becomes the server's now, whichever message was    *)
(* named.                                                                  *)
MarkRead(d) ==
  /\ d \in marks
  /\ marks' = marks \ {d}
  /\ readTo' = [readTo EXCEPT ![d] = Len(stored)]
  /\ UNCHANGED <<stored, wire, fanout, callVars, view, page, socketVars, boundVars>>

-----------------------------------------------------------------------------
SendStep(k) ==
  \/ Send(k) \/ Retry(k) \/ Answered(k) \/ TryAgain(k) \/ GiveUp(k)
  \/ \E n \in 1 .. MaxTries : Store(k, n) \/ Broadcast(k, n)

ScreenStep(d) ==
  \/ Receive(d) \/ ReadPage(d) \/ PageArrives(d) \/ PageFails(d)
  \/ Subscribe(d) \/ Reconnect(d) \/ MarkRead(d)

Next == (\E k \in Keys : SendStep(k)) \/ (\E d \in Devices : ScreenStep(d))

Spec == Init /\ [][Next]_vars

(* A request the network carries is served, its answer and the echoes      *)
(* arrive.  Nobody has to write, retry or lose anything.                   *)
Fairness ==
  /\ \A k \in Keys : WF_vars(Answered(k))
  /\ \A k \in Keys, n \in 1 .. MaxTries : WF_vars(Store(k, n)) /\ WF_vars(Broadcast(k, n))
  /\ \A d \in Devices : WF_vars(Receive(d)) /\ WF_vars(ReadPage(d)) /\ WF_vars(PageArrives(d))
                        /\ WF_vars(Subscribe(d)) /\ WF_vars(MarkRead(d))

FairSpec == Spec /\ Fairness

-----------------------------------------------------------------------------
(* Properties.                                                             *)

(* However often a message is posted, it is one row: part of IInv.         *)
StoredOnce == \A i, j \in DOMAIN stored : stored[i] = stored[j] => i = j

(* The optimistic bubble, the answer, the page and the echoes of every     *)
(* attempt collapse into one bubble on every screen.                       *)
OneBubblePerMessage ==
  \A d \in Devices : \A i, j \in DOMAIN view[d] :
    view[d][i].key = view[d][j].key => i = j

(* A bubble that says sent is a message the server has.                    *)
SentIsStored ==
  \A d \in Devices : \A i \in DOMAIN view[d] :
    view[d][i].delivery = "sent" => IsStored(view[d][i].key)

(* What was written on a loaded screen stays on it, whatever becomes of    *)
(* the request.                                                            *)
WrittenStays ==
  \A k \in Keys : tries[k] > 0 /\ k \notin early => Shows(view[Author[k]], k)

(* Nothing is known anywhere of a message before it is written.            *)
WrittenFirst ==
  \A k \in Keys : tries[k] = 0 =>
    /\ call[k] = "none"
    /\ ~IsStored(k)
    /\ \A n \in 1 .. MaxTries : <<k, n>> \notin wire
    /\ \A d \in Devices : ~Shows(view[d], k)

(* Answers, echoes and pages come from rows, and a page has a row once.    *)
TakenFromRows ==
  /\ \A k \in Keys : call[k] = "answered" => IsStored(k)
  /\ \A a \in fanout : IsStored(a[1])
  /\ \A d \in Devices : \A i \in DOMAIN feed[d] : IsStored(feed[d][i])
  /\ \A d \in Devices : \A i \in DOMAIN page[d].rows : IsStored(page[d].rows[i])
  /\ \A d \in Devices : \A i, j \in DOMAIN page[d].rows : page[d].rows[i] = page[d].rows[j] => i = j

(* What is written before the first page has settled counts as early.      *)
EarlyIsKnown ==
  \A k \in Keys : tries[k] > 0 /\ page[Author[k]].at # "done" => k \in early

(* The inductive invariant.                                                *)
IInv ==
  /\ TypeOK
  /\ StoredOnce
  /\ OneBubblePerMessage
  /\ SentIsStored
  /\ WrittenStays
  /\ WrittenFirst
  /\ TakenFromRows
  /\ EarlyIsKnown

(* No bubble is sending for ever: it becomes sent, failed or is gone.      *)
SendingSettles ==
  \A k \in Keys : Delivery(view[Author[k]], k, "sending") ~> ~Delivery(view[Author[k]], k, "sending")

(* A device that is loaded and subscribed before a message is broadcast    *)
(* shows it in the end, unless its socket breaks.                          *)
Ready(d) == page[d].at = "done" /\ sub[d] = "yes"

EchoIsShown ==
  \A d \in Devices, k \in Keys, n \in 1 .. MaxTries :
    (Ready(d) /\ <<k, n>> \in fanout) ~> (Shows(view[d], k) \/ ~Ready(d))

(* useChat: "so nobody loses what they wrote".  It is lost when the first  *)
(* page arrives after the bubble and the send then fails.                  *)
NobodyLosesWhatTheyWrote ==
  \A k \in Keys : tries[k] > 0 => IsStored(k) \/ call[k] # "none" \/ Shows(view[Author[k]], k)

(* useChat: "the server has it; the id is now the real one".  The error of *)
(* a call marks a bubble failed that the echo had already confirmed.       *)
SentStaysSent ==
  [][\A k \in Keys : Delivery(view[Author[k]], k, "sent") => ~Delivery(view'[Author[k]], k, "failed")]_vars

(* The read route: "Read up to a message".  The marker covers whatever is  *)
(* stored by then, on screen or not.                                       *)
ReadWasOnScreen ==
  \A d \in Devices : \A i \in 1 .. readTo[d] : Shows(view[d], stored[i])
=============================================================================
