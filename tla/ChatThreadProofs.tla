-------------------------- MODULE ChatThreadProofs --------------------------
(***************************************************************************)
(* The safety properties of ChatThread, for any number of devices,         *)
(* messages, attempts and faults.  IInv is inductive; the properties are   *)
(* conjuncts of it.                                                        *)
(***************************************************************************)
EXTENDS ChatThread, TLAPS

Deliveries == {"sending", "sent", "failed"}

(* A screen on which every message has at most one bubble. *)
NoTwice(v) == \A i, j \in DOMAIN v : v[i].key = v[j].key => i = j

(* A new conversation satisfies the inductive invariant.                   *)
LEMMA InitEstablishes == Init => IInv
<1> SUFFICES ASSUME Init PROVE IInv
  OBVIOUS
<1> USE AuthorsAreDevices, TriesArePositive, BoundsAreNat DEF Init
<1>1. TypeOK
  <2>1. stored \in Seq(Keys) /\ wire \subseteq Attempts /\ fanout \subseteq Attempts
    BY DEF Attempts
  <2>2. readTo \in [Devices -> Nat] /\ tries \in [Keys -> 0 .. MaxTries]
    OBVIOUS
  <2>3. call \in [Keys -> {"none", "out", "answered"}] /\ sub \in [Devices -> {"asked", "yes", "no"}]
    OBVIOUS
  <2>4. view \in [Devices -> Seq(Bubbles)] /\ feed \in [Devices -> Seq(Keys)]
    OBVIOUS
  <2>5. page \in [Devices -> [at : {"asked", "read", "done"}, rows : Seq(Keys)]]
    OBVIOUS
  <2>6. marks \subseteq Devices /\ early \subseteq Keys
    OBVIOUS
  <2>7. faults \in 0 .. MaxFaults /\ drops \in 0 .. MaxDrops
    OBVIOUS
  <2> QED
    BY <2>1, <2>2, <2>3, <2>4, <2>5, <2>6, <2>7 DEF TypeOK
<1>2. StoredOnce /\ OneBubblePerMessage /\ SentIsStored
  BY DEF StoredOnce, OneBubblePerMessage, SentIsStored
<1>3. WrittenStays /\ EarlyIsKnown
  BY DEF WrittenStays, EarlyIsKnown
<1>4. WrittenFirst
  BY DEF WrittenFirst, IsStored, Shows
<1>5. TakenFromRows
  BY DEF TakenFromRows
<1> QED
  BY <1>1, <1>2, <1>3, <1>4, <1>5 DEF IInv

-----------------------------------------------------------------------------
(* What the list operations do to a screen.                                *)

(* Marked changes deliveries only. *)
LEMMA MarkedKeepsKeys ==
  ASSUME NEW v \in Seq(Bubbles), NEW k \in Keys, NEW s \in Deliveries
  PROVE  /\ Marked(v, k, s) \in Seq(Bubbles)
         /\ DOMAIN Marked(v, k, s) = DOMAIN v
         /\ \A i \in DOMAIN v : Marked(v, k, s)[i].key = v[i].key
         /\ \A i \in DOMAIN v : v[i].key # k => Marked(v, k, s)[i] = v[i]
         /\ \A i \in DOMAIN v : v[i].key = k => Marked(v, k, s)[i].delivery = s
<1>1. \A i \in DOMAIN v : v[i] \in Bubbles
  OBVIOUS
<1>2. Bubble(k, s) \in Bubbles /\ Bubble(k, s).key = k /\ Bubble(k, s).delivery = s
  BY DEF Bubble, Bubbles, Deliveries
<1>3. DOMAIN v = 1 .. Len(v) /\ Len(v) \in Nat
  OBVIOUS
<1>4. \A i \in 1 .. Len(v) : (IF v[i].key = k THEN Bubble(k, s) ELSE v[i]) \in Bubbles
  BY <1>1, <1>2, <1>3
<1>5. Marked(v, k, s) \in Seq(Bubbles)
  BY <1>3, <1>4 DEF Marked
<1> QED
  BY <1>1, <1>2, <1>3, <1>5 DEF Marked

(* So it keeps a screen free of doubles, and shows the same messages.      *)
LEMMA MarkedKeepsOrder ==
  ASSUME NEW v \in Seq(Bubbles), NEW k \in Keys, NEW s \in Deliveries, NoTwice(v)
  PROVE  /\ NoTwice(Marked(v, k, s))
         /\ \A x \in Keys : Shows(Marked(v, k, s), x) <=> Shows(v, x)
BY MarkedKeepsKeys DEF NoTwice, Shows

(* A bubble added for a message the screen does not show.                  *)
LEMMA AppendedIsNew ==
  ASSUME NEW v \in Seq(Bubbles), NEW k \in Keys, NEW s \in Deliveries, NoTwice(v), ~Shows(v, k)
  PROVE  /\ Append(v, Bubble(k, s)) \in Seq(Bubbles)
         /\ NoTwice(Append(v, Bubble(k, s)))
         /\ \A x \in Keys : Shows(Append(v, Bubble(k, s)), x) <=> Shows(v, x) \/ x = k
         /\ \A i \in DOMAIN Append(v, Bubble(k, s)) :
              \/ i \in DOMAIN v /\ Append(v, Bubble(k, s))[i] = v[i]
              \/ Append(v, Bubble(k, s))[i] = Bubble(k, s)
<1> DEFINE w == Append(v, Bubble(k, s))
<1>1. Bubble(k, s) \in Bubbles /\ Bubble(k, s).key = k
  BY DEF Bubble, Bubbles, Deliveries
<1>2. w \in Seq(Bubbles)
  BY <1>1
<1>3. DOMAIN v = 1 .. Len(v) /\ DOMAIN w = 1 .. Len(v) + 1 /\ Len(v) \in Nat
  BY <1>1
<1>4. \A i \in 1 .. Len(v) : w[i] = v[i]
  BY <1>1
<1>5. w[Len(v) + 1] = Bubble(k, s)
  BY <1>1
<1>6. NoTwice(w)
  BY <1>1, <1>3, <1>4, <1>5 DEF NoTwice, Shows
<1>7. \A x \in Keys : Shows(w, x) <=> Shows(v, x) \/ x = k
  BY <1>1, <1>3, <1>4, <1>5 DEF Shows
<1> QED
  BY <1>2, <1>3, <1>4, <1>5, <1>6, <1>7

(* onNew, whichever of the two it does.                                    *)
LEMMA EchoedShowsIt ==
  ASSUME NEW v \in Seq(Bubbles), NEW k \in Keys, NoTwice(v)
  PROVE  /\ Echoed(v, k) \in Seq(Bubbles)
         /\ NoTwice(Echoed(v, k))
         /\ \A x \in Keys : Shows(Echoed(v, k), x) <=> Shows(v, x) \/ x = k
         /\ \A i \in DOMAIN Echoed(v, k) :
              \/ i \in DOMAIN v /\ Echoed(v, k)[i] = v[i]
              \/ Echoed(v, k)[i].key = k
<1>1. "sent" \in Deliveries
  BY DEF Deliveries
<1>2. CASE Shows(v, k)
  <2>1. Echoed(v, k) = Marked(v, k, "sent")
    BY <1>2 DEF Echoed
  <2>2. \A i \in DOMAIN v : Marked(v, k, "sent")[i] = v[i] \/ Marked(v, k, "sent")[i].key = k
    BY <1>1, MarkedKeepsKeys
  <2> QED
    BY <1>1, <1>2, <2>1, <2>2, MarkedKeepsKeys, MarkedKeepsOrder
<1>3. CASE ~Shows(v, k)
  <2>1. Echoed(v, k) = Append(v, Bubble(k, "sent"))
    BY <1>3 DEF Echoed
  <2>2. Bubble(k, "sent").key = k
    BY DEF Bubble
  <2> QED
    BY <1>1, <1>3, <2>1, <2>2, AppendedIsNew
<1> QED
  BY <1>2, <1>3

(* A page is one bubble per row.                                           *)
LEMMA PageIsRows ==
  ASSUME NEW rows \in Seq(Keys),
         \A i, j \in DOMAIN rows : rows[i] = rows[j] => i = j
  PROVE  LET w == [i \in DOMAIN rows |-> Bubble(rows[i], "sent")]
         IN  /\ w \in Seq(Bubbles)
             /\ NoTwice(w)
             /\ \A i \in DOMAIN w : i \in DOMAIN rows /\ w[i].key = rows[i]
<1> DEFINE w == [i \in DOMAIN rows |-> Bubble(rows[i], "sent")]
<1>1. DOMAIN rows = 1 .. Len(rows) /\ Len(rows) \in Nat
  OBVIOUS
<1>2. \A i \in 1 .. Len(rows) : Bubble(rows[i], "sent") \in Bubbles
  BY <1>1 DEF Bubble, Bubbles
<1>3. w \in Seq(Bubbles)
  BY <1>1, <1>2
<1>4. \A i \in DOMAIN w : i \in DOMAIN rows /\ w[i].key = rows[i]
  BY DEF Bubble
<1>5. NoTwice(w)
  BY <1>4 DEF NoTwice
<1> QED
  BY <1>3, <1>4, <1>5

-----------------------------------------------------------------------------
(* The steps.                                                              *)

(* One device gets a new screen, and no row is written.                    *)
LEMMA ScreenChanges ==
  ASSUME IInv, NEW d \in Devices, NEW w \in Seq(Bubbles), Show(d, w), NoTwice(w),
         UNCHANGED stored,
         tries' \in [Keys -> 0 .. MaxTries],
         early \subseteq early',
         \A k \in Keys : tries[k] > 0 => tries'[k] > 0,
         \A k \in Keys : tries'[k] > 0 => tries[k] > 0 \/ Author[k] = d,
         \A i \in DOMAIN w : w[i].delivery = "sent" => IsStored(w[i].key),
         \A k \in Keys : Shows(w, k) => tries'[k] > 0,
         \A k \in Keys : Author[k] = d /\ tries'[k] > 0 /\ k \notin early' => Shows(w, k)
  PROVE  /\ view' \in [Devices -> Seq(Bubbles)]
         /\ marks' \subseteq Devices
         /\ OneBubblePerMessage'
         /\ SentIsStored'
         /\ WrittenStays'
         /\ \A k \in Keys, e \in Devices : Shows(view'[e], k) => tries'[k] > 0
<1>1. view' = [view EXCEPT ![d] = w] /\ view \in [Devices -> Seq(Bubbles)]
  BY DEF Show, IInv, TypeOK
<1>2. view' \in [Devices -> Seq(Bubbles)]
  BY <1>1
<1>3. view'[d] = w /\ \A e \in Devices : e # d => view'[e] = view[e]
  BY <1>1
<1>4. marks' \subseteq Devices
  BY DEF Show, IInv, TypeOK
<1>5. OneBubblePerMessage'
  BY <1>3 DEF OneBubblePerMessage, NoTwice, IInv
<1>6. SentIsStored'
  BY <1>3 DEF SentIsStored, IInv, IsStored
<1>7. WrittenStays'
  <2> SUFFICES ASSUME NEW k \in Keys, tries'[k] > 0, k \notin early'
               PROVE  Shows(view'[Author[k]], k)
    BY DEF WrittenStays, Shows
  <2>1. Author[k] \in Devices
    BY AuthorsAreDevices
  <2>2. CASE Author[k] = d
    BY <1>3, <2>2
  <2>3. CASE Author[k] # d
    BY <1>3, <2>1, <2>3 DEF WrittenStays, IInv
  <2> QED
    BY <2>2, <2>3
<1>8. \A k \in Keys, e \in Devices : Shows(view'[e], k) => tries'[k] > 0
  <2> SUFFICES ASSUME NEW k \in Keys, NEW e \in Devices, Shows(view'[e], k)
               PROVE  tries'[k] > 0
    OBVIOUS
  <2>1. CASE e = d
    BY <1>3, <2>1
  <2>2. CASE e # d
    <3>1. Shows(view[e], k)
      BY <1>3, <2>2
    <3>2. tries[k] # 0 /\ tries[k] \in 0 .. MaxTries
      BY <3>1 DEF WrittenFirst, IInv, TypeOK
    <3> QED
      BY <3>2
  <2> QED
    BY <2>1, <2>2
<1> QED
  BY <1>2, <1>4, <1>5, <1>6, <1>7, <1>8

(* Nothing on a screen changes and nothing is written by an author.        *)
LEMMA ScreensStay ==
  ASSUME IInv, UNCHANGED <<view, tries, early>>,
         \A k \in Keys : IsStored(k) => IsStored(k)'
  PROVE  /\ OneBubblePerMessage'
         /\ SentIsStored'
         /\ WrittenStays'
<1>1. OneBubblePerMessage'
  BY DEF OneBubblePerMessage, IInv
<1>2. SentIsStored'
  <2> SUFFICES ASSUME NEW d \in Devices, NEW i \in DOMAIN view[d], view[d][i].delivery = "sent"
               PROVE  IsStored(view[d][i].key)'
    BY DEF SentIsStored, IsStored
  <2>1. view[d] \in Seq(Bubbles)
    BY DEF IInv, TypeOK
  <2>2. view[d][i] \in Bubbles
    BY <2>1
  <2>3. view[d][i].key \in Keys
    BY <2>2 DEF Bubbles
  <2> QED
    BY <2>3 DEF SentIsStored, IInv
<1>3. WrittenStays'
  BY DEF WrittenStays, Shows, IInv
<1> QED
  BY <1>1, <1>2, <1>3

(* The next attempt of a message.                                          *)
LEMMA PostTypes ==
  ASSUME IInv, NEW k \in Keys, tries[k] < MaxTries, Post(k)
  PROVE  /\ tries' \in [Keys -> 0 .. MaxTries]
         /\ wire' \subseteq Attempts
         /\ call' \in [Keys -> {"none", "out", "answered"}]
         /\ tries'[k] > 0
         /\ \A x \in Keys : x # k => tries'[x] = tries[x] /\ call'[x] = call[x]
         /\ call'[k] = "out"
         /\ \A x \in Keys, n \in 1 .. MaxTries : x # k /\ <<x, n>> \in wire' => <<x, n>> \in wire
<1> USE TriesArePositive DEF Post, IInv, TypeOK
<1>1. tries[k] + 1 \in 1 .. MaxTries
  OBVIOUS
<1>2. wire' \subseteq Attempts
  BY <1>1 DEF Attempts
<1>3. tries' \in [Keys -> 0 .. MaxTries] /\ tries'[k] > 0
  BY <1>1
<1>4. call' \in [Keys -> {"none", "out", "answered"}] /\ call'[k] = "out"
  OBVIOUS
<1> QED
  BY <1>2, <1>3, <1>4

LEMMA SendPreserves == ASSUME IInv, NEW k \in Keys, Send(k) PROVE IInv'
<1> DEFINE d == Author[k]
           w == Append(view[d], Bubble(k, "sending"))
<1>1. d \in Devices /\ view[d] \in Seq(Bubbles) /\ NoTwice(view[d])
  BY AuthorsAreDevices DEF IInv, TypeOK, OneBubblePerMessage, NoTwice
<1>2. ~Shows(view[d], k) /\ tries[k] = 0 /\ tries[k] < MaxTries
  BY <1>1, TriesArePositive DEF Send, IInv, WrittenFirst
<1>3. /\ tries' \in [Keys -> 0 .. MaxTries]
      /\ wire' \subseteq Attempts
      /\ call' \in [Keys -> {"none", "out", "answered"}]
      /\ tries'[k] > 0
      /\ \A x \in Keys : x # k => tries'[x] = tries[x] /\ call'[x] = call[x]
      /\ call'[k] = "out"
      /\ \A x \in Keys, n \in 1 .. MaxTries : x # k /\ <<x, n>> \in wire' => <<x, n>> \in wire
  BY <1>2, PostTypes DEF Send
<1>4. /\ w \in Seq(Bubbles)
      /\ NoTwice(w)
      /\ \A x \in Keys : Shows(w, x) <=> Shows(view[d], x) \/ x = k
      /\ \A i \in DOMAIN w : \/ i \in DOMAIN view[d] /\ w[i] = view[d][i]
                             \/ w[i] = Bubble(k, "sending")
  BY <1>1, <1>2, AppendedIsNew DEF Deliveries
<1>5. UNCHANGED stored /\ early \subseteq early' /\ Show(d, w)
  BY DEF Send
<1>6. \A i \in DOMAIN w : w[i].delivery = "sent" => IsStored(w[i].key)
  BY <1>1, <1>4 DEF IInv, SentIsStored, Bubble
<1>7. \A x \in Keys : Shows(w, x) => tries'[x] > 0
  <2> SUFFICES ASSUME NEW x \in Keys, Shows(view[d], x), x # k PROVE tries'[x] > 0
    BY <1>3, <1>4
  <2>1. tries[x] # 0 /\ tries[x] \in 0 .. MaxTries
    BY <1>1 DEF IInv, WrittenFirst, TypeOK
  <2> QED
    BY <1>3, <2>1
<1>8. \A x \in Keys : Author[x] = d /\ tries'[x] > 0 /\ x \notin early' => Shows(w, x)
  BY <1>3, <1>4, <1>5 DEF IInv, WrittenStays
<1>9. /\ view' \in [Devices -> Seq(Bubbles)]
      /\ marks' \subseteq Devices
      /\ OneBubblePerMessage'
      /\ SentIsStored'
      /\ WrittenStays'
      /\ \A x \in Keys, e \in Devices : Shows(view'[e], x) => tries'[x] > 0
  <2>1. \A x \in Keys : tries[x] > 0 => tries'[x] > 0
    BY <1>3
  <2>2. \A x \in Keys : tries'[x] > 0 => tries[x] > 0 \/ Author[x] = d
    BY <1>3
  <2> QED
    BY <1>1, <1>3, <1>4, <1>5, <1>6, <1>7, <1>8, <2>1, <2>2, ScreenChanges
<1>10. TypeOK'
  <2>1. early' \subseteq Keys
    BY DEF Send, IInv, TypeOK
  <2> QED
    BY <1>3, <1>9, <2>1 DEF Send, IInv, TypeOK, socketVars, boundVars
<1>11. StoredOnce'
  BY <1>5 DEF IInv, StoredOnce
<1>12. WrittenFirst'
  <2> SUFFICES ASSUME NEW x \in Keys, tries'[x] = 0
               PROVE  /\ call'[x] = "none" /\ ~IsStored(x)'
                      /\ \A n \in 1 .. MaxTries : <<x, n>> \notin wire'
                      /\ \A e \in Devices : ~Shows(view'[e], x)
    BY DEF WrittenFirst, Shows
  <2>1. x # k /\ tries[x] = 0
    BY <1>3
  <2> QED
    BY <1>3, <1>5, <1>9, <2>1 DEF IInv, WrittenFirst, IsStored
<1>13. TakenFromRows'
  BY <1>3, <1>5 DEF IInv, TakenFromRows, Send, IsStored, socketVars
<1>14. EarlyIsKnown'
  BY <1>3 DEF IInv, EarlyIsKnown, Send, TypeOK
<1> QED
  BY <1>9, <1>10, <1>11, <1>12, <1>13, <1>14 DEF IInv

(* The steps that mark the bubbles of one message on its author's screen.  *)
LEMMA MarkingPreserves ==
  ASSUME IInv, NEW k \in Keys, NEW s \in Deliveries,
         Show(Author[k], Marked(view[Author[k]], k, s)),
         s = "sent" => IsStored(k),
         tries' \in [Keys -> 0 .. MaxTries],
         tries[k] > 0, tries'[k] > 0,
         \A x \in Keys : x # k => tries'[x] = tries[x] /\ call'[x] = call[x],
         wire' \subseteq Attempts,
         \A x \in Keys, n \in 1 .. MaxTries : x # k /\ <<x, n>> \in wire' => <<x, n>> \in wire,
         call' \in [Keys -> {"none", "out", "answered"}], call'[k] # "answered",
         faults' \in 0 .. MaxFaults,
         UNCHANGED <<stored, fanout, readTo, early, page, socketVars, drops>>
  PROVE  IInv'
<1> DEFINE d == Author[k]
           w == Marked(view[d], k, s)
<1>1. d \in Devices /\ view[d] \in Seq(Bubbles) /\ NoTwice(view[d])
  BY AuthorsAreDevices DEF IInv, TypeOK, OneBubblePerMessage, NoTwice
<1>2. /\ w \in Seq(Bubbles)
      /\ NoTwice(w)
      /\ \A x \in Keys : Shows(w, x) <=> Shows(view[d], x)
  BY <1>1, MarkedKeepsKeys, MarkedKeepsOrder
<1>3. /\ DOMAIN w = DOMAIN view[d]
      /\ \A i \in DOMAIN w : w[i].key = view[d][i].key
      /\ \A i \in DOMAIN w : view[d][i].key # k => w[i] = view[d][i]
      /\ \A i \in DOMAIN w : view[d][i].key = k => w[i].delivery = s
  BY <1>1, MarkedKeepsKeys
<1>4. \A i \in DOMAIN w : w[i].delivery = "sent" => IsStored(w[i].key)
  <2> SUFFICES ASSUME NEW i \in DOMAIN w, w[i].delivery = "sent" PROVE IsStored(w[i].key)
    OBVIOUS
  <2>1. CASE view[d][i].key = k
    BY <1>3, <2>1
  <2>2. CASE view[d][i].key # k
    BY <1>1, <1>3, <2>2 DEF IInv, SentIsStored
  <2> QED
    BY <2>1, <2>2
<1>5. \A x \in Keys : tries[x] > 0 <=> tries'[x] > 0
  OBVIOUS
<1>6. \A x \in Keys : Shows(w, x) => tries'[x] > 0
  <2> SUFFICES ASSUME NEW x \in Keys, Shows(view[d], x) PROVE tries'[x] > 0
    BY <1>2
  <2>1. tries[x] # 0 /\ tries[x] \in 0 .. MaxTries
    BY <1>1 DEF IInv, WrittenFirst, TypeOK
  <2> QED
    BY <1>5, <2>1
<1>7. \A x \in Keys : Author[x] = d /\ tries'[x] > 0 /\ x \notin early' => Shows(w, x)
  BY <1>2, <1>5 DEF IInv, WrittenStays
<1>8. /\ view' \in [Devices -> Seq(Bubbles)]
      /\ marks' \subseteq Devices
      /\ OneBubblePerMessage'
      /\ SentIsStored'
      /\ WrittenStays'
      /\ \A x \in Keys, e \in Devices : Shows(view'[e], x) => tries'[x] > 0
  <2>1. Show(d, w) /\ UNCHANGED <<stored, early>> /\ tries' \in [Keys -> 0 .. MaxTries]
    OBVIOUS
  <2>2. /\ \A x \in Keys : tries[x] > 0 => tries'[x] > 0
        /\ \A x \in Keys : tries'[x] > 0 => tries[x] > 0 \/ Author[x] = d
    BY <1>5
  <2> HIDE DEF d, w
  <2> QED
    BY <1>1, <1>2, <1>4, <1>6, <1>7, <2>1, <2>2, ScreenChanges
<1>9. TypeOK'
  BY <1>8 DEF IInv, TypeOK, socketVars
<1>10. StoredOnce' /\ EarlyIsKnown'
  BY <1>5 DEF IInv, StoredOnce, EarlyIsKnown
<1>11. WrittenFirst'
  <2> SUFFICES ASSUME NEW x \in Keys, tries'[x] = 0
               PROVE  /\ call'[x] = "none" /\ ~IsStored(x)'
                      /\ \A n \in 1 .. MaxTries : <<x, n>> \notin wire'
                      /\ \A e \in Devices : ~Shows(view'[e], x)
    BY DEF WrittenFirst, Shows
  <2>1. x # k /\ tries[x] = 0
    OBVIOUS
  <2>2. /\ call[x] = "none" /\ ~IsStored(x)
        /\ \A n \in 1 .. MaxTries : <<x, n>> \notin wire
    BY <2>1 DEF IInv, WrittenFirst
  <2>3. call'[x] = "none" /\ ~IsStored(x)'
    BY <2>1, <2>2 DEF IsStored
  <2>4. \A n \in 1 .. MaxTries : <<x, n>> \notin wire'
    BY <2>1, <2>2
  <2>5. \A e \in Devices : ~Shows(view'[e], x)
    BY <1>8
  <2> QED
    BY <2>3, <2>4, <2>5
<1>12. TakenFromRows'
  BY DEF IInv, TakenFromRows, IsStored, socketVars
<1> QED
  BY <1>8, <1>9, <1>10, <1>11, <1>12 DEF IInv

LEMMA RetryPreserves == ASSUME IInv, NEW k \in Keys, Retry(k) PROVE IInv'
<1>1. view[Author[k]] \in Seq(Bubbles)
  BY AuthorsAreDevices DEF IInv, TypeOK
<1>2. Shows(view[Author[k]], k)
  BY <1>1 DEF Retry, Delivery, Bubble, Shows
<1>3. tries[k] > 0
  BY <1>2, AuthorsAreDevices DEF IInv, TypeOK, WrittenFirst
<1>4. /\ tries' \in [Keys -> 0 .. MaxTries]
      /\ wire' \subseteq Attempts
      /\ call' \in [Keys -> {"none", "out", "answered"}]
      /\ tries'[k] > 0
      /\ \A x \in Keys : x # k => tries'[x] = tries[x] /\ call'[x] = call[x]
      /\ call'[k] = "out"
      /\ \A x \in Keys, n \in 1 .. MaxTries : x # k /\ <<x, n>> \in wire' => <<x, n>> \in wire
  BY PostTypes DEF Retry
<1>5. faults' \in 0 .. MaxFaults
  BY DEF Retry, boundVars, IInv, TypeOK
<1>6. "sending" \in Deliveries
  BY DEF Deliveries
<1> QED
  BY <1>3, <1>4, <1>5, <1>6, MarkingPreserves DEF Retry, boundVars

(* An answer is taken for a message that is a row. *)
LEMMA AnsweredPreserves == ASSUME IInv, NEW k \in Keys, Answered(k) PROVE IInv'
<1>1. IsStored(k)
  BY DEF Answered, IInv, TakenFromRows
<1>2. tries[k] > 0
  BY <1>1 DEF IInv, TypeOK, WrittenFirst
<1>3. /\ call' \in [Keys -> {"none", "out", "answered"}]
      /\ call'[k] # "answered"
      /\ \A x \in Keys : x # k => call'[x] = call[x]
  BY DEF Answered, IInv, TypeOK
<1>4. UNCHANGED <<stored, wire, fanout, readTo, tries, early, page, socketVars, faults, drops>>
  BY DEF Answered, serverVars, boundVars
<1>5. tries' \in [Keys -> 0 .. MaxTries] /\ wire' \subseteq Attempts /\ faults' \in 0 .. MaxFaults
  BY <1>4 DEF IInv, TypeOK
<1>6. "sent" \in Deliveries /\ Show(Author[k], Marked(view[Author[k]], k, "sent"))
  BY DEF Deliveries, Answered
<1> QED
  BY <1>1, <1>2, <1>3, <1>4, <1>5, <1>6, MarkingPreserves

LEMMA GiveUpPreserves == ASSUME IInv, NEW k \in Keys, GiveUp(k) PROVE IInv'
<1>1. tries[k] > 0
  BY DEF GiveUp, IInv, TypeOK, WrittenFirst
<1>2. /\ call' \in [Keys -> {"none", "out", "answered"}]
      /\ call'[k] # "answered"
      /\ \A x \in Keys : x # k => call'[x] = call[x]
  BY DEF GiveUp, IInv, TypeOK
<1>3. wire' \subseteq wire /\ wire' \subseteq Attempts
  BY DEF GiveUp, IInv, TypeOK
<1>4. UNCHANGED <<stored, fanout, readTo, tries, early, page, socketVars, drops>>
  BY DEF GiveUp
<1>5. tries' \in [Keys -> 0 .. MaxTries] /\ faults' \in 0 .. MaxFaults
  BY <1>4, BoundsAreNat DEF GiveUp, IInv, TypeOK
<1>6. "failed" \in Deliveries /\ Show(Author[k], Marked(view[Author[k]], k, "failed"))
  BY DEF Deliveries, GiveUp
<1> QED
  BY <1>1, <1>2, <1>3, <1>4, <1>5, <1>6, MarkingPreserves

(* The next attempt replaces one that had left or had been answered. *)
LEMMA TryAgainPreserves == ASSUME IInv, NEW k \in Keys, TryAgain(k) PROVE IInv'
<1>1. /\ tries' \in [Keys -> 0 .. MaxTries]
      /\ wire' \subseteq Attempts
      /\ call' \in [Keys -> {"none", "out", "answered"}]
      /\ tries'[k] > 0
      /\ \A x \in Keys : x # k => tries'[x] = tries[x] /\ call'[x] = call[x]
      /\ call'[k] = "out"
      /\ \A x \in Keys, n \in 1 .. MaxTries : x # k /\ <<x, n>> \in wire' => <<x, n>> \in wire
  BY PostTypes DEF TryAgain
<1>2. UNCHANGED <<stored, fanout, readTo, early, view, page, marks, sub, feed, drops>>
  BY DEF TryAgain, screenVars, socketVars
<1>3. tries[k] > 0
  BY DEF TryAgain, IInv, TypeOK, WrittenFirst
<1>4. TypeOK'
  <2>1. faults' \in 0 .. MaxFaults
    BY BoundsAreNat DEF TryAgain, IInv, TypeOK
  <2> QED
    BY <1>1, <1>2, <2>1 DEF IInv, TypeOK
<1>5. StoredOnce' /\ OneBubblePerMessage' /\ SentIsStored'
  BY <1>2 DEF IInv, StoredOnce, OneBubblePerMessage, SentIsStored, IsStored
<1>6. WrittenStays' /\ EarlyIsKnown'
  BY <1>1, <1>2, <1>3 DEF IInv, WrittenStays, EarlyIsKnown
<1>7. WrittenFirst'
  <2> SUFFICES ASSUME NEW x \in Keys, tries'[x] = 0
               PROVE  /\ call'[x] = "none" /\ ~IsStored(x)'
                      /\ \A n \in 1 .. MaxTries : <<x, n>> \notin wire'
                      /\ \A e \in Devices : ~Shows(view'[e], x)
    BY DEF WrittenFirst, Shows
  <2>1. x # k /\ tries[x] = 0
    BY <1>1
  <2> QED
    BY <1>1, <1>2, <2>1 DEF IInv, WrittenFirst, IsStored
<1>8. TakenFromRows'
  BY <1>1, <1>2 DEF IInv, TakenFromRows, IsStored
<1> QED
  BY <1>4, <1>5, <1>6, <1>7, <1>8 DEF IInv

(* A send that reaches the database: the row is there once, and is there   *)
(* before the answer and the fan-out.                                      *)
LEMMA StorePreserves ==
  ASSUME IInv, NEW k \in Keys, NEW n \in 1 .. MaxTries, Store(k, n) PROVE IInv'
<1>1. stored \in Seq(Keys)
  BY DEF IInv, TypeOK
<1>2. /\ stored' \in Seq(Keys)
      /\ StoredOnce'
      /\ \A x \in Keys : IsStored(x)' <=> IsStored(x) \/ x = k
  <2>1. CASE IsStored(k)
    <3>1. stored' = stored
      BY <2>1 DEF Store, Inserted
    <3> QED
      BY <1>1, <2>1, <3>1 DEF IInv, StoredOnce, IsStored
  <2>2. CASE ~IsStored(k)
    <3>1. stored' = Append(stored, k)
      BY <2>2 DEF Store, Inserted
    <3>2. stored' \in Seq(Keys) /\ DOMAIN stored = 1 .. Len(stored) /\ Len(stored) \in Nat
      BY <1>1, <3>1
    <3>3. /\ DOMAIN stored' = 1 .. Len(stored) + 1
          /\ stored'[Len(stored) + 1] = k
          /\ \A i \in 1 .. Len(stored) : stored'[i] = stored[i]
      BY <1>1, <3>1
    <3>4. StoredOnce'
      BY <2>2, <3>2, <3>3 DEF IInv, StoredOnce, IsStored
    <3>5. \A x \in Keys : IsStored(x)' <=> IsStored(x) \/ x = k
      BY <3>2, <3>3 DEF IsStored
    <3> QED
      BY <3>2, <3>4, <3>5
  <2> QED
    BY <2>1, <2>2
<1>3. UNCHANGED <<readTo, tries, early, view, page, marks, sub, feed, faults, drops>>
  BY DEF Store, screenVars, socketVars, boundVars
<1>4. wire' \subseteq wire /\ fanout' = fanout \union {<<k, n>>} /\ <<k, n>> \in Attempts
  BY DEF Store, Attempts
<1>5. tries[k] # 0
  BY DEF Store, IInv, WrittenFirst
<1>6. /\ call' \in [Keys -> {"none", "out", "answered"}]
      /\ \A x \in Keys : x # k => call'[x] = call[x]
  BY DEF Store, IInv, TypeOK
<1>7. TypeOK'
  BY <1>2, <1>3, <1>4, <1>6 DEF IInv, TypeOK
<1>8. OneBubblePerMessage' /\ SentIsStored' /\ WrittenStays'
  BY <1>2, <1>3, ScreensStay
<1>9. WrittenFirst'
  <2> SUFFICES ASSUME NEW x \in Keys, tries'[x] = 0
               PROVE  /\ call'[x] = "none" /\ ~IsStored(x)'
                      /\ \A m \in 1 .. MaxTries : <<x, m>> \notin wire'
                      /\ \A e \in Devices : ~Shows(view'[e], x)
    BY DEF WrittenFirst, Shows
  <2>1. x # k /\ tries[x] = 0
    BY <1>3, <1>5
  <2> QED
    BY <1>2, <1>3, <1>4, <1>6, <2>1 DEF IInv, WrittenFirst
<1>10. TakenFromRows'
  <2>1. \A x \in Keys : call'[x] = "answered" => IsStored(x)'
    BY <1>2, <1>6 DEF IInv, TakenFromRows
  <2>2. \A a \in fanout' : IsStored(a[1])'
    <3> SUFFICES ASSUME NEW a \in fanout' PROVE IsStored(a[1])'
      BY DEF IsStored
    <3>1. a \in Attempts
      BY <1>4 DEF IInv, TypeOK
    <3>2. a[1] \in Keys
      BY <3>1 DEF Attempts
    <3>3. CASE a \in fanout
      BY <1>2, <3>2, <3>3 DEF IInv, TakenFromRows
    <3>4. CASE a = <<k, n>>
      BY <1>2, <3>4
    <3> QED
      BY <1>4, <3>3, <3>4
  <2>3. \A d \in Devices : \A i \in DOMAIN feed[d] : IsStored(feed[d][i])'
    <3> SUFFICES ASSUME NEW d \in Devices, NEW i \in DOMAIN feed[d] PROVE IsStored(feed[d][i])'
      BY DEF IsStored
    <3>1. feed[d] \in Seq(Keys)
      BY DEF IInv, TypeOK
    <3>2. feed[d][i] \in Keys
      BY <3>1
    <3>3. IsStored(feed[d][i])
      BY DEF IInv, TakenFromRows
    <3> QED
      BY <1>2, <1>3, <3>2, <3>3
  <2>4. \A d \in Devices : \A i \in DOMAIN page[d].rows : IsStored(page[d].rows[i])'
    <3> SUFFICES ASSUME NEW d \in Devices, NEW i \in DOMAIN page[d].rows
                 PROVE  IsStored(page[d].rows[i])'
      BY DEF IsStored
    <3>1. page[d].rows \in Seq(Keys)
      BY DEF IInv, TypeOK
    <3>2. page[d].rows[i] \in Keys
      BY <3>1
    <3>3. IsStored(page[d].rows[i])
      BY DEF IInv, TakenFromRows
    <3> QED
      BY <1>2, <1>3, <3>2, <3>3
  <2> QED
    BY <1>3, <2>1, <2>2, <2>3, <2>4 DEF IInv, TakenFromRows, IsStored
<1>11. EarlyIsKnown'
  BY <1>3 DEF IInv, EarlyIsKnown
<1> QED
  BY <1>2, <1>7, <1>8, <1>9, <1>10, <1>11 DEF IInv

(* The steps of a socket and of a page that leave screens and rows alone.  *)
LEMMA TransportPreserves ==
  ASSUME IInv,
         UNCHANGED <<stored, wire, callVars, view>>,
         readTo' \in [Devices -> Nat], marks' \subseteq Devices, fanout' \subseteq fanout,
         page' \in [Devices -> [at : {"asked", "read", "done"}, rows : Seq(Keys)]],
         \A d \in Devices : page'[d].rows \in {page[d].rows, stored, <<>>},
         \A d \in Devices : page'[d].at # "done" => page[d].at # "done",
         sub' \in [Devices -> {"asked", "yes", "no"}],
         feed' \in [Devices -> Seq(Keys)],
         \A d \in Devices : \A i \in DOMAIN feed'[d] : IsStored(feed'[d][i]),
         faults' \in 0 .. MaxFaults, drops' \in 0 .. MaxDrops
  PROVE  IInv'
<1>1. UNCHANGED <<call, tries, early>>
  BY DEF callVars
<1>2. TypeOK'
  BY <1>1 DEF IInv, TypeOK
<1>3. StoredOnce' /\ WrittenFirst'
  BY <1>1 DEF IInv, StoredOnce, WrittenFirst, IsStored, Shows
<1>4. OneBubblePerMessage' /\ SentIsStored' /\ WrittenStays'
  <2>1. \A k \in Keys : IsStored(k) => IsStored(k)'
    BY DEF IsStored
  <2> QED
    BY <1>1, <2>1, ScreensStay
<1>5. TakenFromRows'
  <2>1. \A d \in Devices : /\ \A i \in DOMAIN page'[d].rows : IsStored(page'[d].rows[i])
                           /\ \A i, j \in DOMAIN page'[d].rows :
                                page'[d].rows[i] = page'[d].rows[j] => i = j
    <3> SUFFICES ASSUME NEW d \in Devices
                 PROVE  /\ \A i \in DOMAIN page'[d].rows : IsStored(page'[d].rows[i])
                        /\ \A i, j \in DOMAIN page'[d].rows :
                             page'[d].rows[i] = page'[d].rows[j] => i = j
      OBVIOUS
    <3>1. CASE page'[d].rows = page[d].rows
      BY <3>1 DEF IInv, TakenFromRows
    <3>2. CASE page'[d].rows = stored
      BY <3>2 DEF IInv, StoredOnce, IsStored
    <3>3. CASE page'[d].rows = <<>>
      BY <3>3
    <3> QED
      BY <3>1, <3>2, <3>3
  <2> QED
    BY <1>1, <2>1 DEF IInv, TakenFromRows, IsStored
<1>6. EarlyIsKnown'
  BY <1>1, AuthorsAreDevices DEF IInv, EarlyIsKnown
<1> QED
  BY <1>2, <1>3, <1>4, <1>5, <1>6 DEF IInv

LEMMA BroadcastPreserves ==
  ASSUME IInv, NEW k \in Keys, NEW n \in 1 .. MaxTries, Broadcast(k, n) PROVE IInv'
<1>1. IsStored(k)
  <2>1. <<k, n>>[1] = k
    OBVIOUS
  <2> QED
    BY <2>1 DEF Broadcast, IInv, TakenFromRows
<1>2. UNCHANGED <<stored, wire, readTo, callVars, view, page, marks, sub, faults, drops>>
  BY DEF Broadcast, screenVars, boundVars
<1>3. fanout' \subseteq fanout
  BY DEF Broadcast
<1>4. \A d \in Devices : feed[d] \in Seq(Keys) /\ feed'[d] \in {feed[d], Append(feed[d], k)}
  BY DEF Broadcast, IInv, TypeOK
<1>5. feed' \in [Devices -> Seq(Keys)]
  <2>1. feed' = [d \in Devices |-> IF sub[d] = "yes" THEN Append(feed[d], k) ELSE feed[d]]
    BY DEF Broadcast
  <2>2. \A d \in Devices : Append(feed[d], k) \in Seq(Keys)
    BY <1>4
  <2> QED
    BY <1>4, <2>1, <2>2
<1>6. \A d \in Devices : \A i \in DOMAIN feed'[d] : IsStored(feed'[d][i])
  <2> SUFFICES ASSUME NEW d \in Devices, NEW i \in DOMAIN feed'[d] PROVE IsStored(feed'[d][i])
    OBVIOUS
  <2>1. CASE feed'[d] = feed[d]
    BY <2>1 DEF IInv, TakenFromRows
  <2>2. CASE feed'[d] = Append(feed[d], k)
    <3>1. (i \in DOMAIN feed[d] /\ feed'[d][i] = feed[d][i]) \/ feed'[d][i] = k
      BY <1>4, <2>2
    <3> QED
      BY <1>1, <3>1 DEF IInv, TakenFromRows
  <2> QED
    BY <1>4, <2>1, <2>2
<1> QED
  BY <1>2, <1>3, <1>5, <1>6, TransportPreserves DEF IInv, TypeOK

(* An echo shows a row, on a screen that may know it already.              *)
LEMMA ReceivePreserves == ASSUME IInv, NEW d \in Devices, Receive(d) PROVE IInv'
<1> DEFINE k == Head(feed[d])
           w == Echoed(view[d], k)
<1>1. feed[d] \in Seq(Keys) /\ feed[d] # <<>>
  BY DEF Receive, IInv, TypeOK
<1>2. k = feed[d][1] /\ 1 \in DOMAIN feed[d] /\ k \in Keys
  BY <1>1
<1>3. IsStored(k)
  BY <1>2 DEF IInv, TakenFromRows
<1>4. view[d] \in Seq(Bubbles) /\ NoTwice(view[d])
  BY DEF IInv, TypeOK, OneBubblePerMessage, NoTwice
<1>5. /\ w \in Seq(Bubbles)
      /\ NoTwice(w)
      /\ \A x \in Keys : Shows(w, x) <=> Shows(view[d], x) \/ x = k
      /\ \A i \in DOMAIN w : \/ i \in DOMAIN view[d] /\ w[i] = view[d][i]
                             \/ w[i].key = k
  BY <1>2, <1>4, EchoedShowsIt
<1>6. UNCHANGED <<stored, wire, fanout, readTo, call, tries, early, page, sub, faults, drops>> /\ Show(d, w)
  BY DEF Receive, serverVars, callVars, boundVars
<1>7. \A i \in DOMAIN w : w[i].delivery = "sent" => IsStored(w[i].key)
  BY <1>3, <1>5 DEF IInv, SentIsStored
<1>8. \A x \in Keys : Shows(w, x) => tries'[x] > 0
  <2> SUFFICES ASSUME NEW x \in Keys, Shows(view[d], x) \/ x = k PROVE tries[x] > 0
    BY <1>5, <1>6
  <2>1. tries[x] # 0 /\ tries[x] \in 0 .. MaxTries
    BY <1>3 DEF IInv, WrittenFirst, TypeOK
  <2> QED
    BY <2>1
<1>9. \A x \in Keys : Author[x] = d /\ tries'[x] > 0 /\ x \notin early' => Shows(w, x)
  BY <1>5, <1>6 DEF IInv, WrittenStays
<1>10. /\ view' \in [Devices -> Seq(Bubbles)]
       /\ marks' \subseteq Devices
       /\ OneBubblePerMessage'
       /\ SentIsStored'
       /\ WrittenStays'
       /\ \A x \in Keys, e \in Devices : Shows(view'[e], x) => tries'[x] > 0
  <2>1. tries' \in [Keys -> 0 .. MaxTries]
    BY <1>6 DEF IInv, TypeOK
  <2> QED
    BY <1>5, <1>6, <1>7, <1>8, <1>9, <2>1, ScreenChanges
<1>11. /\ feed' \in [Devices -> Seq(Keys)]
       /\ \A e \in Devices : \A i \in DOMAIN feed'[e] : IsStored(feed'[e][i])
  <2>1. feed' = [feed EXCEPT ![d] = Tail(feed[d])] /\ feed \in [Devices -> Seq(Keys)]
    BY DEF Receive, IInv, TypeOK
  <2>2. Tail(feed[d]) \in Seq(Keys)
    BY <1>1
  <2>3. \A i \in DOMAIN Tail(feed[d]) : i + 1 \in DOMAIN feed[d] /\ Tail(feed[d])[i] = feed[d][i + 1]
    BY <1>1
  <2>4. \A e \in Devices : feed'[e] = IF e = d THEN Tail(feed[d]) ELSE feed[e]
    BY <2>1
  <2>5. feed' \in [Devices -> Seq(Keys)]
    BY <2>1, <2>2
  <2> QED
    BY <2>3, <2>4, <2>5 DEF IInv, TakenFromRows
<1>12. TypeOK'
  BY <1>6, <1>10, <1>11 DEF IInv, TypeOK
<1>13. StoredOnce' /\ EarlyIsKnown'
  BY <1>6 DEF IInv, StoredOnce, EarlyIsKnown
<1>14. WrittenFirst'
  BY <1>6, <1>10 DEF IInv, WrittenFirst, IsStored, Shows
<1>15. TakenFromRows'
  BY <1>6, <1>11 DEF IInv, TakenFromRows, IsStored
<1> QED
  BY <1>10, <1>12, <1>13, <1>14, <1>15 DEF IInv

(* The first page replaces the screen, with nothing written since it was   *)
(* loaded.                                                                 *)
LEMMA PageArrivesPreserves == ASSUME IInv, NEW d \in Devices, PageArrives(d) PROVE IInv'
<1> DEFINE rows == page[d].rows
           w == [i \in DOMAIN rows |-> Bubble(rows[i], "sent")]
<1>1. rows \in Seq(Keys) /\ \A i, j \in DOMAIN rows : rows[i] = rows[j] => i = j
  BY DEF IInv, TypeOK, TakenFromRows
<1>2. \A i \in DOMAIN rows : IsStored(rows[i])
  BY DEF IInv, TakenFromRows
<1>3. /\ w \in Seq(Bubbles)
      /\ NoTwice(w)
      /\ \A i \in DOMAIN w : i \in DOMAIN rows /\ w[i].key = rows[i]
  BY <1>1, PageIsRows
<1>4. UNCHANGED <<stored, wire, fanout, readTo, call, tries, early, sub, feed, faults, drops>> /\ Show(d, w)
  BY DEF PageArrives, serverVars, callVars, socketVars, boundVars
<1>5. \A i \in DOMAIN w : w[i].delivery = "sent" => IsStored(w[i].key)
  BY <1>2, <1>3
<1>6. \A x \in Keys : Shows(w, x) => tries'[x] > 0
  <2> SUFFICES ASSUME NEW x \in Keys, Shows(w, x) PROVE tries[x] > 0
    BY <1>4
  <2>1. IsStored(x)
    BY <1>2, <1>3 DEF Shows
  <2>2. tries[x] # 0 /\ tries[x] \in 0 .. MaxTries
    BY <2>1 DEF IInv, WrittenFirst, TypeOK
  <2> QED
    BY <2>2
<1>7. \A x \in Keys : Author[x] = d /\ tries'[x] > 0 /\ x \notin early' => Shows(w, x)
  BY <1>4 DEF PageArrives, IInv, EarlyIsKnown
<1>8. /\ view' \in [Devices -> Seq(Bubbles)]
      /\ marks' \subseteq Devices
      /\ OneBubblePerMessage'
      /\ SentIsStored'
      /\ WrittenStays'
      /\ \A x \in Keys, e \in Devices : Shows(view'[e], x) => tries'[x] > 0
  <2>1. tries' \in [Keys -> 0 .. MaxTries]
    BY <1>4 DEF IInv, TypeOK
  <2> QED
    BY <1>3, <1>4, <1>5, <1>6, <1>7, <2>1, ScreenChanges
<1>9. /\ page' \in [Devices -> [at : {"asked", "read", "done"}, rows : Seq(Keys)]]
      /\ page'[d].at = "done" /\ page'[d].rows = <<>>
      /\ \A e \in Devices : e # d => page'[e] = page[e]
  BY DEF PageArrives, IInv, TypeOK
<1>10. TypeOK'
  BY <1>4, <1>8, <1>9 DEF IInv, TypeOK
<1>11. StoredOnce'
  BY <1>4 DEF IInv, StoredOnce
<1>12. WrittenFirst'
  BY <1>4, <1>8 DEF IInv, WrittenFirst, IsStored, Shows
<1>13. TakenFromRows'
  <2>1. \A e \in Devices : page'[e].rows \in {page[e].rows, <<>>}
    BY <1>9
  <2> QED
    BY <1>4, <2>1 DEF IInv, TakenFromRows, IsStored
<1>14. EarlyIsKnown'
  BY <1>4, <1>9, AuthorsAreDevices DEF IInv, EarlyIsKnown
<1> QED
  BY <1>8, <1>10, <1>11, <1>12, <1>13, <1>14 DEF IInv

LEMMA PagePreserves ==
  ASSUME IInv, NEW d \in Devices, ReadPage(d) \/ PageFails(d) PROVE IInv'
<1>1. UNCHANGED <<stored, wire, fanout, readTo, callVars, view, marks, sub, feed, drops>>
  BY DEF ReadPage, PageFails, serverVars, socketVars, boundVars
<1>2. faults' \in 0 .. MaxFaults
  BY BoundsAreNat DEF ReadPage, PageFails, boundVars, IInv, TypeOK
<1>3. page \in [Devices -> [at : {"asked", "read", "done"}, rows : Seq(Keys)]] /\ stored \in Seq(Keys)
  BY DEF IInv, TypeOK
<1>4. /\ page' \in [Devices -> [at : {"asked", "read", "done"}, rows : Seq(Keys)]]
      /\ \A e \in Devices : page'[e].rows \in {page[e].rows, stored, <<>>}
      /\ \A e \in Devices : page'[e].at # "done" => page[e].at # "done"
  <2>1. CASE ReadPage(d)
    BY <1>3, <2>1 DEF ReadPage
  <2>2. CASE PageFails(d)
    BY <1>3, <2>2 DEF PageFails
  <2> QED
    BY <2>1, <2>2
<1>5. \A e \in Devices : \A i \in DOMAIN feed'[e] : IsStored(feed'[e][i])
  BY <1>1 DEF IInv, TakenFromRows
<1> QED
  BY <1>1, <1>2, <1>4, <1>5, TransportPreserves DEF IInv, TypeOK

LEMMA SocketPreserves ==
  ASSUME IInv, NEW d \in Devices, Subscribe(d) \/ Reconnect(d) \/ MarkRead(d) PROVE IInv'
<1>1. UNCHANGED <<stored, wire, fanout, callVars, view, page, faults>>
  BY DEF Subscribe, Reconnect, MarkRead, serverVars, screenVars, boundVars
<1>2. drops' \in 0 .. MaxDrops
  BY BoundsAreNat DEF Subscribe, Reconnect, MarkRead, boundVars, IInv, TypeOK
<1>3. readTo' \in [Devices -> Nat]
  <2>1. Len(stored) \in Nat
    BY DEF IInv, TypeOK
  <2> QED
    BY <2>1 DEF Subscribe, Reconnect, MarkRead, serverVars, IInv, TypeOK
<1>4. marks' \subseteq Devices /\ sub' \in [Devices -> {"asked", "yes", "no"}]
  <2>1. marks' \subseteq marks
    BY DEF Subscribe, Reconnect, MarkRead, screenVars
  <2>2. sub' \in [Devices -> {"asked", "yes", "no"}]
    BY DEF Subscribe, Reconnect, MarkRead, socketVars, IInv, TypeOK
  <2> QED
    BY <2>1, <2>2 DEF IInv, TypeOK
<1>5. feed' \in [Devices -> Seq(Keys)] /\ \A e \in Devices : feed'[e] \in {feed[e], <<>>}
  <2>1. feed \in [Devices -> Seq(Keys)] /\ <<>> \in Seq(Keys)
    BY DEF IInv, TypeOK
  <2>2. CASE feed' = feed
    BY <2>1, <2>2
  <2>3. CASE feed' = [feed EXCEPT ![d] = <<>>]
    BY <2>1, <2>3
  <2> QED
    BY <2>2, <2>3 DEF Subscribe, Reconnect, MarkRead, socketVars
<1>6. \A e \in Devices : \A i \in DOMAIN feed'[e] : IsStored(feed'[e][i])
  BY <1>5 DEF IInv, TakenFromRows
<1> QED
  BY <1>1, <1>2, <1>3, <1>4, <1>5, <1>6, TransportPreserves DEF IInv, TypeOK

(* Every step keeps the inductive invariant.                               *)
LEMMA StepPreserves == IInv /\ [Next]_vars => IInv'
<1> SUFFICES ASSUME IInv, [Next]_vars PROVE IInv'
  OBVIOUS
<1>1. ASSUME NEW k \in Keys, SendStep(k) PROVE IInv'
  <2>1. CASE Send(k)
    BY <2>1, SendPreserves
  <2>2. CASE Retry(k)
    BY <2>2, RetryPreserves
  <2>3. CASE Answered(k)
    BY <2>3, AnsweredPreserves
  <2>4. CASE TryAgain(k)
    BY <2>4, TryAgainPreserves
  <2>5. CASE GiveUp(k)
    BY <2>5, GiveUpPreserves
  <2>6. ASSUME NEW n \in 1 .. MaxTries, Store(k, n) PROVE IInv'
    BY <2>6, StorePreserves
  <2>7. ASSUME NEW n \in 1 .. MaxTries, Broadcast(k, n) PROVE IInv'
    BY <2>7, BroadcastPreserves
  <2> QED
    BY <1>1, <2>1, <2>2, <2>3, <2>4, <2>5, <2>6, <2>7 DEF SendStep
<1>2. ASSUME NEW d \in Devices, ScreenStep(d) PROVE IInv'
  <2>1. CASE Receive(d)
    BY <2>1, ReceivePreserves
  <2>2. CASE ReadPage(d) \/ PageFails(d)
    BY <2>2, PagePreserves
  <2>3. CASE PageArrives(d)
    BY <2>3, PageArrivesPreserves
  <2>4. CASE Subscribe(d) \/ Reconnect(d) \/ MarkRead(d)
    BY <2>4, SocketPreserves
  <2> QED
    BY <1>2, <2>1, <2>2, <2>3, <2>4 DEF ScreenStep
<1>3. CASE UNCHANGED vars
  BY <1>3 DEF vars, serverVars, callVars, screenVars, socketVars, boundVars, IInv, TypeOK, StoredOnce,
     OneBubblePerMessage, SentIsStored, WrittenStays, WrittenFirst, TakenFromRows, EarlyIsKnown,
     IsStored, Shows
<1> QED
  BY <1>1, <1>2, <1>3 DEF Next

-----------------------------------------------------------------------------
(* The theorems.                                                           *)

(* The inductive invariant holds throughout.                               *)
THEOREM ChatInvariant == Spec => []IInv
BY InitEstablishes, StepPreserves, PTL DEF Spec

(* Bubble, answer, page and echoes collapse into one bubble per screen.    *)
THEOREM ChatShowsOnce == Spec => []OneBubblePerMessage
<1>1. IInv => OneBubblePerMessage
  BY DEF IInv
<1> QED
  BY <1>1, ChatInvariant, PTL

(* No screen says sent of a message the server does not have.              *)
THEOREM ChatSentIsStored == Spec => []SentIsStored
<1>1. IInv => SentIsStored
  BY DEF IInv
<1> QED
  BY <1>1, ChatInvariant, PTL

(* What is written on a loaded screen stays on it.                         *)
THEOREM ChatWrittenStays == Spec => []WrittenStays
<1>1. IInv => WrittenStays
  BY DEF IInv
<1> QED
  BY <1>1, ChatInvariant, PTL
=============================================================================
