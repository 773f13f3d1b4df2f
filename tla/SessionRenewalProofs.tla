------------------------ MODULE SessionRenewalProofs ------------------------
(***************************************************************************)
(* The renewals of one browser never sign it out, for any number of tabs,  *)
(* calls and faults.  IInv is inductive: while nobody ends the session, no *)
(* answer is lost and no signed-in tab is refused for its CSRF token, the  *)
(* Web Lock makes the renewals a sequence, and the cookie is the token of  *)
(* the record whenever nobody holds the lock.                              *)
(***************************************************************************)
EXTENDS SessionRenewal, TLAPS

(* An old token is not the current one, and a missing one stays missing. *)
LEMMA AgedTokens ==
  ASSUME NEW token \in Tokens \cup {NoToken}
  PROVE  /\ Aged(token) \in Tokens \cup {NoToken}
         /\ Aged(token) = NoToken <=> token = NoToken
BY DEF Aged, Tokens, NoToken, Current, Old

(* The browser was signed in when it was opened. *)
LEMMA InitEstablishes == Init => IInv
<1> SUFFICES ASSUME Init PROVE IInv
  OBVIOUS
<1>1. Current \in Tokens /\ Current # NoToken
  BY DEF Tokens, Current, NoToken
<1>2. TypeOK
  <2>1. NoCall \in CallType
    BY DEF NoCall, CallType
  <2>2. stored \in {Current, NoToken} /\ cookie \in Tokens \cup {NoToken}
    BY <1>1 DEF Init
  <2>3. faults \in 0 .. MaxFaults
    BY FaultsType DEF Init
  <2> QED
    BY <2>1, <2>2, <2>3 DEF Init, TypeOK
<1>3. NotSignedOutByItself
  BY DEF Init, NotSignedOutByItself
<1>4. NothingEnds /\ OneRenewal /\ CookieIsCurrent
  BY <1>1, RenewalsType DEF Init, NothingEnds, OneRenewal, CookieIsCurrent, NoCall
<1> QED
  BY <1>2, <1>3, <1>4 DEF IInv

-----------------------------------------------------------------------------
(* Types                                                                   *)

(* A step that changes one call, and leaves it a call, keeps their type. *)
LEMMA CallUpdated ==
  ASSUME TypeOK, NEW r \in Renewals, NEW c \in CallType, call' = [call EXCEPT ![r] = c]
  PROVE  call' \in [Renewals -> CallType]
BY DEF TypeOK

LEMMA BrowserKeepsTypes ==
  ASSUME TypeOK, NEW r \in Renewals,
         StartRestore(r) \/ StartRefresh(r) \/ BrowserStep(r) \/ Discard(r)
  PROVE  TypeOK'
<1> USE DEF TypeOK
<1>1. NoCall \in CallType
  BY DEF NoCall, CallType
<1>2. CASE StartRestore(r)
  BY <1>2 DEF StartRestore, redisVars, userVars, browserVars, csrfVars, history, CallType
<1>3. CASE StartRefresh(r)
  BY <1>3, <1>1 DEF StartRefresh, redisVars, userVars, browserVars, csrfVars, history, CallType, NoCall
<1>4. CASE PostAlone(r)
  <2>1. call' \in [Renewals -> CallType]
    <3> DEFINE c == [client |-> "waiting", kind |-> call[r].kind, token |-> cookie,
                     server |-> CASE TabOf[r] \in stale -> "forbidden"
                                  [] TabOf[r] \notin stale /\ cookie = NoToken -> "no"
                                  [] OTHER -> "get"]
    <3>1. c \in CallType
      BY DEF CallType, Working, Answers
    <3>2. call' = [call EXCEPT ![r] = c]
      BY <1>4 DEF PostAlone, Post
    <3> HIDE DEF c
    <3> QED
      BY <3>1, <3>2
  <2> QED
    BY <1>4, <2>1 DEF PostAlone, Post, redisVars, userVars, csrfVars, history
<1>5. CASE Deliver(r)
  <2>1. call' \in [Renewals -> CallType]
    BY <1>5, <1>1 DEF Deliver
  <2>2. cookie' \in Tokens \cup {NoToken}
    BY <1>5 DEF Deliver, CallType, Answers
  <2>3. status' \in [Tabs -> {"restoring", "authenticated", "anonymous"}]
    <3>1. Settle(r, call[r].server)
      BY <1>5 DEF Deliver
    <3> QED
      BY <3>1 DEF Settle, Finish
  <2>4. lock' \in Renewals \cup {Free}
    BY <1>5 DEF Deliver, Unlocked
  <2>5. stale' \subseteq Tabs /\ retried' \subseteq Tabs
    BY <1>5, RenewalsType DEF Deliver
  <2>6. refused' \in BOOLEAN
    BY <1>5, Zenon DEF Deliver
  <2> QED
    BY <1>5, <2>1, <2>2, <2>3, <2>4, <2>5, <2>6 DEF Deliver, redisVars, userVars
<1>6. CASE Discard(r)
  BY <1>6, <1>1 DEF Discard, redisVars, userVars, browserVars, csrfVars, history
<1> QED
  BY <1>2, <1>3, <1>4, <1>5, <1>6 DEF BrowserStep

LEMMA ServerKeepsTypes ==
  ASSUME TypeOK, NEW r \in Renewals, ServerStep(r) \/ ServerFails(r) \/ GiveUp(r)
  PROVE  TypeOK'
<1> USE DEF TypeOK
<1>1. Current \in Tokens
  BY DEF Tokens
<1>2. call' \in [Renewals -> CallType]
  <2>1. CASE Rotate(r)
    <3> DEFINE fresh == [call[r] EXCEPT !.server = "user", !.token = Current]
               aged(q) == [call[q] EXCEPT !.token = Aged(@)]
    <3>1. fresh \in CallType
      BY <1>1 DEF CallType, Working
    <3>2. \A q \in Renewals : aged(q) \in CallType
      BY AgedTokens DEF CallType
    <3>3. call' = [q \in Renewals |-> IF q = r THEN fresh ELSE aged(q)]
      BY <2>1 DEF Rotate
    <3> HIDE DEF fresh, aged
    <3> QED
      BY <3>1, <3>2, <3>3
  <2>2. CASE GiveUp(r)
    BY <2>2 DEF GiveUp, CallType
  <2>3. CASE ServerFails(r)
    BY <2>3 DEF ServerFails, Serve, CallType, Working, Answers
  <2>4. CASE ReadSession(r)
    BY <2>4 DEF ReadSession, Serve, CallType, Working, Answers
  <2>5. CASE ReadFamily(r)
    BY <2>5 DEF ReadFamily, Serve, CallType, Working, Answers
  <2>6. CASE FindSession(r)
    BY <2>6 DEF FindSession, Serve, CallType, Working, Answers
  <2>7. CASE EndSession(r)
    BY <2>7 DEF EndSession, Serve, CallType, Working, Answers
  <2>8. CASE FindUser(r)
    BY <2>8 DEF FindUser, Serve, CallType, Working, Answers
  <2>9. CASE NoSession(r)
    BY <2>9 DEF NoSession, Serve, CallType, Working, Answers
  <2> QED
    BY <2>1, <2>2, <2>3, <2>4, <2>5, <2>6, <2>7, <2>8, <2>9 DEF ServerStep
<1>3. stored' \in {Current, NoToken} /\ family' \in BOOLEAN
  BY <1>1 DEF ServerStep, ServerFails, GiveUp, ReadSession, Rotate, ReadFamily, FindSession, NoSession, EndSession,
     FindUser, redisVars
<1>4. faults' \in 0 .. MaxFaults /\ over' \in BOOLEAN
  BY FaultsType DEF ServerStep, ServerFails, GiveUp, ReadSession, Rotate, ReadFamily, FindSession, NoSession, EndSession,
     FindUser, history, Fault
<1>5. lost' \in BOOLEAN /\ refused' \in BOOLEAN
  BY Zenon DEF ServerStep, ServerFails, GiveUp, ReadSession, Rotate, ReadFamily, FindSession, NoSession, EndSession,
     FindUser, history
<1>6. UNCHANGED <<active, deletion, status, signOut>>
  BY DEF ServerStep, ServerFails, GiveUp, ReadSession, Rotate, ReadFamily, FindSession, NoSession, EndSession,
     FindUser, userVars, browserVars
<1>8. cookie' \in Tokens \cup {NoToken}
  BY AgedTokens DEF ServerStep, ServerFails, GiveUp, ReadSession, Rotate, ReadFamily, FindSession, NoSession,
     EndSession, FindUser, browserVars
<1>9. stale' \subseteq Tabs /\ retried' \subseteq Tabs
  BY DEF ServerStep, ServerFails, GiveUp, ReadSession, Rotate, ReadFamily, FindSession, NoSession, EndSession,
     FindUser, browserVars, csrfVars
<1>7. lock' \in Renewals \cup {Free}
  BY DEF ServerStep, ServerFails, GiveUp, ReadSession, Rotate, ReadFamily, FindSession, NoSession, EndSession,
     FindUser, browserVars, Unlocked
<1> QED
  BY <1>2, <1>3, <1>4, <1>5, <1>6, <1>7, <1>8, <1>9

LEMMA TabKeepsTypes ==
  ASSUME TypeOK, NEW t \in Tabs, Reload(t) \/ SignOut(t) \/ SignOutStep(t) \/ SignOutFails(t)
  PROVE  TypeOK'
<1> USE DEF TypeOK
<1>1. CASE Reload(t)
  <2>1. call' \in [Renewals -> CallType]
    BY <1>1 DEF Reload, CallType, NoCall
  <2>2. lock' \in Renewals \cup {Free}
    BY <1>1 DEF Reload
  <2>3. lost' \in BOOLEAN
    BY <1>1 DEF Reload
  <2>4. faults' \in 0 .. MaxFaults
    BY <1>1, FaultsType DEF Reload, Fault
  <2> QED
    BY <1>1, <2>1, <2>2, <2>3, <2>4 DEF Reload, redisVars, userVars
<1>2. CASE SignOut(t)
  BY <1>2 DEF SignOut, redisVars, userVars, browserVars, csrfVars
<1>3. CASE SignOutReads(t)
  BY <1>3 DEF SignOutReads, redisVars, userVars, browserVars, csrfVars, history
<1>4. CASE SignOutDeletes(t)
  BY <1>4 DEF SignOutDeletes, userVars, browserVars, csrfVars, history
<1>5. CASE SignedOut(t)
  BY <1>5 DEF SignedOut, ClearTab, redisVars, userVars, history
<1>6. CASE SignOutFails(t)
  BY <1>6, FaultsType DEF SignOutFails, ClearTab, Fault, redisVars, userVars
<1> QED
  BY <1>1, <1>2, <1>3, <1>4, <1>5, <1>6 DEF SignOutStep

LEMMA EndKeepsTypes ==
  ASSUME TypeOK, DeleteAccount \/ DeletionStep \/ FamilyExpires PROVE TypeOK'
BY DEF TypeOK, DeleteAccount, DeletionStep, ListSessions, RevokeSessions, FamilyExpires,
   redisVars, userVars, browserVars, csrfVars, history

LEMMA EventKeepsTypes ==
  ASSUME TypeOK, (\E old \in SUBSET Tabs : GoStale(old)) \/ (\E R \in SUBSET Renewals : Online(R))
  PROVE  TypeOK'
<1> USE FaultsType DEF TypeOK
<1>1. CASE \E old \in SUBSET Tabs : GoStale(old)
  BY <1>1 DEF GoStale, Fault, redisVars, userVars
<1>2. CASE \E R \in SUBSET Renewals : Online(R)
  BY <1>2 DEF Online, Fault, redisVars, userVars, browserVars, csrfVars, CallType, NoCall
<1> QED
  BY <1>1, <1>2

LEMMA TypesArePreserved == TypeOK /\ [Next]_vars => TypeOK'
<1>1. ASSUME TypeOK, UNCHANGED vars PROVE TypeOK'
  BY <1>1 DEF TypeOK, vars, redisVars, userVars, browserVars, csrfVars, history
<1> QED
  BY <1>1, BrowserKeepsTypes, ServerKeepsTypes, TabKeepsTypes, EndKeepsTypes, EventKeepsTypes DEF Next

-----------------------------------------------------------------------------
(* The Web Lock makes the renewals a sequence                              *)

SignedIn == \A t \in Tabs : status[t] # "anonymous"
Sound    == NothingEnds /\ OneRenewal /\ CookieIsCurrent /\ SignedIn

(* What has once disturbed the session stays on record. *)
LEMMA DisturbedStays ==
  ASSUME IInv, [Next]_vars, Undisturbed' PROVE Undisturbed /\ Sound
<1>1. (over => over') /\ (lost => lost') /\ (refused => refused')
  <2>1. ASSUME NEW r \in Renewals, StartRestore(r) \/ StartRefresh(r) \/ BrowserStep(r) \/ Discard(r)
        PROVE  UNCHANGED <<over, lost>> /\ (refused => refused')
    <3>1. CASE Deliver(r)
      <4>1. refused => refused'
        BY <3>1, Zenon DEF Deliver
      <4> QED
        BY <3>1, <4>1 DEF Deliver
    <3>2. CASE StartRestore(r) \/ StartRefresh(r) \/ PostAlone(r) \/ Discard(r)
      BY <3>2 DEF StartRestore, StartRefresh, PostAlone, Post, Discard, history
    <3> QED
      BY <2>1, <3>1, <3>2 DEF BrowserStep
  <2>2. ASSUME NEW r \in Renewals, ServerStep(r) PROVE UNCHANGED <<over, lost, refused>>
    BY <2>2 DEF ServerStep, ReadSession, Rotate, ReadFamily, FindSession, NoSession, EndSession, FindUser, history
  <2>3. ASSUME NEW r \in Renewals, ServerFails(r) \/ GiveUp(r)
        PROVE  UNCHANGED <<over, refused>> /\ (lost => lost')
    BY <2>3 DEF ServerFails, GiveUp
  <2>4. ASSUME NEW t \in Tabs, Reload(t) PROVE UNCHANGED <<over, refused>> /\ (lost => lost')
    BY <2>4 DEF Reload
  <2>5. ASSUME NEW t \in Tabs, SignOut(t) \/ SignOutStep(t) \/ SignOutFails(t)
        PROVE  (over => over') /\ UNCHANGED <<lost, refused>>
    BY <2>5 DEF SignOut, SignOutStep, SignOutReads, SignOutDeletes, SignedOut, SignOutFails, history
  <2>6. ASSUME DeleteAccount \/ DeletionStep \/ FamilyExpires PROVE (over => over') /\ UNCHANGED <<lost, refused>>
    BY <2>6 DEF DeleteAccount, DeletionStep, ListSessions, RevokeSessions, FamilyExpires, history
  <2>7. ASSUME UNCHANGED vars PROVE UNCHANGED <<over, lost, refused>>
    BY <2>7 DEF vars, history
  <2>8. ASSUME (\E old \in SUBSET Tabs : GoStale(old)) \/ (\E R \in SUBSET Renewals : Online(R))
        PROVE  UNCHANGED <<over, lost, refused>>
    BY <2>8 DEF GoStale, Online
  <2> QED
    BY <2>1, <2>2, <2>3, <2>4, <2>5, <2>6, <2>7, <2>8 DEF Next
<1>2. Undisturbed
  BY <1>1 DEF Undisturbed
<1> QED
  BY <1>2 DEF IInv, Sound, SignedIn, NotSignedOutByItself

(* Nobody ends the session: the steps that would are not enabled. *)
LEMMA NobodyEndsIt ==
  ASSUME Sound, [Next]_vars, Undisturbed'
  PROVE  /\ NothingEnds'
         /\ \A t \in Tabs : ~SignOut(t) /\ ~SignOutStep(t) /\ ~SignOutFails(t)
         /\ ~DeleteAccount /\ ~DeletionStep
<1>1. \A t \in Tabs : ~SignOut(t) /\ ~SignOutStep(t) /\ ~SignOutFails(t)
  BY DEF Sound, NothingEnds, Undisturbed, SignOut, SignOutStep, SignOutReads, SignOutDeletes, SignedOut,
     SignOutFails
<1>2. ~DeleteAccount /\ ~DeletionStep
  BY DEF Sound, NothingEnds, Undisturbed, DeleteAccount, DeletionStep, ListSessions, RevokeSessions
<1>3. UNCHANGED <<active, deletion, signOut>>
  BY <1>1, <1>2, Zenon DEF Next, vars, userVars, BrowserStep, ServerStep,
     StartRestore, StartRefresh, PostAlone, Post, Deliver, Discard, ReadSession, Rotate, ReadFamily,
     FindSession, NoSession, EndSession, FindUser, FamilyExpires, ServerFails, GiveUp, GoStale, Online, Reload
<1> QED
  BY <1>1, <1>2, <1>3 DEF Sound, NothingEnds

(* Asking: the cookie that leaves is the token of the record. *)
LEMMA AskingIsSound ==
  ASSUME TypeOK, Sound, Undisturbed, NEW r \in Renewals,
         StartRestore(r) \/ StartRefresh(r) \/ PostAlone(r)
  PROVE  OneRenewal' /\ CookieIsCurrent' /\ SignedIn'
<1> USE RenewalsType DEF TypeOK, Sound
<1>1. CASE StartRestore(r)
  <2>1. \A q \in Renewals : call'[q] = IF q = r THEN [NoCall EXCEPT !.client = "locking"] ELSE call[q]
    BY <1>1 DEF StartRestore
  <2>2. call[r].client = "idle" /\ call'[r].client = "locking" /\ call'[r].server = "none"
    BY <1>1, <2>1 DEF StartRestore, NoCall
  <2>3. UNCHANGED <<stored, cookie, lock, status>>
    BY <1>1 DEF StartRestore, redisVars, browserVars
  <2> QED
    BY <2>1, <2>2, <2>3 DEF OneRenewal, CookieIsCurrent, SignedIn
<1>2. CASE StartRefresh(r)
  <2>1. \A q \in Renewals :
          call'[q] = IF q = r THEN [NoCall EXCEPT !.client = "locking", !.kind = "refresh"] ELSE call[q]
    BY <1>2 DEF StartRefresh
  <2>2. call[r].client = "idle" /\ call'[r].client = "locking" /\ call'[r].server = "none"
    BY <1>2, <2>1 DEF StartRefresh, NoCall
  <2>3. UNCHANGED <<stored, cookie, lock, status>>
    BY <1>2 DEF StartRefresh, redisVars, browserVars
  <2> QED
    BY <2>1, <2>2, <2>3 DEF OneRenewal, CookieIsCurrent, SignedIn
<1>3. CASE PostAlone(r)
  <2>1. lock = Free /\ lock' = r /\ UNCHANGED <<stored, cookie, status>>
    BY <1>3 DEF PostAlone, Post, redisVars, Undisturbed
  <2>2. \A q \in Renewals \ {r} : call'[q] = call[q]
    BY <1>3 DEF PostAlone, Post
  <2>3. call'[r].client = "waiting" /\ call'[r].token = cookie /\ call'[r].server \in {"get", "forbidden"}
    <3>1. cookie # NoToken
      BY DEF CookieIsCurrent
    <3> QED
      BY <1>3, <3>1 DEF PostAlone, Post
  <2> QED
    BY <2>1, <2>2, <2>3 DEF OneRenewal, CookieIsCurrent, SignedIn
<1> QED
  BY <1>1, <1>2, <1>3

(* The server: it meets its own token, and the account it belongs to. *)
LEMMA ServingIsSound ==
  ASSUME TypeOK, Sound, NEW r \in Renewals, ServerStep(r)
  PROVE  OneRenewal' /\ CookieIsCurrent' /\ SignedIn'
<1> USE RenewalsType DEF TypeOK, Sound
<1>1. UNCHANGED <<lock, status>> /\ (cookie # NoToken => cookie' # NoToken)
  BY AgedTokens DEF ServerStep, ReadSession, Rotate, ReadFamily, FindSession, NoSession, EndSession, FindUser,
     browserVars
<1>2. \A q \in Renewals \ {r} : call'[q].client = call[q].client /\ call'[q].server = call[q].server
  BY DEF ServerStep, ReadSession, Rotate, ReadFamily, FindSession, NoSession, EndSession, FindUser, Serve, CallType
<1>3. call[r].server # "none"
  BY DEF ServerStep, ReadSession, Rotate, ReadFamily, FindSession, NoSession, EndSession, FindUser
<1>4. call[r].client = "waiting" /\ lock = r
  BY <1>3 DEF OneRenewal
<1>5. call'[r].client = "waiting"
  BY <1>4 DEF ServerStep, ReadSession, Rotate, ReadFamily, FindSession, NoSession, EndSession, FindUser, Serve, CallType
<1>6. /\ stored' # NoToken
      /\ \/ call'[r].server \in {"get", "set", "error", "forbidden"} /\ call'[r].token = stored' /\ cookie' = stored'
         \/ call'[r].server \in {"user", "ok"} /\ call'[r].token = stored'
  <2>1. CASE ReadSession(r)
    <3>1. call[r].token = stored /\ cookie = stored /\ stored # NoToken
      BY <1>4, <2>1 DEF ReadSession, CookieIsCurrent
    <3>2. stored' = stored /\ cookie' = cookie /\ call'[r].server = "set" /\ call'[r].token = call[r].token
      BY <2>1, <3>1 DEF ReadSession, Serve, redisVars, browserVars, CallType
    <3> QED
      BY <3>1, <3>2
  <2>2. CASE Rotate(r)
    <3>1. call'[r].server = "user" /\ call'[r].token = stored'
      BY <2>2 DEF Rotate, CallType
    <3> QED
      BY <2>2, <3>1 DEF Rotate, Current, NoToken
  <2>3. CASE FindUser(r)
    <3>1. call[r].token = stored /\ stored # NoToken
      BY <1>4, <2>3 DEF FindUser, CookieIsCurrent
    <3>2. stored' = stored /\ call'[r].server = "ok" /\ call'[r].token = call[r].token
      BY <2>3 DEF FindUser, Serve, redisVars, CallType, NothingEnds
    <3> QED
      BY <3>1, <3>2
  <2>4. call[r].server \in {"get", "set", "error", "forbidden", "user", "ok"}
    BY <1>4 DEF CookieIsCurrent
  <2>5. ~ReadFamily(r) /\ ~FindSession(r) /\ ~NoSession(r) /\ ~EndSession(r)
    BY <2>4 DEF ReadFamily, FindSession, NoSession, EndSession
  <2> QED
    BY <2>1, <2>2, <2>3, <2>5 DEF ServerStep
<1> QED
  BY <1>1, <1>2, <1>4, <1>5, <1>6 DEF OneRenewal, CookieIsCurrent, SignedIn

(* The answer: a new cookie, or an error that leaves both tokens alone. *)
LEMMA AnsweringIsSound ==
  ASSUME TypeOK, Sound, Undisturbed', NEW r \in Renewals, Deliver(r)
  PROVE  OneRenewal' /\ CookieIsCurrent' /\ SignedIn'
<1> USE RenewalsType DEF TypeOK, Sound
<1>1. call[r].client = "waiting" /\ lock = r /\ lock' = Free
  BY DEF Deliver, OneRenewal, Unlocked
<1>2. call[r].server \in {"error", "forbidden", "ok"}
  BY <1>1 DEF Deliver, CookieIsCurrent, Answers
<1>3. stored' = stored /\ cookie' = stored
  BY <1>1, <1>2 DEF Deliver, CookieIsCurrent, redisVars
<1>4. \A q \in Renewals : call'[q] = IF q = r THEN NoCall ELSE call[q]
  BY DEF Deliver
<1>5. OneRenewal'
  BY <1>1, <1>4 DEF OneRenewal, NoCall
<1>6. CookieIsCurrent'
  BY <1>1, <1>3 DEF CookieIsCurrent
<1>7. call[r].server = "forbidden" => TriesAgain(r)
  BY DEF Deliver, Undisturbed, TriesAgain, CallType
<1>8. SignedIn'
  <2>1. Settle(r, call[r].server)
    BY DEF Deliver
  <2>2. \/ UNCHANGED status
        \/ \E t \in Tabs :
             \/ status' = [status EXCEPT ![t] = IF @ = "restoring" THEN "authenticated" ELSE @]
             \/ status' = [status EXCEPT ![t] = "authenticated"]
    BY <1>2, <1>7, <2>1 DEF Settle, Finish
  <2> QED
    BY <2>2 DEF SignedIn
<1> QED
  BY <1>5, <1>6, <1>8

(* Failures that lose no answer. *)
LEMMA FailingIsSound ==
  ASSUME TypeOK, Sound, Undisturbed', NEW r \in Renewals, ServerFails(r) \/ GiveUp(r) \/ Discard(r)
  PROVE  OneRenewal' /\ CookieIsCurrent' /\ SignedIn'
<1> USE RenewalsType DEF TypeOK, Sound
<1>1. ~GiveUp(r)
  BY DEF GiveUp, Undisturbed
<1>2. ~Discard(r)
  BY DEF Discard, OneRenewal, Answers
<1>3. ServerFails(r)
  BY <1>1, <1>2
<1>4. UNCHANGED <<stored, cookie, lock, status>> /\ call[r].server \in Working
  BY <1>3 DEF ServerFails, redisVars, browserVars
<1>5. ~HasRotated(r)
  BY <1>3 DEF ServerFails, Undisturbed
<1>6. \A q \in Renewals \ {r} : call'[q] = call[q]
  BY <1>3 DEF ServerFails, Serve
<1>7. /\ call'[r].client = call[r].client /\ call'[r].token = call[r].token
      /\ call'[r].server = "error"
  BY <1>3 DEF ServerFails, Serve, CallType
<1>8. call[r].client = "waiting" /\ lock = r
  BY <1>4 DEF OneRenewal, Working
<1> QED
  BY <1>4, <1>5, <1>6, <1>7, <1>8 DEF OneRenewal, CookieIsCurrent, SignedIn, HasRotated

(* A reload between two calls. *)
LEMMA ReloadIsSound ==
  ASSUME TypeOK, Sound, Undisturbed', NEW t \in Tabs, Reload(t)
  PROVE  OneRenewal' /\ CookieIsCurrent' /\ SignedIn'
<1>1. UNCHANGED <<stored, cookie, call, lock>>
  BY DEF Reload, redisVars, Undisturbed
<1>2. SignedIn'
  BY DEF Reload, Sound, SignedIn, TypeOK
<1> QED
  BY <1>1, <1>2 DEF Sound, OneRenewal, CookieIsCurrent

(* A stale CSRF token, and pages that try again because they are online. *)
LEMMA EventsAreSound ==
  ASSUME TypeOK, Sound, (\E old \in SUBSET Tabs : GoStale(old)) \/ (\E R \in SUBSET Renewals : Online(R))
  PROVE  OneRenewal' /\ CookieIsCurrent' /\ SignedIn'
<1> USE DEF Sound, TypeOK
<1>1. CASE \E old \in SUBSET Tabs : GoStale(old)
  BY <1>1 DEF GoStale, redisVars, OneRenewal, CookieIsCurrent, SignedIn
<1>2. ASSUME NEW R \in SUBSET Renewals, Online(R) PROVE OneRenewal' /\ CookieIsCurrent' /\ SignedIn'
  <2>1. UNCHANGED <<stored, cookie, lock, status>>
    BY <1>2 DEF Online, redisVars, browserVars
  <2>2. \A r \in Renewals :
          /\ r \notin R => call'[r] = call[r]
          /\ r \in R => call[r].client = "idle" /\ call'[r].client = "locking" /\ call'[r].server = "none"
    BY <1>2 DEF Online, NoCall
  <2> QED
    BY <2>1, <2>2, RenewalsType DEF OneRenewal, CookieIsCurrent, SignedIn
<1> QED
  BY <1>1, <1>2

LEMMA StepPreserves == IInv /\ [Next]_vars => IInv'
<1> SUFFICES ASSUME IInv, [Next]_vars PROVE IInv'
  OBVIOUS
<1>1. TypeOK'
  BY TypesArePreserved DEF IInv
<1>2. ASSUME Undisturbed' PROVE Sound'
  <2>1. TypeOK /\ Undisturbed /\ Sound
    BY <1>2, DisturbedStays DEF IInv
  <2>2. NothingEnds'
    BY <1>2, <2>1, NobodyEndsIt
  <2>3. CASE UNCHANGED vars
    BY <2>1, <2>3 DEF vars, redisVars, userVars, browserVars, history, Sound, NothingEnds, OneRenewal,
       CookieIsCurrent, SignedIn
  <2>4. CASE \E r \in Renewals : StartRestore(r) \/ StartRefresh(r) \/ PostAlone(r)
    BY <2>1, <2>2, <2>4, AskingIsSound DEF Sound
  <2>5. CASE \E r \in Renewals : ServerStep(r)
    BY <2>1, <2>2, <2>5, ServingIsSound DEF Sound
  <2>6. CASE \E r \in Renewals : Deliver(r)
    BY <1>2, <2>1, <2>2, <2>6, AnsweringIsSound DEF Sound
  <2>7. CASE \E r \in Renewals : ServerFails(r) \/ GiveUp(r) \/ Discard(r)
    BY <1>2, <2>1, <2>2, <2>7, FailingIsSound DEF Sound
  <2>8. CASE \E t \in Tabs : Reload(t)
    BY <1>2, <2>1, <2>2, <2>8, ReloadIsSound DEF Sound
  <2>9. CASE FamilyExpires
    BY <2>1, <2>2, <2>9 DEF FamilyExpires, browserVars, Sound, OneRenewal, CookieIsCurrent, SignedIn
  <2>10. CASE (\E old \in SUBSET Tabs : GoStale(old)) \/ (\E R \in SUBSET Renewals : Online(R))
    BY <2>1, <2>2, <2>10, EventsAreSound DEF Sound
  <2> QED
    BY <1>2, <2>1, <2>3, <2>4, <2>5, <2>6, <2>7, <2>8, <2>9, <2>10, NobodyEndsIt DEF Next, BrowserStep
<1> QED
  BY <1>1, <1>2 DEF IInv, Sound, SignedIn, NotSignedOutByItself

-----------------------------------------------------------------------------
(* The inductive invariant holds: types, one renewal at a time, and the    *)
(* cookie of an undisturbed browser is the token of its record.            *)
THEOREM RenewalInvariant == Spec => []IInv
BY InitEstablishes, StepPreserves, PTL DEF Spec

(* However many tabs and requests renew at once, a browser with locks is   *)
(* not signed out by it (renewViaCookie in CoreProvider.tsx, rotate in     *)
(* SessionStore.js), unless the CSRF check refuses a refresh() or a page   *)
(* twice.                                                                  *)
THEOREM RenewalsNeverSignOut == Spec => []NotSignedOutByItself
<1>1. IInv => NotSignedOutByItself
  BY DEF IInv
<1> QED
  BY <1>1, RenewalInvariant, PTL

-----------------------------------------------------------------------------
(* A deleted account keeps no session.  The deletion leaves no record; one *)
(* that a renewal writes afterwards has that renewal behind it, which goes *)
(* on to the account, finds it not active and ends the session.            *)

AskedFirst  == \A r \in Renewals : call[r].client = "locking" => call[r].server = "none"
Ends(r)     == call[r].server \in {"user", "ending", "deleting"}
RecordIsDoomed ==
  faults = 0 /\ deletion = "done" /\ stored # NoToken => \E r \in Renewals : Ends(r)
DeletionInv ==
  /\ TypeOK
  /\ AskedFirst
  /\ deletion # "none" => ~active
  /\ RecordIsDoomed

LEMMA AskedFirstIsPreserved == TypeOK /\ AskedFirst /\ [Next]_vars => AskedFirst'
<1> SUFFICES ASSUME TypeOK, AskedFirst, [Next]_vars PROVE AskedFirst'
  OBVIOUS
<1> USE DEF TypeOK, AskedFirst
<1>1. ASSUME NEW r \in Renewals, StartRestore(r) \/ StartRefresh(r)
      PROVE  AskedFirst'
  <2>1. \A q \in Renewals \ {r} : call'[q] = call[q]
    BY <1>1 DEF StartRestore, StartRefresh
  <2>2. call'[r].server = "none"
    <3>1. CASE StartRestore(r)
      BY <3>1 DEF StartRestore, NoCall
    <3>2. CASE StartRefresh(r)
      BY <3>2 DEF StartRefresh, NoCall
    <3> QED
      BY <1>1, <3>1, <3>2
  <2> QED
    BY <2>1, <2>2
<1>2. ASSUME NEW r \in Renewals, PostAlone(r) \/ Deliver(r) \/ Discard(r)
      PROVE  AskedFirst'
  BY <1>2 DEF PostAlone, Post, Deliver, Discard, NoCall, CallType
<1>3. ASSUME NEW r \in Renewals, ServerStep(r) PROVE AskedFirst'
  <2>1. call[r].server # "none" /\ call'[r].client = call[r].client
    BY <1>3 DEF ServerStep, ReadSession, Rotate, ReadFamily, FindSession, NoSession, EndSession, FindUser, Serve, CallType
  <2>2. \A q \in Renewals \ {r} : call'[q].client = call[q].client /\ call'[q].server = call[q].server
    BY <1>3 DEF ServerStep, ReadSession, Rotate, ReadFamily, FindSession, NoSession, EndSession, FindUser, Serve, CallType
  <2> QED
    BY <2>1, <2>2
<1>4. ASSUME NEW r \in Renewals, ServerFails(r) \/ GiveUp(r) PROVE AskedFirst'
  BY <1>4 DEF ServerFails, GiveUp, Serve, Working, CallType
<1>5. ASSUME NEW t \in Tabs, Reload(t) PROVE AskedFirst'
  BY <1>5 DEF Reload, NoCall, CallType
<1>6. ASSUME NEW t \in Tabs, SignOut(t) \/ SignOutStep(t) \/ SignOutFails(t) PROVE UNCHANGED call
  BY <1>6 DEF SignOut, SignOutStep, SignOutReads, SignOutDeletes, SignedOut, SignOutFails, ClearTab
<1>9. ASSUME NEW old \in SUBSET Tabs, GoStale(old) PROVE UNCHANGED call
  BY <1>9 DEF GoStale
<1>10. ASSUME NEW R \in SUBSET Renewals, Online(R) PROVE AskedFirst'
  BY <1>10 DEF Online, NoCall
<1>7. ASSUME DeleteAccount \/ DeletionStep \/ FamilyExpires PROVE UNCHANGED call
  BY <1>7 DEF DeleteAccount, DeletionStep, ListSessions, RevokeSessions, FamilyExpires
<1>8. ASSUME UNCHANGED vars PROVE UNCHANGED call
  BY <1>8 DEF vars
<1> QED
  BY <1>1, <1>2, <1>3, <1>4, <1>5, <1>6, <1>7, <1>8, <1>9, <1>10 DEF Next, BrowserStep

(* Only the deletion ends an account, and it ends it first. *)
LEMMA DeletedIsInactive ==
  (deletion # "none" => ~active) /\ [Next]_vars => (deletion' # "none" => ~active')
<1> SUFFICES ASSUME deletion # "none" => ~active, [Next]_vars
             PROVE  deletion' # "none" => ~active'
  OBVIOUS
<1>1. CASE DeleteAccount
  BY <1>1 DEF DeleteAccount
<1>2. CASE DeletionStep
  BY <1>2 DEF DeletionStep, ListSessions, RevokeSessions
<1>3. CASE UNCHANGED vars
  BY <1>3 DEF vars, userVars
<1>4. ASSUME ~DeleteAccount, ~DeletionStep, Next PROVE UNCHANGED <<active, deletion>>
  BY <1>4, Zenon DEF Next, userVars, BrowserStep, ServerStep, SignOutStep,
     StartRestore, StartRefresh, PostAlone, Post, Deliver, Discard, ReadSession, Rotate, ReadFamily,
     FindSession, NoSession, EndSession, FindUser, FamilyExpires, ServerFails, GiveUp, GoStale, Online, Reload,
     SignOut, SignOutReads, SignOutDeletes, SignedOut, SignOutFails, ClearTab
<1> QED
  BY <1>1, <1>2, <1>3, <1>4

(* What a server step leaves behind: no record, or a renewal that ends it. *)
LEMMA ServingDooms ==
  ASSUME TypeOK, deletion # "none" => ~active, RecordIsDoomed, NEW r \in Renewals, ServerStep(r)
  PROVE  RecordIsDoomed'
<1> USE DEF TypeOK
<1>1. UNCHANGED <<faults, deletion>>
  BY DEF ServerStep, ReadSession, Rotate, ReadFamily, FindSession, NoSession, EndSession, FindUser, history, userVars
<1>2. SUFFICES ASSUME faults = 0, deletion = "done", stored' # NoToken
               PROVE  \E q \in Renewals : Ends(q)'
  BY <1>1 DEF RecordIsDoomed
<1>3. CASE Rotate(r)
  BY <1>3 DEF Rotate, Ends, CallType
<1>4. CASE EndSession(r)
  BY <1>2, <1>4 DEF EndSession
<1>5. CASE ReadSession(r) \/ ReadFamily(r) \/ FindSession(r) \/ NoSession(r) \/ FindUser(r)
  <2>1. stored' = stored
    BY <1>5 DEF ReadSession, ReadFamily, FindSession, NoSession, FindUser, redisVars
  <2>2. PICK q \in Renewals : Ends(q)
    BY <1>2, <2>1 DEF RecordIsDoomed
  <2>3. \A p \in Renewals \ {r} : call'[p] = call[p]
    BY <1>5 DEF ReadSession, ReadFamily, FindSession, NoSession, FindUser, Serve
  <2>4. CASE q # r
    BY <2>2, <2>3, <2>4 DEF Ends
  <2>5. CASE q = r
    <3>1. FindUser(r) \/ FindSession(r)
      BY <1>2, <1>5, <2>1, <2>2, <2>5 DEF ReadSession, ReadFamily, NoSession, Ends
    <3> QED
      BY <1>2, <3>1 DEF FindUser, FindSession, Serve, Ends, CallType
  <2> QED
    BY <2>4, <2>5
<1> QED
  BY <1>3, <1>4, <1>5 DEF ServerStep

(* The browser does not touch a renewal the server is working on, unless   *)
(* something fails.                                                        *)
LEMMA WaitingDooms ==
  ASSUME TypeOK, AskedFirst, RecordIsDoomed, NEW r \in Renewals,
         StartRestore(r) \/ StartRefresh(r) \/ BrowserStep(r) \/ Discard(r)
  PROVE  RecordIsDoomed'
<1> USE DEF TypeOK
<1>1. UNCHANGED <<faults, deletion, stored>>
  BY DEF StartRestore, StartRefresh, BrowserStep, PostAlone, Post, Deliver, Discard, history, userVars, redisVars
<1>2. \A p \in Renewals \ {r} : call'[p] = call[p]
  BY DEF StartRestore, StartRefresh, BrowserStep, PostAlone, Post, Deliver, Discard
<1>3. ~Ends(r)
  BY DEF StartRestore, StartRefresh, BrowserStep, PostAlone, Post, Deliver, Discard, Ends, AskedFirst, NoCall, Answers
<1> QED
  BY <1>1, <1>2, <1>3 DEF RecordIsDoomed, Ends

LEMMA DeletionInvIsPreserved == DeletionInv /\ [Next]_vars => DeletionInv'
<1> SUFFICES ASSUME DeletionInv, [Next]_vars PROVE DeletionInv'
  OBVIOUS
<1>1. TypeOK' /\ AskedFirst' /\ (deletion' # "none" => ~active')
  BY TypesArePreserved, AskedFirstIsPreserved, DeletedIsInactive DEF DeletionInv
<1>2. RecordIsDoomed'
  <2>1. ASSUME NEW r \in Renewals, ServerStep(r) PROVE RecordIsDoomed'
    BY <2>1, ServingDooms DEF DeletionInv
  <2>2. ASSUME NEW r \in Renewals, StartRestore(r) \/ StartRefresh(r) \/ BrowserStep(r) \/ Discard(r)
        PROVE  RecordIsDoomed'
    BY <2>2, WaitingDooms DEF DeletionInv
  <2>3. ASSUME NEW r \in Renewals, ServerFails(r) \/ GiveUp(r) PROVE RecordIsDoomed'
    BY <2>3, FaultsType DEF ServerFails, GiveUp, Fault, RecordIsDoomed, DeletionInv, TypeOK
  <2>4. ASSUME NEW t \in Tabs, SignOutFails(t) PROVE RecordIsDoomed'
    BY <2>4, FaultsType DEF SignOutFails, ClearTab, Fault, RecordIsDoomed, DeletionInv, TypeOK
  <2>5. ASSUME NEW t \in Tabs, Reload(t) PROVE RecordIsDoomed'
    <3>1. UNCHANGED <<stored, deletion>>
      BY <2>5 DEF Reload, redisVars, userVars
    <3>2. UNCHANGED <<call, faults>> \/ faults' # 0
      BY <2>5, FaultsType DEF Reload, Fault, DeletionInv, TypeOK
    <3> QED
      BY <3>1, <3>2 DEF RecordIsDoomed, DeletionInv, Ends
  <2>6. ASSUME NEW t \in Tabs, SignOut(t) \/ SignOutStep(t) PROVE RecordIsDoomed'
    <3>1. UNCHANGED <<call, faults, deletion>> /\ (stored' = stored \/ stored' = NoToken)
      BY <2>6 DEF SignOut, SignOutStep, SignOutReads, SignOutDeletes, SignedOut, ClearTab, history, userVars, redisVars
    <3> QED
      BY <3>1 DEF RecordIsDoomed, DeletionInv, Ends
  <2>10. ASSUME (\E old \in SUBSET Tabs : GoStale(old)) \/ (\E R \in SUBSET Renewals : Online(R)) PROVE RecordIsDoomed'
    BY <2>10, FaultsType DEF GoStale, Online, Fault, RecordIsDoomed, DeletionInv, TypeOK
  <2>7. CASE DeleteAccount
    BY <2>7 DEF DeleteAccount, RecordIsDoomed
  <2>8. CASE DeletionStep
    BY <2>8 DEF DeletionStep, ListSessions, RevokeSessions, RecordIsDoomed, redisVars
  <2>9. CASE FamilyExpires \/ UNCHANGED vars
    <3>1. UNCHANGED <<call, faults, deletion, stored>>
      BY <2>9 DEF FamilyExpires, vars, history, userVars, redisVars
    <3> QED
      BY <3>1 DEF RecordIsDoomed, DeletionInv, Ends
  <2> QED
    BY <2>1, <2>2, <2>3, <2>4, <2>5, <2>6, <2>7, <2>8, <2>9, <2>10 DEF Next
<1> QED
  BY <1>1, <1>2 DEF DeletionInv

(* "end them after the database agrees" (accountDeletion.js), for any      *)
(* number of tabs and renewals, in any order of their steps.               *)
THEOREM DeletionEndsSessions == Spec => []DeletedHasNoSession
<1>1. Init => DeletionInv
  BY InitEstablishes DEF Init, IInv, DeletionInv, AskedFirst, RecordIsDoomed, NoCall
<1>2. DeletionInv => DeletedHasNoSession
  BY DEF DeletionInv, RecordIsDoomed, DeletedHasNoSession, Quiet, Ends
<1> QED
  BY <1>1, <1>2, DeletionInvIsPreserved, PTL DEF Spec
=============================================================================
