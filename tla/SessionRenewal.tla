--------------------------- MODULE SessionRenewal ---------------------------
(***************************************************************************)
(* One sign-in of one browser: its refresh cookie, the tabs that renew     *)
(* their access through it, and the session record in Redis.               *)
(*                                                                         *)
(* Sources: rotate, revokeSession, revokeFamily and revokeAllForUser of    *)
(* identity/SessionStore.js; refresh and logout of identity/AuthService.js *)
(* and their routes; anonymise of identity/accountDeletion.js; and in the  *)
(* browser CoreProvider.tsx, refreshOnce of http/httpClient.ts and         *)
(* auth/restorePolicy.ts.                                                  *)
(*                                                                         *)
(* A refresh token is rotated with every renewal and only compared with    *)
(* the one in the record, and a token that was replaced never comes back:  *)
(* it is Current or Old, and nothing bounds the number of renewals.        *)
(* Signing in again would make another session, with a record of its own:  *)
(* it is not modelled, nor is the button that gives up restoring           *)
(* (signInInstead).                                                        *)
(***************************************************************************)
EXTENDS Naturals

CONSTANTS
  Tabs,
  Renewals,   \* calls of renewViaCookie that may be under way at once
  TabOf,      \* the tab each of them belongs to
  HasLocks,   \* does the browser have navigator.locks?
  MaxFaults   \* bound: failures, lost answers, reloads in mid-flight

Free == "free"

ASSUME RenewalsType == Free \notin Renewals /\ TabOf \in [Renewals -> Tabs]
ASSUME HasLocksType == HasLocks \in BOOLEAN
ASSUME FaultsType   == MaxFaults \in Nat

NoToken == "no token"
Current == "current"
Old     == "old"
Tokens  == {Current, Old}

VARIABLES
  stored,    \* the token of the session record, NoToken without a record
  family,    \* is the family key there?  rotate does not prolong it
  active,    \* the users row: status 'active'
  deletion,  \* where anonymise is
  cookie,    \* the browser's refresh cookie
  status,    \* each tab's AuthStatus
  lock,      \* the Web Lock: Free, or the renewal that holds it
  stale,     \* tabs whose next request the CSRF check refuses
  retried,   \* csrfRetried of each page
  call,      \* each renewal, in the browser and on the server
  signOut,   \* where each tab's signOut is
  over,      \* history: has anybody begun to end the session?
  lost,      \* history: has an answer that may bring a token been lost?
  refused,   \* history: has it refused a refresh(), or a page a second time?
  faults     \* failures so far

redisVars   == <<stored, family>>
userVars    == <<active, deletion>>
csrfVars    == <<stale, retried>>
browserVars == <<cookie, status, lock, csrfVars>>
history     == <<over, lost, refused, faults>>
vars == <<redisVars, userVars, browserVars, call, signOut, history>>

Working  == {"get", "set", "family", "killing", "ending", "deleting", "user"}
Answers  == {"ok", "no", "error", "forbidden"}
NoCall   == [client |-> "idle", kind |-> "restore", server |-> "none", token |-> NoToken]
CallType == [client : {"idle", "locking", "waiting"}, kind : {"restore", "refresh"},
             server : Working \cup Answers \cup {"none"}, token : Tokens \cup {NoToken}]

TypeOK ==
  /\ stored \in {Current, NoToken}
  /\ family \in BOOLEAN
  /\ active \in BOOLEAN
  /\ deletion \in {"none", "listing", "deleting", "done"}
  /\ cookie \in Tokens \cup {NoToken}
  /\ status \in [Tabs -> {"restoring", "authenticated", "anonymous"}]
  /\ lock \in Renewals \cup {Free}
  /\ stale \subseteq Tabs /\ retried \subseteq Tabs
  /\ call \in [Renewals -> CallType]
  /\ signOut \in [Tabs -> {"idle", "get", "delete", "answered", "forbidden"}]
  /\ over \in BOOLEAN
  /\ lost \in BOOLEAN
  /\ refused \in BOOLEAN
  /\ faults \in 0 .. MaxFaults

(* A browser that was signed in and is opened again.                       *)
Init ==
  /\ stored = Current
  /\ family = TRUE
  /\ active = TRUE
  /\ deletion = "none"
  /\ cookie = Current
  /\ status = [t \in Tabs |-> "restoring"]
  /\ lock = Free
  /\ stale = {} /\ retried = {}
  /\ call = [r \in Renewals |-> NoCall]
  /\ signOut = [t \in Tabs |-> "idle"]
  /\ over = FALSE
  /\ lost = FALSE
  /\ refused = FALSE
  /\ faults = 0

Serve(r, point) == call' = [call EXCEPT ![r].server = point]

Aged(token) == IF token = Current THEN Old ELSE token

-----------------------------------------------------------------------------
(* The browser asks                                                        *)

Waits(r, t) == TabOf[r] = t /\ call[r].client # "idle"

(* tryOnce: on load, on the timer, after a refused token or by the retry   *)
(* button.                                                                 *)
StartRestore(r) ==
  /\ call[r] = NoCall
  /\ status[TabOf[r]] = "restoring"
  /\ call' = [call EXCEPT ![r].client = "locking"]
  /\ UNCHANGED <<redisVars, userVars, browserVars, signOut, history>>

(* refreshOnce: a request met a 401; one refresh at a time in a tab.       *)
StartRefresh(r) ==
  /\ call[r] = NoCall
  /\ status[TabOf[r]] = "authenticated"
  /\ \A q \in Renewals : Waits(q, TabOf[r]) => call[q].kind = "restore"
  /\ call' = [call EXCEPT ![r] = [NoCall EXCEPT !.client = "locking", !.kind = "refresh"]]
  /\ UNCHANGED <<redisVars, userVars, browserVars, signOut, history>>

(* The request leaves with the cookie of that moment.  Before its route,   *)
(* csrfProtection refuses a stale token; without a cookie the route        *)
(* answers 401.                                                            *)
Post(r) ==
  /\ call[r].client = "locking"
  /\ call' = [call EXCEPT ![r] = [client |-> "waiting", kind |-> @.kind, token |-> cookie,
                                  server |-> CASE TabOf[r] \in stale -> "forbidden"
                                               [] TabOf[r] \notin stale /\ cookie = NoToken -> "no"
                                               [] OTHER -> "get"]]
  /\ UNCHANGED <<redisVars, userVars, cookie, status, csrfVars, signOut, history>>

(* Mutant of PostAlone: every tab renews on its own.                       *)
PostAtOnce(r) == Post(r) /\ UNCHANGED lock

(* renewViaCookie: one renewal at a time across the tabs, if the browser   *)
(* can.                                                                    *)
PostAlone(r) ==
  /\ Post(r)
  /\ IF HasLocks THEN lock = Free /\ lock' = r ELSE UNCHANGED lock

-----------------------------------------------------------------------------
(* The server: rotate, then refresh                                        *)

(* GET of the record: gone, another token, or this one.                    *)
ReadSession(r) ==
  /\ call[r].server = "get"
  /\ Serve(r, IF stored = NoToken THEN "no"
              ELSE IF stored # call[r].token THEN "family" ELSE "set")
  /\ UNCHANGED <<redisVars, userVars, browserVars, signOut, history>>

(* MULTI SET: the record with a new token, whatever is there by now; the   *)
(* token of everybody else is an old one.                                  *)
Rotate(r) ==
  /\ call[r].server = "set"
  /\ stored' = Current
  /\ call' = [q \in Renewals |->
       IF q = r THEN [call[r] EXCEPT !.server = "user", !.token = Current]
                ELSE [call[q] EXCEPT !.token = Aged(@)]]
  /\ cookie' = Aged(cookie)
  /\ UNCHANGED <<family, userVars, status, lock, csrfVars, signOut, history>>

(* revokeFamily: GET of the family key, then revokeSession.                *)
ReadFamily(r) ==
  /\ call[r].server = "family"
  /\ Serve(r, IF family THEN "killing" ELSE "no")
  /\ UNCHANGED <<redisVars, userVars, browserVars, signOut, history>>

(* revokeSession: GET, then MULTI DEL of record and family key.            *)
FindSession(r) ==
  /\ call[r].server \in {"killing", "ending"}
  /\ stored # NoToken
  /\ Serve(r, "deleting")
  /\ UNCHANGED <<redisVars, userVars, browserVars, signOut, history>>

(* Without a record only revokeFamily deletes the family key.              *)
NoSession(r) ==
  /\ call[r].server \in {"killing", "ending"}
  /\ stored = NoToken
  /\ Serve(r, "no")
  /\ family' = (family /\ call[r].server = "ending")
  /\ UNCHANGED <<stored, userVars, browserVars, signOut, history>>

EndSession(r) ==
  /\ call[r].server = "deleting"
  /\ stored' = NoToken
  /\ family' = FALSE
  /\ Serve(r, "no")
  /\ UNCHANGED <<userVars, browserVars, signOut, history>>

(* Mutant of FindUser: the account's status is not looked at.              *)
FindAnyUser(r) ==
  /\ call[r].server = "user"
  /\ Serve(r, "ok")
  /\ UNCHANGED <<redisVars, userVars, browserVars, signOut, history>>

(* Users.findById: the session of an account that is not active ends.      *)
FindUser(r) ==
  /\ call[r].server = "user"
  /\ Serve(r, IF active THEN "ok" ELSE "ending")
  /\ UNCHANGED <<redisVars, userVars, browserVars, signOut, history>>

(* REFRESH_TTL after the sign-in.                                          *)
FamilyExpires ==
  /\ family
  /\ family' = FALSE
  /\ UNCHANGED <<stored, userVars, browserVars, call, signOut, history>>

ServerStep(r) ==
  \/ ReadSession(r) \/ Rotate(r) \/ ReadFamily(r) \/ FindSession(r)
  \/ NoSession(r) \/ EndSession(r) \/ FindUser(r)

-----------------------------------------------------------------------------
(* The answer                                                              *)

(* Mutant of Unlocked: the lock is kept when the request is over.          *)
KeptLock(r) == IF r \in Renewals THEN lock ELSE Free

(* The Web Lock goes with the callback that held it.                       *)
Unlocked(r) == IF lock = r THEN Free ELSE lock

(* finish: a tab that is restoring is told, any other has moved on.        *)
Finish(t, next) ==
  status' = [status EXCEPT ![t] = IF @ = "restoring" THEN next ELSE @]

(* Mutant of TriesAgain: a refused request signs out at once.              *)
NeverTriesAgain(r) == r \notin Renewals

(* csrfRetried: a page fetches a fresh CSRF token once while it restores.  *)
TriesAgain(r) == call[r].kind = "restore" /\ TabOf[r] \notin retried

(* classifyRefreshFailure: a "no" signs out, an error says nothing, and so *)
(* does a refused CSRF token if the page tries again; refresh() does not.  *)
Settle(r, answer) ==
  LET t    == TabOf[r]
      next == IF answer = "ok" THEN "authenticated" ELSE "anonymous"
  IN
  CASE answer = "error" \/ (answer = "forbidden" /\ TriesAgain(r)) -> UNCHANGED status
    [] OTHER -> IF call[r].kind = "restore" THEN Finish(t, next)
                                            ELSE status' = [status EXCEPT ![t] = next]

(* csrfTokenRef is set to null: the next request fetches a token.          *)
ForgetsToken(r, answer) ==
  \/ answer = "error" /\ call[r].kind = "restore"
  \/ answer = "forbidden" /\ (call[r].kind = "refresh" \/ TriesAgain(r))

(* The browser takes the cookie of the answer, or drops it as it is told.  *)
Deliver(r) ==
  LET answer == call[r].server
      t      == TabOf[r]
  IN
  /\ call[r].client = "waiting"
  /\ answer \in Answers
  /\ cookie' = CASE answer = "ok" -> call[r].token
                 [] answer = "no" -> NoToken
                 [] OTHER -> cookie
  /\ Settle(r, answer)
  /\ stale' = IF ForgetsToken(r, answer) THEN stale \ {t} ELSE stale
  /\ retried' = IF answer = "forbidden" /\ call[r].kind = "restore"
                THEN retried \cup {t} ELSE retried
  /\ refused' = (refused \/ (answer = "forbidden" /\ (call[r].kind = "refresh" \/ t \in retried)))
  /\ lock' = Unlocked(r)
  /\ call' = [call EXCEPT ![r] = NoCall]
  /\ UNCHANGED <<redisVars, userVars, signOut, over, lost, faults>>

(* The answer to a request its tab has given up.                           *)
Discard(r) ==
  /\ call[r].client = "idle"
  /\ call[r].server \in Answers
  /\ call' = [call EXCEPT ![r] = NoCall]
  /\ UNCHANGED <<redisVars, userVars, browserVars, signOut, history>>

-----------------------------------------------------------------------------
(* Failures                                                                *)

Fault == faults < MaxFaults /\ faults' = faults + 1

HasRotated(r) == call[r].server \in {"user", "ok"}

(* Redis, Postgres or the API's process fails under the call.              *)
ServerFails(r) ==
  /\ Fault
  /\ call[r].server \in Working
  /\ Serve(r, "error")
  /\ lost' = (lost \/ HasRotated(r))
  /\ UNCHANGED <<redisVars, userVars, browserVars, signOut, over, refused>>

(* The request times out or the connection breaks; the server goes on.     *)
GiveUp(r) ==
  /\ Fault
  /\ call[r].client = "waiting"
  /\ call' = [call EXCEPT ![r].client = "idle"]
  /\ lock' = Unlocked(r)
  /\ lost' = TRUE
  /\ stale' = IF ForgetsToken(r, "error") THEN stale \ {TabOf[r]} ELSE stale
  /\ UNCHANGED <<redisVars, userVars, cookie, status, retried, signOut, over, refused>>

(* The CSRF cookie lasts a day and then gives way to another: the tabs     *)
(* that hold the old token are refused, and so is a request that leaves    *)
(* without one because GET /auth/csrf failed (csrfHeaders).                *)
GoStale(old) ==
  /\ Fault
  /\ stale' = stale \cup old
  /\ UNCHANGED <<redisVars, userVars, cookie, status, lock, retried, call, signOut>>
  /\ UNCHANGED <<over, lost, refused>>

(* The browser was offline and comes back: pages try again, whatever their *)
(* status is.                                                              *)
Online(R) ==
  /\ Fault
  /\ \A r \in R : call[r] = NoCall
  /\ call' = [r \in Renewals |-> IF r \in R THEN [NoCall EXCEPT !.client = "locking"] ELSE call[r]]
  /\ UNCHANGED <<redisVars, userVars, browserVars, signOut, over, lost, refused>>

(* The page is loaded again; what it had asked for is aborted.             *)
Reload(t) ==
  /\ status[t] # "restoring"
  /\ signOut[t] = "idle"
  /\ \/ (\A r \in Renewals : ~Waits(r, t)) /\ UNCHANGED <<call, lock, lost, faults>>
     \/ /\ Fault
        /\ \E r \in Renewals : Waits(r, t)
        /\ call' = [r \in Renewals |->
             IF ~Waits(r, t) THEN call[r]
             ELSE IF call[r].client = "locking" THEN NoCall
             ELSE [call[r] EXCEPT !.client = "idle"]]
        /\ lock' = IF lock \in {r \in Renewals : TabOf[r] = t} THEN Free ELSE lock
        /\ lost' = TRUE
  /\ status' = [status EXCEPT ![t] = "restoring"]
  /\ stale' = stale \ {t} /\ retried' = retried \ {t}
  /\ UNCHANGED <<redisVars, userVars, cookie, signOut, over, refused>>

-----------------------------------------------------------------------------
(* The session ends                                                        *)

(* signOut: POST /auth/logout with the cookie; not under the Web Lock, but *)
(* checked for its CSRF token.                                             *)
SignOut(t) ==
  /\ status[t] = "authenticated"
  /\ signOut[t] = "idle"
  /\ signOut' = [signOut EXCEPT ![t] = CASE t \in stale -> "forbidden"
                                         [] t \notin stale /\ cookie = NoToken -> "answered"
                                         [] OTHER -> "get"]
  /\ over' = TRUE
  /\ UNCHANGED <<redisVars, userVars, browserVars, call, lost, refused, faults>>

(* logout, revokeSession: GET ...                                          *)
SignOutReads(t) ==
  /\ signOut[t] = "get"
  /\ signOut' = [signOut EXCEPT ![t] = IF stored = NoToken THEN "answered" ELSE "delete"]
  /\ UNCHANGED <<redisVars, userVars, browserVars, call, history>>

(* ... and MULTI DEL.                                                      *)
SignOutDeletes(t) ==
  /\ signOut[t] = "delete"
  /\ stored' = NoToken
  /\ family' = FALSE
  /\ signOut' = [signOut EXCEPT ![t] = "answered"]
  /\ UNCHANGED <<userVars, browserVars, call, history>>

(* The tab is cleared whatever the answer was, the cookie by the route.    *)
ClearTab(t) ==
  /\ status' = [status EXCEPT ![t] = "anonymous"]
  /\ stale' = stale \ {t}
  /\ signOut' = [signOut EXCEPT ![t] = "idle"]
  /\ UNCHANGED <<redisVars, userVars, lock, retried, call>>

SignedOut(t) ==
  /\ signOut[t] \in {"answered", "forbidden"}
  /\ cookie' = IF signOut[t] = "answered" THEN NoToken ELSE cookie
  /\ ClearTab(t)
  /\ UNCHANGED history

SignOutFails(t) ==
  /\ Fault
  /\ signOut[t] # "idle"
  /\ ClearTab(t)
  /\ UNCHANGED <<cookie, over, lost, refused>>

(* anonymise commits the account's end, then revokeAllForUser lists the    *)
(* sessions ...                                                            *)
DeleteAccount ==
  /\ deletion = "none"
  /\ active' = FALSE
  /\ deletion' = "listing"
  /\ over' = TRUE
  /\ UNCHANGED <<redisVars, browserVars, call, signOut, lost, refused, faults>>

ListSessions ==
  /\ deletion = "listing"
  /\ deletion' = IF stored = NoToken THEN "done" ELSE "deleting"
  /\ UNCHANGED <<redisVars, active, browserVars, call, signOut, history>>

(* ... and deletes the records it found, not their family keys.            *)
RevokeSessions ==
  /\ deletion = "deleting"
  /\ stored' = NoToken
  /\ deletion' = "done"
  /\ UNCHANGED <<family, active, browserVars, call, signOut, history>>

-----------------------------------------------------------------------------
BrowserStep(r) == PostAlone(r) \/ Deliver(r)
SignOutStep(t) == SignOutReads(t) \/ SignOutDeletes(t) \/ SignedOut(t)
DeletionStep   == ListSessions \/ RevokeSessions

Next ==
  \/ \E r \in Renewals :
       \/ StartRestore(r) \/ StartRefresh(r) \/ BrowserStep(r) \/ ServerStep(r)
       \/ Discard(r) \/ ServerFails(r) \/ GiveUp(r)
  \/ \E t \in Tabs : Reload(t) \/ SignOut(t) \/ SignOutStep(t) \/ SignOutFails(t)
  \/ \E old \in SUBSET Tabs : GoStale(old)
  \/ \E R \in SUBSET Renewals : Online(R)
  \/ DeleteAccount \/ DeletionStep \/ FamilyExpires

Spec == Init /\ [][Next]_vars

(* Calls are answered; the Web Lock is granted in the order of asking; the *)
(* timer of a tab that is restoring tries again.                           *)
Fairness ==
  /\ \A r \in Renewals : WF_vars(ServerStep(r)) /\ WF_vars(Deliver(r)) /\ WF_vars(Discard(r))
  /\ \A r \in Renewals : SF_vars(PostAlone(r))
  /\ \A t \in Tabs : WF_vars(\E r \in Renewals : TabOf[r] = t /\ StartRestore(r))
  /\ \A t \in Tabs : WF_vars(SignOutStep(t))
  /\ WF_vars(DeletionStep)

FairSpec == Spec /\ Fairness

-----------------------------------------------------------------------------
(* The browser has locks, the session was not ended, no answer was lost,   *)
(* and the CSRF check refused no refresh() and no page twice.              *)
Undisturbed == HasLocks /\ ~over /\ ~lost /\ ~refused

(* Nobody is signed out by their own renewals: as long as the session was  *)
(* not ended, no new token was lost and the CSRF token of a signed-in tab  *)
(* is not refused, no tab becomes anonymous, however many tabs and         *)
(* requests meet a 401 at once and whatever fails before the rotation      *)
(* ("otherwise the rotating refresh token invalidates itself and signs the *)
(* user out", httpClient.ts).                                              *)
NotSignedOutByItself == Undisturbed => \A t \in Tabs : status[t] # "anonymous"

(* What holds meanwhile: nobody ends the session, ...                      *)
NothingEnds == active /\ deletion = "none" /\ \A t \in Tabs : signOut[t] = "idle"

(* ... the server works for the holder of the lock only, ...               *)
OneRenewal ==
  \A r \in Renewals :
    /\ call[r].server # "none" => call[r].client = "waiting"
    /\ call[r].client = "waiting" <=> lock = r

(* ... and the cookie is the record's token, or that renewal brings it.    *)
CookieIsCurrent ==
  /\ stored # NoToken
  /\ cookie # NoToken
  /\ lock = Free => cookie = stored
  /\ \A r \in Renewals : lock = r =>
       \/ /\ call[r].server \in {"get", "set", "error", "forbidden"}
          /\ call[r].token = stored /\ cookie = stored
       \/ call[r].server \in {"user", "ok"} /\ call[r].token = stored

(* The inductive invariant.                                                *)
IInv ==
  /\ TypeOK
  /\ NotSignedOutByItself
  /\ Undisturbed => NothingEnds /\ OneRenewal /\ CookieIsCurrent

(* "end them after the database agrees" (accountDeletion.js): when an      *)
(* account was deleted and every call that was under way ran to its end,   *)
(* no session is left, also when a renewal wrote its record again after    *)
(* the delete.                                                             *)
Quiet == \A r \in Renewals : call[r].server = "none"
DeletedHasNoSession == (deletion = "done" /\ Quiet /\ faults = 0) => stored = NoToken

(* A page that tries to resume its session finds out: it ends signed in or *)
(* on the sign-in page, whatever failed meanwhile (CoreProvider.tsx:       *)
(* "try again").                                                           *)
RestoringSettles == \A t \in Tabs : status[t] = "restoring" ~> status[t] # "restoring"

-----------------------------------------------------------------------------
(* What comments say, and the code does not keep.                          *)

(* "signing out ... has to take effect *now*" (SessionStore.js): after a   *)
(* sign-out that was answered, and with nothing under way, the session is  *)
(* gone.                                                                   *)
SignedOutHasNoSession ==
  (over /\ deletion = "none" /\ Quiet /\ faults = 0 /\ \A t \in Tabs : signOut[t] = "idle")
    => stored = NoToken

(* "A logout ... has to clear the client" (CoreProvider.tsx): a tab that   *)
(* was signed out shows the sign-in page until it is loaded again.         *)
SignedOutTabStaysOut ==
  [][\A t \in Tabs : status[t] = "anonymous" => status'[t] # "authenticated"]_vars

(* "No answer from the server: keep the session" (CoreProvider.tsx): the   *)
(* session outlives lost answers too.                                      *)
LostAnswerIsHarmless == (HasLocks /\ ~over /\ ~refused) => \A t \in Tabs : status[t] # "anonymous"

(* "A 403 on the refresh route is almost always a stale CSRF token ...:    *)
(* fetch a fresh one and try once more" (restorePolicy.ts): the session    *)
(* outlives the CSRF cookie of a day.                                      *)
StaleTokenIsTriedAgain == (HasLocks /\ ~over /\ ~lost) => \A t \in Tabs : status[t] # "anonymous"
=============================================================================
