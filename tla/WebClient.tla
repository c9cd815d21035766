------------------------------- MODULE WebClient -------------------------------
(***************************************************************************)
(* One page of the web application (ApiClient, MemoryAuthSession,          *)
(* AuthProvider): it keeps an access token in memory, the browser keeps    *)
(* the refresh token in a cookie, and a request answered with 401 waits    *)
(* for a refresh and is sent once more.  The server rotates refresh tokens *)
(* and closes every session when an exchanged one is presented again.  A   *)
(* token pair is a number: the server issues 1, 2, ...; 0 is no token.  A  *)
(* request the page has given up may still reach the server, much later.   *)
(***************************************************************************)
EXTENDS Naturals, FiniteSets

CONSTANTS
    Calls,    \* slots for API calls in flight
    MaxPairs, \* bound: token pairs the server issues
    MaxLate,  \* bound: requests of one kind and token given up and still on the way
    Faults    \* which may happen: "request_lost", "answer_lost", "reload"

VARIABLES
    cookie,    \* the refresh token in the browser
    access,    \* the access token in memory
    auth,    \* AuthStatus: "loading", "authenticated" or "unauthenticated"
    refresh,   \* the refresh in flight, which all waiting calls share
    sign,      \* the login or logout in flight
    call,      \* the API calls
    late,      \* how many requests the page gave up are on their way, of each kind
    live,      \* refresh tokens the server would exchange
    exchanged, \* refresh tokens it has exchanged
    valid,     \* access tokens that have not expired
    pairs,    \* token pairs issued so far
    reused,    \* the server has taken a request for a stolen token
    missed     \* history: the server served a refresh whose answer the page never got

page   == <<cookie, access, auth>>
server == <<live, exchanged, valid, pairs, reused>>
pageVars   == <<cookie, access, auth, refresh, sign, call, late, live, exchanged, valid, pairs,
                reused, missed>>

\* What a refresh, a login or a logout is before the server has served it.
Requested == [pc : {"sent", "login", "logout"}, token : 0 .. MaxPairs]

Quiet == [pc |-> "none", token |-> 0]

Vacant == [pc |-> "idle", kind |-> "data", token |-> 0, retried |-> FALSE]

PageInit ==
    /\ cookie \in 0 .. 1 /\ access = 0 /\ auth = "loading"
    /\ refresh = Quiet /\ sign = Quiet
    /\ call = [i \in Calls |-> Vacant] /\ late = [m \in Requested |-> 0]
    /\ live = {1} /\ exchanged = {} /\ valid = {} /\ pairs = 1
    /\ reused = FALSE /\ missed = FALSE

(***************************************************************************)
(* The server: what it does with a request, before the answer travels.     *)
(***************************************************************************)
Issue == pairs < MaxPairs /\ pairs' = pairs + 1 /\ valid' = valid \cup {pairs + 1}

Exchange(t) ==
    \/ /\ t \in live /\ Issue
       /\ live' = (live \ {t}) \cup {pairs + 1}
       /\ exchanged' = exchanged \cup {t}
       /\ UNCHANGED reused
    \/ /\ t \notin live
       /\ live' = IF t \in exchanged THEN {} ELSE live
       /\ reused' = (reused \/ t \in exchanged)
       /\ UNCHANGED <<exchanged, valid, pairs>>

OpenSession == Issue /\ live' = live \cup {pairs + 1} /\ UNCHANGED <<exchanged, reused>>

EndSession(t) == live' = live \ {t} /\ UNCHANGED <<exchanged, valid, pairs, reused>>

ServeRefresh ==
    /\ refresh.pc = "sent" /\ Exchange(refresh.token)
    /\ refresh' = [pc |-> "answered", token |-> IF refresh.token \in live THEN pairs + 1 ELSE 0]
    /\ UNCHANGED <<page, sign, call, late, missed>>

ServeLogin ==
    /\ sign.pc = "login" /\ OpenSession
    /\ sign' = [pc |-> "signed_in", token |-> pairs + 1]
    /\ UNCHANGED <<page, refresh, call, late, missed>>

ServeLogout ==
    /\ sign.pc = "logout" /\ EndSession(sign.token)
    /\ sign' = [pc |-> "signed_out", token |-> 0]
    /\ UNCHANGED <<page, refresh, call, late, missed>>

\* A request the page no longer waits for: its answer reaches nobody.
ServeLate(m) ==
    /\ late[m] > 0 /\ late' = [late EXCEPT ![m] = @ - 1]
    /\ \/ m.pc = "sent" /\ Exchange(m.token) /\ missed' = TRUE
       \/ m.pc = "login" /\ OpenSession /\ UNCHANGED missed
       \/ m.pc = "logout" /\ EndSession(m.token) /\ UNCHANGED missed
    /\ UNCHANGED <<page, refresh, sign, call>>

ServeCall(i) ==
    /\ call[i].pc = "sent"
    /\ call' = [call EXCEPT ![i].pc = IF call[i].token \in valid THEN "ok" ELSE "unauthorized"]
    /\ UNCHANGED <<page, refresh, sign, late, server, missed>>

ExpireAccess(t) ==
    /\ t \in valid /\ valid' = valid \ {t}
    /\ UNCHANGED <<page, refresh, sign, call, late, live, exchanged, pairs, reused, missed>>

(***************************************************************************)
(* ApiClient.                                                              *)
(***************************************************************************)
\* Mutant: every 401 starts a refresh of its own.
JoinRefreshAlone == refresh' = [pc |-> "sent", token |-> cookie]

\* refreshAccessToken: the promise of a refresh in flight is shared.
JoinRefresh ==
    refresh' = IF refresh.pc = "none" THEN [pc |-> "sent", token |-> cookie] ELSE refresh

Send(i) ==
    /\ call[i].pc = "idle" /\ auth = "authenticated"
    /\ call' = [call EXCEPT ![i] = [Vacant EXCEPT !.pc = "sent", !.token = access]]
    /\ UNCHANGED <<page, refresh, sign, late, server, missed>>

\* The failed answer of a call: restoreSession gives up the session.
Reject(i) ==
    /\ call' = [call EXCEPT ![i] = Vacant]
    /\ IF call[i].kind = "restore" THEN access' = 0 /\ auth' = "unauthenticated"
       ELSE UNCHANGED <<access, auth>>
    /\ UNCHANGED <<cookie, refresh>>

\* /auth/me answers the calls that restore a session or follow a login.
Receive(i) ==
    /\ \/ /\ call[i].pc = "ok"
          /\ auth' = IF call[i].kind = "data" THEN auth ELSE "authenticated"
          /\ call' = [call EXCEPT ![i] = Vacant]
          /\ UNCHANGED <<cookie, access, refresh>>
       \/ /\ call[i].pc = "unauthorized" /\ ~call[i].retried
          /\ call' = [call EXCEPT ![i].pc = "waiting"]
          /\ JoinRefresh /\ UNCHANGED page
       \/ call[i].pc = "unauthorized" /\ call[i].retried /\ Reject(i)
    /\ UNCHANGED <<sign, late, server, missed>>

Waiting == {i \in Calls : call[i].pc = "waiting"}

\* The calls that waited are sent again at once; /auth/me of restoreSession is
\* sent for the first time.
FinishRefresh ==
    /\ refresh.pc = "answered" /\ refresh.token # 0
    /\ cookie' = refresh.token /\ access' = refresh.token
    /\ call' = [i \in Calls |->
          IF i \in Waiting
          THEN [call[i] EXCEPT !.pc = "sent", !.token = refresh.token,
                               !.retried = (call[i].token # 0 \/ call[i].kind # "restore")]
          ELSE call[i]]
    /\ refresh' = Quiet
    /\ UNCHANGED <<auth, sign, late, server, missed>>

\* session.invalidate() tells the page when there was a session.
FailRefresh ==
    /\ access' = 0
    /\ auth' = IF access # 0 \/ \E i \in Waiting : call[i].kind = "restore"
                 THEN "unauthenticated" ELSE auth
    /\ call' = [i \in Calls |-> IF i \in Waiting THEN Vacant ELSE call[i]]
    /\ refresh' = Quiet
    /\ UNCHANGED <<sign, server>>

RefuseRefresh ==
    /\ refresh = [pc |-> "answered", token |-> 0]
    /\ FailRefresh /\ UNCHANGED <<cookie, late, missed>>

(***************************************************************************)
(* authApi and AuthProvider.                                               *)
(***************************************************************************)
\* restoreSession, when the page is loaded.
Restore(i) ==
    /\ auth = "loading" /\ \A j \in Calls : call[j].pc = "idle"
    /\ call' = [call EXCEPT ![i] = [Vacant EXCEPT !.pc = "waiting", !.kind = "restore"]]
    /\ JoinRefresh
    /\ UNCHANGED <<page, sign, late, server, missed>>

SignIn ==
    /\ auth = "unauthenticated" /\ sign = Quiet /\ \A i \in Calls : call[i].kind = "data"
    /\ sign' = [pc |-> "login", token |-> 0]
    /\ UNCHANGED <<page, refresh, call, late, server, missed>>

SignedIn(i) ==
    /\ sign.pc = "signed_in" /\ call[i].pc = "idle"
    /\ cookie' = sign.token /\ access' = sign.token /\ sign' = Quiet
    /\ call' = [call EXCEPT ![i] = [Vacant EXCEPT !.pc = "sent", !.kind = "login", !.token = sign.token]]
    /\ UNCHANGED <<auth, refresh, late, server, missed>>

SignOut ==
    /\ auth = "authenticated" /\ sign = Quiet
    /\ sign' = [pc |-> "logout", token |-> cookie]
    /\ UNCHANGED <<page, refresh, call, late, server, missed>>

SignedOut ==
    /\ sign.pc = "signed_out"
    /\ cookie' = 0 /\ access' = 0 /\ auth' = "unauthenticated" /\ sign' = Quiet
    /\ UNCHANGED <<refresh, call, late, server, missed>>

(***************************************************************************)
(* The network and the user.                                               *)
(***************************************************************************)
LeaveBehind(ms) ==
    /\ \A m \in ms : late[m] < MaxLate
    /\ late' = [m \in Requested |-> IF m \in ms THEN late[m] + 1 ELSE late[m]]

\* A request the server has not served when the page learns of the failure is
\* lost on the way, or arrives later.
LoseUnserved(m) ==
    \/ "request_lost" \in Faults /\ UNCHANGED late
    \/ "answer_lost" \in Faults /\ LeaveBehind({m})

\* The browser keeps the cookie of an answer whose headers have arrived, whatever
\* becomes of the page or of the body.
Cookies(answer) == {cookie} \cup
    IF answer.pc \in {"signed_in", "signed_out"} \/ (answer.pc = "answered" /\ answer.token # 0)
    THEN {answer.token} ELSE {}

Miss == missed' = (missed \/ (refresh.pc = "answered" /\ refresh.token \notin {0, cookie'}))

LoseRefresh ==
    /\ \/ refresh.pc = "sent" /\ LoseUnserved(refresh) /\ UNCHANGED cookie
       \/ /\ refresh.pc = "answered" /\ "answer_lost" \in Faults
          /\ cookie' \in Cookies(refresh) /\ UNCHANGED late
    /\ FailRefresh /\ Miss

LoseCall(i) ==
    /\ \/ "request_lost" \in Faults /\ call[i].pc = "sent"
       \/ "answer_lost" \in Faults /\ call[i].pc \notin {"idle", "waiting"}
    /\ Reject(i) /\ UNCHANGED <<sign, late, server, missed>>

LoseSign ==
    /\ \/ sign.pc \in {"login", "logout"} /\ LoseUnserved(sign) /\ UNCHANGED cookie
       \/ /\ sign.pc \in {"signed_in", "signed_out"} /\ "answer_lost" \in Faults
          /\ cookie' \in Cookies(sign) /\ UNCHANGED late
    /\ IF sign.pc \in {"logout", "signed_out"} THEN access' = 0 /\ auth' = "unauthenticated"
       ELSE UNCHANGED <<access, auth>>
    /\ sign' = Quiet
    /\ UNCHANGED <<refresh, call, server, missed>>

\* What is in flight is given up; API calls change nothing here when served late.
Reload ==
    /\ "reload" \in Faults
    /\ access' = 0 /\ auth' = "loading" /\ refresh' = Quiet /\ sign' = Quiet
    /\ call' = [i \in Calls |-> Vacant]
    /\ \E ms \in SUBSET ({refresh, sign} \cap Requested) : LeaveBehind(ms)
    /\ cookie' \in Cookies(refresh) \cup Cookies(sign) /\ Miss
    /\ UNCHANGED server

PageNext ==
    \/ ServeRefresh \/ ServeLogin \/ ServeLogout \/ \E t \in valid : ExpireAccess(t)
    \/ \E m \in Requested : ServeLate(m)
    \/ FinishRefresh \/ RefuseRefresh \/ SignIn \/ SignOut \/ SignedOut
    \/ LoseRefresh \/ LoseSign \/ Reload
    \/ \E i \in Calls :
          ServeCall(i) \/ Send(i) \/ Receive(i) \/ Restore(i) \/ SignedIn(i) \/ LoseCall(i)

PageSpec == PageInit /\ [][PageNext]_pageVars

(***************************************************************************)
(* Properties.                                                             *)
(***************************************************************************)
\* The server takes the page's user for a thief, and closes every session, only
\* after it served a refresh whose answer did not reach the page, because the
\* answer was lost or because the page had given up before: calls refused
\* together, a sign-in or a sign-out meanwhile, lost calls, logins and logouts
\* served late, a reload, and a refresh lost before the server saw it never make
\* the page present a refresh token a second time.
OnlyMissedAnswersLookStolen == reused => missed
================================================================================
