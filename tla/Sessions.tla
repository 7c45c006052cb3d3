------------------------------- MODULE Sessions -------------------------------
(***************************************************************************)
(* The sessions of one browser: the store in the memory of ext-authz       *)
(* (memStore), and the requests that read and write it while they talk to  *)
(* Keycloak (identify, startLogin, handleCallback, handleLogout).          *)
(*                                                                         *)
(* The browser has a cookie per host, each host is an application, and     *)
(* several requests are under way at once: tabs, or one page's parts.  A   *)
(* request has a local copy of what it read; what is one critical section  *)
(* of the store is one step here.                                          *)
(***************************************************************************)
EXTENDS Naturals

CONSTANTS
  Hosts,       \* hosts of applications, each with a cookie of its own
  Requests,    \* requests that can be under way at once
  Ids,         \* session ids
  Logins,      \* logins at Keycloak
  None, Never,
  TokenLife,   \* lifetime of an access token
  Skew,        \* how long before its end a token is renewed
  Timeout,     \* of a call to Keycloak's token endpoint
  TTL,         \* of a session, from its last Put
  PendTTL,     \* of a session that waits for its callback
  MaxTime      \* bound on the clock

ASSUME TimesAssumption ==
  /\ {TokenLife, Skew, Timeout, TTL, PendTTL, MaxTime} \subseteq Nat
  /\ Timeout <= Skew /\ Skew < TokenLife
ASSUME NoneAssumption == None \notin Ids \cup Logins /\ Never \notin Nat

VARIABLES
  store,    \* memStore.data: the session under each id, or None
  cookie,   \* what the browser holds for each host
  request,  \* where each request is and what it remembers
  sso,      \* the login that Keycloak's own cookie stands for, or None
  logins,   \* when each login was made and when it ended
  now

vars == <<store, cookie, request, sso, logins, now>>

-----------------------------------------------------------------------------
(* Data.                                                                   *)

\* What Verify reads in an access token.  A code stands for the token it
\* will be exchanged for, a pending session has none.
NoToken == [login |-> None, acr |-> 0, exp |-> 0]
Token   == {NoToken} \cup [login : Logins, acr : {0, 1}, exp : Nat]
Session == [token : Token, expiresAt : Nat, expiresIn : Nat]

Pending(s) == s.token = NoToken

\* The session that a login or a refresh stores: Put always starts the whole
\* cookie lifetime afresh, and ExpiresAt counts from the receipt.
Put(token) == [token |-> token, expiresAt |-> now + TokenLife,
               expiresIn |-> now + TTL]
Waiting    == [token |-> NoToken, expiresAt |-> 0, expiresIn |-> now + PendTTL]

Lapsed(s)    == now > s.expiresIn
\* Mutant: a token is renewed only once its time is over.
DueAtExpiry(s) == now > s.expiresAt
Due(s)       == now + Skew > s.expiresAt
Valid(token) == now <= token.exp
Live(l)      == l # None /\ logins[l].at # Never /\ logins[l].ended = Never

\* The local variables of a request: its session id, the OAuth state that it
\* went to Keycloak with (the pending session that knows it), a token, and
\* when its call to Keycloak began.
Steps == {"idle", "sent", "lapsed", "refreshing", "renewed", "redirected",
          "keycloak", "callback", "exchanging", "exchanged", "admitted",
          "signout", "signedout"}

Idle(h) == [step |-> "idle", host |-> h, sid |-> None, state |-> None,
            token |-> NoToken, since |-> 0]

Request == [step : Steps, host : Hosts, sid : Ids \cup {None},
            state : Ids \cup {None}, token : Token, since : Nat]

At(r, step)  == request[r].step = step
Moves(r, to) == request' = [request EXCEPT ![r] = to]
Goes(r, to)  == Moves(r, [request[r] EXCEPT !.step = to])
Ends(r)      == Moves(r, Idle(request[r].host))

\* The session that request r finds under its id, expired or not.
Found(r)   == request[r].sid # None /\ store[request[r].sid] # None
Stored(r)  == store[request[r].sid]
Without(r) == IF request[r].sid = None THEN store
              ELSE [store EXCEPT ![request[r].sid] = None]

\* NewID: 32 random bytes are not among the ids that anyone holds.
Fresh == {i \in Ids : /\ store[i] = None
                      /\ \A h \in Hosts : cookie[h] # i
                      /\ \A r \in Requests : i \notin {request[r].sid, request[r].state}}

SessionsTypeOK ==
  /\ store \in [Ids -> Session \cup {None}]
  /\ cookie \in [Hosts -> Ids \cup {None}]
  /\ request \in [Requests -> Request]
  /\ sso \in Logins \cup {None}
  /\ logins \in [Logins -> [at : Nat \cup {Never}, ended : Nat \cup {Never}]]
  /\ now \in Nat
  /\ \A r \in Requests : request[r].step \in {"refreshing", "renewed"} =>
       request[r].sid # None /\ request[r].token # NoToken

Init ==
  /\ store = [i \in Ids |-> None]
  /\ cookie = [h \in Hosts |-> None]
  /\ request \in [Requests -> {Idle(h) : h \in Hosts}]
  /\ sso = None
  /\ logins = [l \in Logins |-> [at |-> Never, ended |-> Never]]
  /\ now = 0

-----------------------------------------------------------------------------
(* A page is asked for (identify).                                         *)

Send(r, h) ==
  /\ At(r, "idle")
  /\ Moves(r, [Idle(h) EXCEPT !.step = "sent", !.sid = cookie[h]])
  /\ UNCHANGED <<store, cookie, sso, logins, now>>

\* startLogin, with st what is left in the store: who wants HTML is sent to
\* Keycloak with a new pending session, anyone else is refused.  Nobody knows
\* the new id yet, so a deletion before it is in the same step.
StartLogin(r, st) ==
  \/ /\ store' = st
     /\ Ends(r)
  \/ \E i \in Fresh :
       /\ store' = [st EXCEPT ![i] = Waiting]
       /\ Moves(r, [Idle(request[r].host) EXCEPT
                      !.step = "redirected", !.sid = i, !.state = i])

NoSession(r) ==
  /\ At(r, "sent")
  /\ Found(r) => ~Lapsed(Stored(r)) /\ Pending(Stored(r))
  /\ StartLogin(r, store)
  /\ UNCHANGED <<cookie, sso, logins, now>>

\* Get sees an expired session under the read lock and deletes whatever is
\* there under the write lock, a step later.
FindLapsed(r) ==
  /\ request[r].step \in {"sent", "callback"}
  /\ Found(r) /\ Lapsed(Stored(r))
  /\ Goes(r, "lapsed")
  /\ UNCHANGED <<store, cookie, sso, logins, now>>

DeleteLapsed(r) ==
  /\ At(r, "lapsed")
  /\ IF request[r].state = None
     THEN StartLogin(r, Without(r))
     ELSE store' = Without(r) /\ Ends(r)
  /\ UNCHANGED <<cookie, sso, logins, now>>

\* Mutant: whatever session is found counts as logged in.
UsableUnauthenticated(r) == At(r, "sent") /\ Found(r) /\ ~Lapsed(Stored(r))

Usable(r) ==
  /\ At(r, "sent")
  /\ Found(r) /\ ~Lapsed(Stored(r)) /\ ~Pending(Stored(r))

\* The token is good for a while and the request goes on with it.
Serve(r) ==
  /\ Usable(r) /\ ~Due(Stored(r)) /\ Valid(Stored(r).token)
  /\ Ends(r)
  /\ UNCHANGED <<store, cookie, sso, logins, now>>

\* Verify fails also for a good token, when Keycloak's keys cannot be had.
VerifyFails(r) ==
  /\ Usable(r) /\ ~Due(Stored(r))
  /\ StartLogin(r, Without(r))
  /\ UNCHANGED <<cookie, sso, logins, now>>

BeginRefresh(r) ==
  /\ Usable(r) /\ Due(Stored(r))
  /\ Moves(r, [request[r] EXCEPT !.step = "refreshing",
                 !.token = Stored(r).token, !.since = now])
  /\ UNCHANGED <<store, cookie, sso, logins, now>>

\* Mutant: the scope asks for offline access, which no sign-out ends.
RenewOffline(r) ==
  /\ At(r, "refreshing")
  /\ Moves(r, [request[r] EXCEPT !.step = "renewed",
                 !.token.exp = now + TokenLife])
  /\ UNCHANGED <<store, cookie, sso, logins, now>>

\* Keycloak renews the tokens of a login that lasts, and keeps its acr.
Renew(r) ==
  /\ At(r, "refreshing")
  /\ Live(request[r].token.login)
  /\ Moves(r, [request[r] EXCEPT !.step = "renewed",
                 !.token.exp = now + TokenLife])
  /\ UNCHANGED <<store, cookie, sso, logins, now>>

\* The answer is an error, is lost, or does not come within the timeout.
RefreshFails(r) ==
  /\ request[r].step \in {"refreshing", "renewed"}
  /\ StartLogin(r, Without(r))
  /\ UNCHANGED <<cookie, sso, logins, now>>

\* Put stores the request's own copy under its id, whatever is there by now.
ServeRenewed(r) ==
  /\ At(r, "renewed")
  /\ Valid(request[r].token)
  /\ store' = [store EXCEPT ![request[r].sid] = Put(request[r].token)]
  /\ Ends(r)
  /\ UNCHANGED <<cookie, sso, logins, now>>

-----------------------------------------------------------------------------
(* Keycloak and back (handleCallback).                                     *)

\* The browser gets the redirect, and with it the pending session's cookie.
Redirect(r) ==
  /\ At(r, "redirected")
  /\ cookie' = [cookie EXCEPT ![request[r].host] = request[r].sid]
  /\ Goes(r, "keycloak")
  /\ UNCHANGED <<store, sso, logins, now>>

\* Keycloak answers from its own session, with acr 0, or the person logs in.
\* The browser returns with the code, and the cookie of that moment.
ComesBack(r, login, acr) ==
  Moves(r, [request[r] EXCEPT !.step = "callback",
              !.sid = cookie[request[r].host],
              !.token = [login |-> login, acr |-> acr, exp |-> 0]])

SignOn(r) ==
  /\ At(r, "keycloak")
  /\ Live(sso)
  /\ ComesBack(r, sso, 0)
  /\ UNCHANGED <<store, cookie, sso, logins, now>>

LogIn(r, l) ==
  /\ At(r, "keycloak")
  /\ ~Live(sso) /\ logins[l].at = Never
  /\ logins' = [logins EXCEPT ![l].at = now]
  /\ sso' = l
  /\ ComesBack(r, l, 1)
  /\ UNCHANGED <<store, cookie, now>>

\* The state must be the one that the cookie's pending session waits for.
StateMatches(r) == request[r].sid = request[r].state /\ Pending(Stored(r))

Callback(r) ==
  /\ At(r, "callback")
  /\ Found(r) /\ ~Lapsed(Stored(r)) /\ StateMatches(r)
  /\ Moves(r, [request[r] EXCEPT !.step = "exchanging", !.since = now])
  /\ UNCHANGED <<store, cookie, sso, logins, now>>

RefuseCallback(r) ==
  /\ At(r, "callback")
  /\ Found(r) => ~Lapsed(Stored(r)) /\ ~StateMatches(r)
  /\ Ends(r)
  /\ UNCHANGED <<store, cookie, sso, logins, now>>

Exchange(r) ==
  /\ At(r, "exchanging")
  /\ Live(request[r].token.login)
  /\ Moves(r, [request[r] EXCEPT !.step = "exchanged",
                 !.token.exp = now + TokenLife])
  /\ UNCHANGED <<store, cookie, sso, logins, now>>

\* The exchange, the nonce or the token fails: the pending session stays.
ExchangeFails(r) ==
  /\ request[r].step \in {"exchanging", "exchanged"}
  /\ Ends(r)
  /\ UNCHANGED <<store, cookie, sso, logins, now>>

\* Mutant: the pending session becomes the authenticated one.
AdmitSameId(r) ==
  /\ At(r, "exchanged")
  /\ Valid(request[r].token)
  /\ store' = [store EXCEPT ![request[r].sid] = Put(request[r].token)]
  /\ Moves(r, [request[r] EXCEPT !.step = "admitted", !.token = NoToken,
                                 !.since = 0])
  /\ UNCHANGED <<cookie, sso, logins, now>>

\* The pending session is deleted and the authenticated one put under a new
\* id, which nobody knows before the answer.
Admit(r) ==
  /\ At(r, "exchanged")
  /\ Valid(request[r].token)
  /\ \E i \in Fresh :
       /\ store' = [Without(r) EXCEPT ![i] = Put(request[r].token)]
       /\ Moves(r, [request[r] EXCEPT !.step = "admitted", !.sid = i,
                      !.token = NoToken, !.since = 0])
  /\ UNCHANGED <<cookie, sso, logins, now>>

ReceiveSession(r) ==
  /\ At(r, "admitted")
  /\ cookie' = [cookie EXCEPT ![request[r].host] = request[r].sid]
  /\ Ends(r)
  /\ UNCHANGED <<store, sso, logins, now>>

-----------------------------------------------------------------------------
(* Signing out (handleLogout).                                             *)

AskSignOut(r, h) ==
  /\ At(r, "idle")
  /\ Moves(r, [Idle(h) EXCEPT !.step = "signout", !.sid = cookie[h]])
  /\ UNCHANGED <<store, cookie, sso, logins, now>>

\* The deleted session's ID token goes along, as a hint of the login to end.
HandleLogout(r) ==
  /\ At(r, "signout")
  /\ store' = Without(r)
  /\ Moves(r, [request[r] EXCEPT !.step = "signedout",
       !.token = IF Found(r) /\ ~Lapsed(Stored(r)) THEN Stored(r).token
                 ELSE NoToken])
  /\ UNCHANGED <<cookie, sso, logins, now>>

EndLogin(l) ==
  /\ logins' = IF Live(l) THEN [logins EXCEPT ![l].ended = now] ELSE logins
  /\ sso' = IF sso = l THEN None ELSE sso

\* The browser clears its cookie and follows the redirect to Keycloak, which
\* ends the login of the hint, or its own.  Other hosts are told nothing.
SignOut(r) ==
  /\ At(r, "signedout")
  /\ cookie' = [cookie EXCEPT ![request[r].host] = None]
  /\ EndLogin(IF request[r].token = NoToken THEN sso ELSE request[r].token.login)
  /\ Ends(r)
  /\ UNCHANGED <<store, now>>

-----------------------------------------------------------------------------
(* The surroundings.                                                       *)

\* A tab is closed, or a connection breaks, when nothing is left to store.
Abandon(r) ==
  /\ request[r].step \in {"sent", "redirected", "keycloak", "callback",
                          "admitted", "signout", "signedout"}
  /\ Ends(r)
  /\ UNCHANGED <<store, cookie, sso, logins, now>>

\* A cookie lapses, or the browser is closed.
Forget(h) ==
  /\ cookie[h] # None
  /\ cookie' = [cookie EXCEPT ![h] = None]
  /\ UNCHANGED <<store, request, sso, logins, now>>

\* Keycloak ends a login: idle, too long, or by an administrator.
Expire(l) ==
  /\ Live(l)
  /\ EndLogin(l)
  /\ UNCHANGED <<store, cookie, request, now>>

Reap ==
  /\ \E i \in Ids : store[i] # None /\ Lapsed(store[i])
  /\ store' = [i \in Ids |-> IF store[i] # None /\ Lapsed(store[i])
                             THEN None ELSE store[i]]
  /\ UNCHANGED <<cookie, request, sso, logins, now>>

\* ext-authz restarts: the store was memory, and what it was doing is lost.
Restart ==
  /\ store' = [i \in Ids |-> None]
  /\ request' = [r \in Requests |->
       IF request[r].step \in {"keycloak", "redirected", "admitted", "signedout"}
       THEN request[r] ELSE Idle(request[r].host)]
  /\ UNCHANGED <<cookie, sso, logins, now>>

\* A call to Keycloak is over by its deadline, and what follows on the answer
\* takes no time.
Tick ==
  /\ now < MaxTime
  /\ \A r \in Requests :
       request[r].step \in {"refreshing", "renewed", "exchanging", "exchanged"}
         => now < request[r].since + Timeout
  /\ now' = now + 1
  /\ UNCHANGED <<store, cookie, request, sso, logins>>

Next ==
  \/ \E r \in Requests :
       \/ \E h \in Hosts : Send(r, h) \/ AskSignOut(r, h)
       \/ NoSession(r) \/ FindLapsed(r) \/ DeleteLapsed(r)
       \/ Serve(r) \/ VerifyFails(r)
       \/ BeginRefresh(r) \/ Renew(r) \/ RefreshFails(r) \/ ServeRenewed(r)
       \/ Redirect(r) \/ SignOn(r) \/ (\E l \in Logins : LogIn(r, l))
       \/ Callback(r) \/ RefuseCallback(r)
       \/ Exchange(r) \/ ExchangeFails(r) \/ Admit(r) \/ ReceiveSession(r)
       \/ HandleLogout(r) \/ SignOut(r) \/ Abandon(r)
  \/ \E h \in Hosts : Forget(h)
  \/ \E l \in Logins : Expire(l)
  \/ Reap \/ Restart \/ Tick

Spec == Init /\ [][Next]_vars

-----------------------------------------------------------------------------
(* Properties.                                                             *)

\* A sign-out takes hold everywhere within one access token's lifetime: a
\* login that has ended, by whichever host or by Keycloak, is served no longer
\* than the last token issued to it can last, although other hosts keep their
\* sessions and a refresh may put back the one that was deleted (identify,
\* Refresh, Verify).
EndedFor(l, period) == logins[l].ended # Never /\ now > logins[l].ended + period

SignOutTakesHold ==
  [][\A r \in Requests :
       /\ Serve(r) => ~EndedFor(Stored(r).token.login, TokenLife)
       /\ ServeRenewed(r) => ~EndedFor(request[r].token.login, TokenLife)
    ]_vars

\* A token is renewed before it lapses: what identify takes from the store
\* without a refresh, or stores itself, is still valid, however long Keycloak's
\* answers were under way (the 15 seconds of identify against the 10 of post).
RenewedInTime ==
  /\ \A i \in Ids : store[i] # None =>
       Pending(store[i]) \/ Due(store[i]) \/ Valid(store[i].token)
  /\ \A r \in Requests :
       request[r].step \in {"renewed", "exchanged"} => Valid(request[r].token)

\* An id that the browser held before a login never names the session that
\* the login leads to, whatever other tabs do ("a fresh identifier on
\* privilege change", handleCallback).
IdentifiersRenewed ==
  \A r \in Requests : request[r].state # None =>
    store[request[r].state] = None \/ Pending(store[request[r].state])

\* A refresh that fails costs the session only if Keycloak has ended the login:
\* "a Keycloak outage then degrades new logins rather than all traffic".
OutageSparesSessions ==
  [][\A r \in Requests :
       RefreshFails(r) /\ Live(request[r].token.login) =>
         store'[request[r].sid] = store[request[r].sid]
    ]_vars

\* "Sign out from either app -> both require login again": when the browser
\* has followed the sign-out of a session, no host's cookie names another
\* session of the same login that identify would go on with.
SignOutEverywhere ==
  [][\A r \in Requests : SignOut(r) /\ request[r].token # NoToken =>
       \A h \in Hosts : LET s == store[cookie'[h]] IN
         cookie'[h] # None /\ s # None =>
           \/ Lapsed(s) \/ Pending(s) \/ Due(s)
           \/ s.token.login # request[r].token.login
    ]_vars
=============================================================================
