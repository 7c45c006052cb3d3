---------------------------- MODULE SessionsProofs -----------------------------
(***************************************************************************)
(* Theorems about the sessions, for every set of hosts, requests, ids and  *)
(* logins and for every choice of the lifetimes that TimesAssumption       *)
(* admits: the type invariant, that a token is renewed in time, that an id *)
(* from before a login never names the session it leads to, and that a     *)
(* sign-out takes hold within one token's lifetime.                        *)
(***************************************************************************)
EXTENDS Sessions, TLAPS

-----------------------------------------------------------------------------
(* The invariant.                                                          *)

\* A token that Keycloak has issued, or will for a code.
Issued == [login : Logins, acr : {0, 1}, exp : Nat]

Refreshing == {"refreshing", "renewed"}
Calling    == {"refreshing", "renewed", "exchanging", "exchanged"}

\* No token outlives the login it was issued for by more than TokenLife.
Bounded(token) ==
  token # NoToken =>
    /\ token.exp <= now + TokenLife
    /\ logins[token.login].ended # Never =>
         token.exp <= logins[token.login].ended + TokenLife

\* ExpiresAt counts from the receipt, which is later than the issue by no more
\* than the call's timeout.
SessionOK(s) ==
  /\ s \in Session
  /\ Bounded(s.token)
  /\ Pending(s) \/ s.expiresAt <= s.token.exp + Timeout

RequestOK(q) ==
  /\ q \in Request
  /\ Bounded(q.token)
  /\ q.step \in Calling \cup {"callback"} => q.token # NoToken
  /\ q.step \in Refreshing => q.sid # None
  /\ q.step \in Calling => q.since <= now /\ now <= q.since + Timeout
  /\ q.step \in {"renewed", "exchanged"} => q.since + TokenLife <= q.token.exp

\* What a request renews is under an id that no other waits for.
Apart ==
  \A r, p \in Requests :
    request[r].step \in Refreshing => request[p].state # request[r].sid

SessionsInv ==
  /\ SessionsTypeOK
  /\ \A i \in Ids : store[i] # None => SessionOK(store[i])
  /\ \A r \in Requests : RequestOK(request[r])
  /\ IdentifiersRenewed
  /\ Apart

-----------------------------------------------------------------------------
(* Records.                                                                *)

\* A token is one that Keycloak has issued, or none.
LEMMA Tokens ==
  /\ NoToken \in Token /\ NoToken \notin Issued /\ Issued \subseteq Token
  /\ \A t \in Token : t # NoToken => t \in Issued
BY NoneAssumption DEF NoToken, Token, Issued

\* A request that remembers nothing but its host.
LEMMA IdleIs ==
  ASSUME NEW h \in Hosts
  PROVE  /\ Idle(h) \in Request /\ Idle(h).step = "idle" /\ Idle(h).host = h
         /\ Idle(h).sid = None /\ Idle(h).state = None
         /\ Idle(h).token = NoToken /\ Idle(h).since = 0
BY Tokens DEF Idle, Request, Steps

-----------------------------------------------------------------------------
(* What a step keeps.                                                      *)

\* What the invariant says of one request.
LEMMA InvFacts ==
  ASSUME SessionsInv, NEW r \in Requests
  PROVE  /\ request[r] \in Request /\ RequestOK(request[r])
         /\ request[r].host \in Hosts /\ request[r].step \in Steps
         /\ request[r].sid \in Ids \cup {None}
         /\ request[r].state \in Ids \cup {None}
         /\ request[r].token \in Token /\ request[r].since \in Nat
         /\ now \in Nat
BY DEF SessionsInv, SessionsTypeOK, Request

\* What it says of the session a request has found.
LEMMA StoredFacts ==
  ASSUME SessionsInv, NEW r \in Requests, Found(r)
  PROVE  /\ request[r].sid \in Ids /\ Stored(r) = store[request[r].sid]
         /\ Stored(r) \in Session /\ SessionOK(Stored(r))
         /\ Stored(r).token \in Token
         /\ Stored(r).expiresAt \in Nat /\ Stored(r).expiresIn \in Nat
<1>1. request[r].sid \in Ids /\ store[request[r].sid] # None
  BY InvFacts DEF Found
<1>2. SessionOK(Stored(r)) /\ Stored(r) \in Session
  BY <1>1 DEF SessionsInv, Stored, SessionOK
<1> QED
  BY <1>1, <1>2 DEF Session, Stored

\* Time and Keycloak leave a token's bound in place.
StillBounded == \A t \in Token : Bounded(t) => Bounded(t)'

\* Tokens stay bounded while no login ends and no time passes.
LEMMA SameBounds ==
  UNCHANGED <<logins, now>> => StillBounded
BY DEF StillBounded, Bounded

\* So do sessions,
LEMMA SessionStays ==
  ASSUME NEW s, SessionOK(s), StillBounded
  PROVE  SessionOK(s)'
<1>1. s.token \in Token
  BY DEF SessionOK, Session
<1> QED
  BY <1>1 DEF SessionOK, StillBounded, Pending

\* and requests.
LEMMA RequestStays ==
  ASSUME NEW q, RequestOK(q), StillBounded, now' = now
  PROVE  RequestOK(q)'
<1>1. q.token \in Token
  BY DEF RequestOK, Request
<1> QED
  BY <1>1 DEF RequestOK, StillBounded

\* The store loses sessions, or nothing happens to it.
Shrinks(st) ==
  /\ st \in [Ids -> Session \cup {None}]
  /\ \A i \in Ids : st[i] \in {store[i], None}

\* A deletion adds no session.
LEMMA WithoutShrinks ==
  ASSUME SessionsInv, NEW r \in Requests
  PROVE  Shrinks(Without(r)) /\ Shrinks(store)
BY InvFacts DEF SessionsInv, SessionsTypeOK, Shrinks, Without

\* A request that moves: it goes on with the id it renews, if it renews any,
\* and waits for no other state.
Succeeds(q, r) ==
  /\ q.state \in {request[r].state, None}
  /\ q.step \in Refreshing =>
       request[r].step \in Refreshing /\ q.sid = request[r].sid

\* When a login was made and when it ended.
Lifetimes == [Logins -> [at : Nat \cup {Never}, ended : Nat \cup {Never}]]
USE DEF Lifetimes

Surroundings ==
  /\ cookie' \in [Hosts -> Ids \cup {None}]
  /\ sso' \in Logins \cup {None}
  /\ logins' \in Lifetimes
  /\ now' = now
  /\ StillBounded

\* A step that leaves browser, Keycloak and clock alone.
LEMMA SameSurroundings ==
  SessionsInv /\ UNCHANGED <<cookie, sso, logins, now>> => Surroundings
BY SameBounds DEF SessionsInv, SessionsTypeOK, Surroundings

\* All of the invariant but the last two parts, which relate requests.
LEMMA MoveIsOK ==
  ASSUME SessionsInv, Surroundings, store' \in [Ids -> Session \cup {None}],
         \A i \in Ids : store'[i] \in {store[i], None} \/ SessionOK(store'[i]),
         NEW r \in Requests, NEW q, RequestOK(q), Moves(r, q)
  PROVE  /\ SessionsTypeOK'
         /\ \A i \in Ids : store'[i] # None => SessionOK(store[i])'
         /\ \A p \in Requests : RequestOK(request[p])'
         /\ \A p \in Requests : request'[p] = IF p = r THEN q ELSE request[p]
<1>1. \A p \in Requests : request'[p] = IF p = r THEN q ELSE request[p]
  BY DEF Moves, SessionsInv, SessionsTypeOK
<1>2. \A p \in Requests : RequestOK(request[p])'
  <2> SUFFICES ASSUME NEW p \in Requests PROVE RequestOK(request[p])'
    OBVIOUS
  <2>1. PICK o : o = request'[p]
    OBVIOUS
  <2>2. RequestOK(o)
    BY <1>1, <2>1 DEF SessionsInv
  <2> QED
    BY <2>1, <2>2, RequestStays DEF Surroundings
<1>3. \A i \in Ids : store'[i] # None => SessionOK(store[i])'
  <2> SUFFICES ASSUME NEW i \in Ids, store'[i] # None
               PROVE  SessionOK(store[i])'
    OBVIOUS
  <2>1. PICK s : s = store'[i]
    OBVIOUS
  <2>2. SessionOK(s)
    BY <2>1 DEF SessionsInv
  <2> QED
    BY <2>1, <2>2, SessionStays DEF Surroundings
<1>4. SessionsTypeOK'
  <2>1. request' \in [Requests -> Request]
    BY DEF Moves, SessionsInv, SessionsTypeOK, RequestOK
  <2>2. now' \in Nat
    BY DEF Surroundings, SessionsInv, SessionsTypeOK
  <2>3. \A p \in Requests : request'[p].step \in {"refreshing", "renewed"} =>
          request'[p].sid # None /\ request'[p].token # NoToken
    BY <1>2 DEF RequestOK, Refreshing, Calling
  <2> QED
    BY <2>1, <2>2, <2>3 DEF SessionsTypeOK, Surroundings
<1> QED
  BY <1>1, <1>2, <1>3, <1>4

\* A request goes on, and the store at most shrinks.
LEMMA MoveKeeps ==
  ASSUME SessionsInv, Surroundings, Shrinks(store'), NEW r \in Requests,
         NEW q, RequestOK(q), Succeeds(q, r), Moves(r, q)
  PROVE  SessionsInv'
<1>1. /\ SessionsTypeOK'
      /\ \A i \in Ids : store'[i] # None => SessionOK(store[i])'
      /\ \A p \in Requests : RequestOK(request[p])'
      /\ \A p \in Requests : request'[p] = IF p = r THEN q ELSE request[p]
  BY MoveIsOK DEF Shrinks
<1>2. \A p \in Requests :
        /\ request'[p].state \in {request[p].state, None}
        /\ request'[p].step \in Refreshing =>
             request[p].step \in Refreshing /\ request'[p].sid = request[p].sid
  BY <1>1 DEF Succeeds
<1>3. IdentifiersRenewed'
  BY <1>2, InvFacts DEF IdentifiersRenewed, SessionsInv, Shrinks, Pending
<1>4. Apart'
  BY <1>1, <1>2 DEF Apart, SessionsInv, RequestOK
<1> QED
  BY <1>1, <1>3, <1>4 DEF SessionsInv

\* Nothing happens to the requests.
LEMMA StandStill ==
  ASSUME SessionsInv, Surroundings, Shrinks(store'), request' = request
  PROVE  SessionsInv'
<1>1. \A p \in Requests : RequestOK(request[p])'
  <2> SUFFICES ASSUME NEW p \in Requests PROVE RequestOK(request[p])'
    OBVIOUS
  <2>1. PICK o : o = request'[p]
    OBVIOUS
  <2>2. RequestOK(o)
    BY <2>1 DEF SessionsInv
  <2> QED
    BY <2>1, <2>2, RequestStays DEF Surroundings
<1>2. \A i \in Ids : store'[i] # None => SessionOK(store[i])'
  <2> SUFFICES ASSUME NEW i \in Ids, store'[i] # None
               PROVE  SessionOK(store[i])'
    OBVIOUS
  <2>1. PICK s : s = store'[i]
    OBVIOUS
  <2>2. SessionOK(s)
    BY <2>1 DEF SessionsInv, Shrinks
  <2> QED
    BY <2>1, <2>2, SessionStays DEF Surroundings
<1>3. SessionsTypeOK'
  BY DEF SessionsTypeOK, SessionsInv, Surroundings, Shrinks
<1>4. IdentifiersRenewed'
  BY InvFacts DEF IdentifiersRenewed, SessionsInv, Shrinks, Pending
<1>5. Apart'
  BY DEF Apart, SessionsInv
<1> QED
  BY <1>1, <1>2, <1>3, <1>4, <1>5 DEF SessionsInv

\* A request that remembers nothing is in order, and may follow on any.
LEMMA IdleOK ==
  ASSUME NEW h \in Hosts, NEW r \in Requests
  PROVE  RequestOK(Idle(h)) /\ Succeeds(Idle(h), r)
BY IdleIs DEF RequestOK, Succeeds, Bounded, Refreshing, Calling

\* What startLogin puts is a session without a token.
LEMMA WaitingIs ==
  ASSUME SessionsInv
  PROVE  Waiting \in Session /\ SessionOK(Waiting) /\ Pending(Waiting)
<1>1. Waiting \in Session
  BY Tokens, TimesAssumption
  DEF Waiting, Session, SessionsInv, SessionsTypeOK
<1>2. Waiting.token = NoToken
  BY DEF Waiting
<1> QED
  BY <1>1, <1>2 DEF SessionOK, Bounded, Pending

\* Sending a browser to Keycloak, with whatever is left in the store.
LEMMA StartLoginKeeps ==
  ASSUME SessionsInv, Surroundings, NEW r \in Requests, NEW st, Shrinks(st),
         StartLogin(r, st)
  PROVE  SessionsInv'
<1> DEFINE h == request[r].host
<1>1. h \in Hosts
  BY InvFacts
<1>2. CASE store' = st /\ Ends(r)
  <2>1. Shrinks(store') /\ Moves(r, Idle(h))
    BY <1>2 DEF Ends
  <2> QED
    BY <2>1, <1>1, IdleOK, MoveKeeps
<1>3. ASSUME NEW i \in Fresh, store' = [st EXCEPT ![i] = Waiting],
             Moves(r, [Idle(h) EXCEPT
                         !.step = "redirected", !.sid = i, !.state = i])
      PROVE  SessionsInv'
  <2>1. i \in Ids
    BY DEF Fresh
  <2>2. PICK q : q = [Idle(h) EXCEPT
                        !.step = "redirected", !.sid = i, !.state = i]
    OBVIOUS
  <2>3. /\ q \in Request /\ q.step = "redirected" /\ q.sid = i
        /\ q.state = i /\ q.token = NoToken
    <3>1. PICK o : o = Idle(h)
      OBVIOUS
    <3>2. o \in Request /\ o.token = NoToken
      BY <1>1, <3>1, IdleIs
    <3>3. "redirected" \in Steps
      BY DEF Steps
    <3>4. q = [o EXCEPT !.step = "redirected", !.sid = i, !.state = i]
      BY <2>2, <3>1
    <3> QED
      BY <2>1, <3>2, <3>3, <3>4 DEF Request
  <2>4. RequestOK(q) /\ Moves(r, q)
    BY <1>3, <2>2, <2>3 DEF RequestOK, Bounded, Calling, Refreshing
  <2>5. /\ store' \in [Ids -> Session \cup {None}] /\ store'[i] = Waiting
        /\ \A j \in Ids : j # i => store'[j] \in {store[j], None}
    BY <1>3, <2>1, WaitingIs DEF Shrinks
  <2>6. \A j \in Ids : store'[j] \in {store[j], None} \/ SessionOK(store'[j])
    BY <2>5, WaitingIs
  <2>7. /\ SessionsTypeOK'
        /\ \A j \in Ids : store'[j] # None => SessionOK(store[j])'
        /\ \A p \in Requests : RequestOK(request[p])'
        /\ \A p \in Requests : request'[p] = IF p = r THEN q ELSE request[p]
    BY <2>4, <2>5, <2>6, MoveIsOK
  <2>8. \A p \in Requests : i # request[p].sid /\ i # request[p].state
    BY DEF Fresh
  <2>9. IdentifiersRenewed'
    <3> SUFFICES ASSUME NEW p \in Requests, request'[p].state # None
                 PROVE  \/ store'[request'[p].state] = None
                        \/ store'[request'[p].state].token = NoToken
      BY DEF IdentifiersRenewed, Pending
    <3>1. CASE p = r
      BY <3>1, <2>3, <2>5, <2>7, WaitingIs DEF Pending
    <3>2. CASE p # r
      BY <3>2, <2>5, <2>7, <2>8, InvFacts
      DEF SessionsInv, IdentifiersRenewed, Pending
    <3> QED
      BY <3>1, <3>2
  <2>10. Apart'
    BY <2>3, <2>7, <2>8 DEF Apart, SessionsInv, Refreshing
  <2> QED
    BY <2>7, <2>9, <2>10 DEF SessionsInv
<1> QED
  BY <1>2, <1>3 DEF StartLogin

-----------------------------------------------------------------------------
(* The steps of a request.                                                 *)

\* A request ends, and the store loses at most sessions.
LEMMA EndKeeps ==
  ASSUME SessionsInv, Surroundings, Shrinks(store'), NEW r \in Requests,
         Ends(r)
  PROVE  SessionsInv'
<1> DEFINE h == request[r].host
<1>1. h \in Hosts /\ Moves(r, Idle(h))
  BY InvFacts DEF Ends
<1>2. RequestOK(Idle(h)) /\ Succeeds(Idle(h), r)
  BY <1>1, IdleOK
<1> QED
  BY <1>1, <1>2, MoveKeeps

\* A request goes on, where it makes no call.
LEMMA GoOnKeeps ==
  ASSUME SessionsInv, Surroundings, Shrinks(store'), NEW r \in Requests,
         NEW to \in Steps \ (Calling \cup {"callback"}), Goes(r, to)
  PROVE  SessionsInv'
<1>1. PICK o : o = request[r]
  OBVIOUS
<1>2. PICK q : q = [o EXCEPT !.step = to]
  OBVIOUS
<1>3. o \in Request /\ Bounded(o.token)
  BY <1>1, InvFacts DEF RequestOK
<1>4. /\ q \in Request /\ q.step = to /\ q.state = o.state
      /\ q.token = o.token
  BY <1>2, <1>3 DEF Request
<1>5. RequestOK(q) /\ Succeeds(q, r) /\ Moves(r, q)
  <2>1. Moves(r, q)
    BY <1>1, <1>2 DEF Goes
  <2>2. q.step \notin Calling \cup {"callback"} /\ q.step \notin Refreshing
    BY <1>4 DEF Calling, Refreshing
  <2>3. q.step \notin {"renewed", "exchanged"}
    BY <2>2 DEF Calling
  <2> QED
    BY <1>1, <1>3, <1>4, <2>1, <2>2, <2>3 DEF RequestOK, Succeeds
<1> QED
  BY <1>5, MoveKeeps

\* The browser sends a request or asks to sign out.
LEMMA SendKeeps ==
  ASSUME SessionsInv, NEW r \in Requests, NEW h \in Hosts,
         Send(r, h) \/ AskSignOut(r, h)
  PROVE  SessionsInv'
<1>1. Surroundings /\ Shrinks(store')
  BY SameSurroundings, WithoutShrinks DEF Send, AskSignOut, Shrinks
<1>2. PICK to \in {"sent", "signout"} :
        Moves(r, [Idle(h) EXCEPT !.step = to, !.sid = cookie[h]])
  BY DEF Send, AskSignOut
<1>3. PICK o, i : o = Idle(h) /\ i = cookie[h]
  OBVIOUS
<1>4. PICK q : q = [o EXCEPT !.step = to, !.sid = i]
  OBVIOUS
<1>5. o \in Request /\ o.state = None /\ o.token = NoToken
  BY <1>3, IdleIs
<1>6. i \in Ids \cup {None}
  BY <1>3 DEF SessionsInv, SessionsTypeOK
<1>7. to \in Steps
  BY DEF Steps
<1>8. q \in Request /\ q.step = to /\ q.state = None /\ q.token = NoToken
  BY <1>4, <1>5, <1>6, <1>7 DEF Request
<1>9. RequestOK(q) /\ Succeeds(q, r) /\ Moves(r, q)
  BY <1>2, <1>3, <1>4, <1>8
  DEF RequestOK, Succeeds, Bounded, Calling, Refreshing
<1> QED
  BY <1>1, <1>9, MoveKeeps

\* The call to Keycloak begins with a token that has been issued.
LEMMA BeginRefreshKeeps ==
  ASSUME SessionsInv, NEW r \in Requests, BeginRefresh(r)
  PROVE  SessionsInv'
<1>1. Surroundings /\ store' = store
  BY SameSurroundings DEF BeginRefresh
<1>2. PICK o, t : o = request[r] /\ t = Stored(r).token
  OBVIOUS
<1>3. PICK q : q = [o EXCEPT !.step = "refreshing", !.token = t, !.since = now]
  OBVIOUS
<1>4. /\ o \in Request /\ o.sid \in Ids /\ store[o.sid] # None
      /\ t \in Token /\ Bounded(t) /\ t # NoToken
      /\ t = store[o.sid].token
  BY <1>2, InvFacts, StoredFacts
  DEF BeginRefresh, Usable, Pending, SessionOK, Found, Stored
<1>5. now \in Nat /\ "refreshing" \in Steps
  BY InvFacts DEF Steps
<1>6. /\ q \in Request /\ q.step = "refreshing" /\ q.sid = o.sid
      /\ q.state = o.state /\ q.token = t /\ q.since = now
  BY <1>3, <1>4, <1>5 DEF Request
<1>7. Moves(r, q)
  BY <1>2, <1>3 DEF BeginRefresh
<1>8. o.sid # None
  BY <1>4, NoneAssumption
<1>9. RequestOK(q)
  BY <1>4, <1>5, <1>6, <1>8, TimesAssumption DEF RequestOK
<1>10. /\ SessionsTypeOK'
       /\ \A i \in Ids : store'[i] # None => SessionOK(store[i])'
       /\ \A p \in Requests : RequestOK(request[p])'
       /\ \A p \in Requests : request'[p] = IF p = r THEN q ELSE request[p]
  BY <1>1, <1>7, <1>9, MoveIsOK DEF SessionsInv, SessionsTypeOK
<1>11. \A p \in Requests : request'[p].state = request[p].state
  BY <1>2, <1>6, <1>10
<1>12. IdentifiersRenewed'
  BY <1>1, <1>11 DEF SessionsInv, IdentifiersRenewed, Pending
\* No one waits for the session: it is not a pending one.
<1>13. \A p \in Requests : request[p].state # o.sid
  BY <1>4, <1>8 DEF SessionsInv, IdentifiersRenewed, Pending
<1>14. Apart'
  BY <1>6, <1>10, <1>11, <1>13 DEF SessionsInv, Apart
<1> QED
  BY <1>10, <1>12, <1>14 DEF SessionsInv

\* Keycloak answers: the token is good for its lifetime, from now.
LEMMA AnswerKeeps ==
  ASSUME SessionsInv, NEW r \in Requests, Renew(r) \/ Exchange(r)
  PROVE  SessionsInv'
<1>1. Surroundings /\ Shrinks(store')
  BY SameSurroundings, WithoutShrinks DEF Renew, Exchange, Shrinks
<1>2. PICK o : o = request[r]
  OBVIOUS
<1>3. PICK to \in {"renewed", "exchanged"} :
        /\ o.step = IF to = "renewed" THEN "refreshing" ELSE "exchanging"
        /\ Moves(r, [request[r] EXCEPT !.step = to,
                       !.token.exp = now + TokenLife])
        /\ Live(o.token.login)
  BY <1>2 DEF Renew, Exchange, At
<1>4. PICK q : q = [o EXCEPT !.step = to, !.token.exp = now + TokenLife]
  OBVIOUS
<1>5. PICK exp : exp = now + TokenLife
  OBVIOUS
<1>6. o \in Request /\ RequestOK(o) /\ o.token \in Issued
  BY <1>2, <1>3, InvFacts, Tokens DEF RequestOK, Calling, Request
<1>7. /\ to \in Steps /\ exp \in Nat /\ now \in Nat
      /\ TokenLife \in Nat /\ Timeout \in Nat
  BY <1>5, InvFacts, TimesAssumption DEF Steps
<1>8. PICK t : t = [o.token EXCEPT !.exp = exp]
  OBVIOUS
<1>9. t \in Issued /\ t.exp = exp /\ t.login = o.token.login
  BY <1>6, <1>7, <1>8 DEF Issued
<1>10. q = [o EXCEPT !.step = to, !.token = t]
  BY <1>4, <1>5, <1>6, <1>8 DEF Request
<1>11. /\ q \in Request /\ q.step = to /\ q.sid = o.sid
       /\ q.state = o.state /\ q.since = o.since /\ q.token = t
  BY <1>6, <1>7, <1>9, <1>10, Tokens DEF Request
<1>12. Bounded(t)
  BY <1>3, <1>5, <1>7, <1>9 DEF Bounded, Live
<1>13. /\ o.sid \in Ids \cup {None} /\ o.since \in Nat
       /\ o.since <= now /\ now <= o.since + Timeout
       /\ o.step \in Refreshing => o.sid # None
  BY <1>3, <1>6 DEF RequestOK, Calling, Request
<1>14. RequestOK(q)
  <2>1. q.token # NoToken
    BY <1>9, <1>11, Tokens
  <2>2. q.step \in Refreshing => q.sid # None
    BY <1>3, <1>11, <1>13 DEF Refreshing
  <2>3. q.since + TokenLife <= q.token.exp
    BY <1>5, <1>7, <1>9, <1>11, <1>13
  <2> QED
    BY <1>11, <1>12, <1>13, <2>1, <2>2, <2>3 DEF RequestOK
<1>15. Moves(r, q) /\ Succeeds(q, r)
  BY <1>2, <1>3, <1>4, <1>11 DEF Succeeds, Refreshing
<1> QED
  BY <1>1, <1>14, <1>15, MoveKeeps

\* What a refresh or a login stores: ExpiresAt counts from the receipt.
LEMMA PutIs ==
  ASSUME SessionsInv, NEW r \in Requests,
         request[r].step \in {"renewed", "exchanged"}
  PROVE  /\ Put(request[r].token) \in Session
         /\ SessionOK(Put(request[r].token))
<1>1. PICK o, t, s : o = request[r] /\ t = o.token /\ s = Put(t)
  OBVIOUS
<1>2. /\ o.since \in Nat /\ t \in Issued /\ t \in Token /\ Bounded(t)
      /\ now <= o.since + Timeout /\ o.since + TokenLife <= t.exp
  BY <1>1, InvFacts, Tokens DEF RequestOK, Calling
<1>3. now \in Nat /\ TokenLife \in Nat /\ TTL \in Nat /\ Timeout \in Nat
  BY InvFacts, TimesAssumption
<1>4. s = [token |-> t, expiresAt |-> now + TokenLife, expiresIn |-> now + TTL]
  BY <1>1 DEF Put
<1>5. s \in Session /\ s.token = t /\ s.expiresAt = now + TokenLife
  BY <1>2, <1>3, <1>4 DEF Session
<1>6. s.expiresAt <= t.exp + Timeout
  <2>1. t.exp \in Nat
    BY <1>2 DEF Issued
  <2> QED
    BY <1>2, <1>3, <1>5, <2>1
<1> QED
  BY <1>1, <1>2, <1>5, <1>6 DEF SessionOK

\* What a request stores is under the id of an authenticated session, or under
\* none, and the token counts from before its receipt.
LEMMA ServeRenewedKeeps ==
  ASSUME SessionsInv, NEW r \in Requests, ServeRenewed(r)
  PROVE  SessionsInv'
<1> DEFINE h == request[r].host
<1>1. Surroundings
  BY SameSurroundings DEF ServeRenewed
<1>2. h \in Hosts /\ Moves(r, Idle(h))
  BY InvFacts DEF ServeRenewed, Ends
<1>3. RequestOK(Idle(h)) /\ Idle(h).state = None /\ Idle(h).step = "idle"
  BY <1>2, IdleOK, IdleIs
<1>4. PICK sid, t : sid = request[r].sid /\ t = request[r].token
  OBVIOUS
<1>5. Put(t) \in Session /\ SessionOK(Put(t))
  BY <1>4, PutIs DEF ServeRenewed, At
<1>6. /\ sid \in Ids /\ store' = [store EXCEPT ![sid] = Put(t)]
      /\ request[r].step \in Refreshing
  BY <1>4, InvFacts DEF ServeRenewed, At, RequestOK, Refreshing
<1>7. /\ store' \in [Ids -> Session \cup {None}]
      /\ \A i \in Ids : store'[i] = IF i = sid THEN Put(t) ELSE store[i]
  BY <1>5, <1>6 DEF SessionsInv, SessionsTypeOK
<1>8. \A i \in Ids : store'[i] \in {store[i], None} \/ SessionOK(store'[i])
  BY <1>5, <1>7
<1>9. /\ SessionsTypeOK'
      /\ \A i \in Ids : store'[i] # None => SessionOK(store[i])'
      /\ \A p \in Requests : RequestOK(request[p])'
      /\ \A p \in Requests :
           request'[p] = IF p = r THEN Idle(h) ELSE request[p]
  BY <1>1, <1>2, <1>3, <1>7, <1>8, MoveIsOK
<1>10. \A p \in Requests : request[p].state # sid
  BY <1>4, <1>6 DEF SessionsInv, Apart
<1>11. IdentifiersRenewed'
  <2> SUFFICES ASSUME NEW p \in Requests, request'[p].state # None
               PROVE  \/ store'[request'[p].state] = None
                      \/ store'[request'[p].state].token = NoToken
    BY DEF IdentifiersRenewed, Pending
  <2>1. p # r /\ request'[p] = request[p]
    BY <1>3, <1>9
  <2> QED
    BY <1>7, <1>10, <2>1, InvFacts DEF SessionsInv, IdentifiersRenewed, Pending
<1>12. Apart'
  <2>1. \A p \in Requests :
          \/ request'[p] = request[p]
          \/ request'[p].step = "idle" /\ request'[p].state = None
    <3>1. \A p \in Requests : request'[p] \in {request[p], Idle(h)}
      BY <1>9
    <3> QED
      BY <1>3, <3>1
  <2>2. "idle" \notin Refreshing
    BY DEF Refreshing
  <2>3. \A p \in Requests :
          request[p].step \in Refreshing => request[p].sid # None
    BY DEF SessionsInv, RequestOK
  <2> QED
    BY <2>1, <2>2, <2>3 DEF SessionsInv, Apart
<1> QED
  BY <1>9, <1>11, <1>12 DEF SessionsInv

\* The login's session is under an id that is no one's.
LEMMA AdmitKeeps ==
  ASSUME SessionsInv, NEW r \in Requests, Admit(r)
  PROVE  SessionsInv'
<1>1. Surroundings
  BY SameSurroundings DEF Admit
<1>2. PICK o, t : o = request[r] /\ t = o.token
  OBVIOUS
<1>3. PICK i \in Fresh :
        /\ store' = [Without(r) EXCEPT ![i] = Put(t)]
        /\ Moves(r, [o EXCEPT !.step = "admitted", !.sid = i,
                       !.token = NoToken, !.since = 0])
  BY <1>2 DEF Admit
<1>4. PICK q : q = [o EXCEPT !.step = "admitted", !.sid = i,
                      !.token = NoToken, !.since = 0]
  OBVIOUS
<1>5. /\ i \in Ids
      /\ \A p \in Requests : i \notin {request[p].sid, request[p].state}
  BY DEF Fresh
<1>6. o \in Request /\ "admitted" \in Steps
  BY <1>2, InvFacts DEF Steps
<1>7. /\ q \in Request /\ q.step = "admitted" /\ q.sid = i
      /\ q.state = o.state /\ q.token = NoToken
  BY <1>4, <1>5, <1>6, Tokens DEF Request
<1>8. RequestOK(q) /\ Moves(r, q)
  BY <1>3, <1>4, <1>7 DEF RequestOK, Bounded, Calling, Refreshing
<1>9. Put(t) \in Session /\ SessionOK(Put(t))
  BY <1>2, PutIs DEF Admit, At
<1>10. /\ store' \in [Ids -> Session \cup {None}] /\ store'[i] = Put(t)
       /\ \A j \in Ids : j # i => store'[j] \in {store[j], None}
  BY <1>3, <1>5, <1>9, WithoutShrinks DEF Shrinks
<1>11. \A j \in Ids : store'[j] \in {store[j], None} \/ SessionOK(store'[j])
  BY <1>9, <1>10
<1>12. /\ SessionsTypeOK'
       /\ \A j \in Ids : store'[j] # None => SessionOK(store[j])'
       /\ \A p \in Requests : RequestOK(request[p])'
       /\ \A p \in Requests : request'[p] = IF p = r THEN q ELSE request[p]
  BY <1>1, <1>8, <1>10, <1>11, MoveIsOK
<1>13. \A p \in Requests : request'[p].state = request[p].state
  BY <1>2, <1>7, <1>12
<1>14. IdentifiersRenewed'
  BY <1>5, <1>10, <1>13, InvFacts DEF SessionsInv, IdentifiersRenewed, Pending
<1>15. Apart'
  BY <1>7, <1>12, <1>13 DEF SessionsInv, Apart, Refreshing
<1> QED
  BY <1>12, <1>14, <1>15 DEF SessionsInv

\* The browser returns from Keycloak, or has its state looked at.
LEMMA ComesBackKeeps ==
  ASSUME SessionsInv, Surroundings, Shrinks(store'), NEW r \in Requests,
         NEW l \in Logins, NEW acr \in {0, 1}, ComesBack(r, l, acr)
  PROVE  SessionsInv'
<1>1. PICK o, i, t : /\ o = request[r] /\ i = cookie[o.host]
                     /\ t = [login |-> l, acr |-> acr, exp |-> 0]
  OBVIOUS
<1>2. PICK q : q = [o EXCEPT !.step = "callback", !.sid = i, !.token = t]
  OBVIOUS
<1>3. o \in Request /\ i \in Ids \cup {None} /\ "callback" \in Steps
  BY <1>1, InvFacts DEF SessionsInv, SessionsTypeOK, Steps
<1>4. t \in Issued /\ t \in Token /\ t # NoToken
  <2>1. t \in Issued
    BY <1>1 DEF Issued
  <2> QED
    BY <2>1, Tokens
<1>5. /\ q \in Request /\ q.step = "callback" /\ q.sid = i
      /\ q.state = o.state /\ q.token = t
  BY <1>2, <1>3, <1>4 DEF Request
<1>6. Bounded(t)
  <2>1. t.exp = 0 /\ t.login = l
    BY <1>1
  <2>2. now \in Nat /\ TokenLife \in Nat
    BY InvFacts, TimesAssumption
  <2>3. logins[l].ended \in Nat \cup {Never}
    BY DEF SessionsInv, SessionsTypeOK
  <2> QED
    BY <2>1, <2>2, <2>3 DEF Bounded
<1>7. RequestOK(q) /\ Succeeds(q, r)
  BY <1>1, <1>4, <1>5, <1>6 DEF RequestOK, Succeeds, Calling, Refreshing
<1>8. Moves(r, q)
  BY <1>1, <1>2 DEF ComesBack
<1> QED
  BY <1>7, <1>8, MoveKeeps

\* Keycloak answers from its login, or has the person log in.
LEMMA SignOnKeeps ==
  ASSUME SessionsInv, NEW r \in Requests,
         SignOn(r) \/ \E l \in Logins : LogIn(r, l)
  PROVE  SessionsInv'
<1>1. CASE SignOn(r)
  <2>1. Surroundings /\ Shrinks(store')
    BY <1>1, SameSurroundings, WithoutShrinks DEF SignOn, Shrinks
  <2>2. sso \in Logins /\ ComesBack(r, sso, 0)
    BY <1>1 DEF SignOn, Live, SessionsInv, SessionsTypeOK
  <2> QED
    BY <2>1, <2>2, ComesBackKeeps
<1>2. ASSUME NEW l \in Logins, LogIn(r, l) PROVE SessionsInv'
  <2>1. Shrinks(store') /\ now' = now /\ cookie' = cookie /\ sso' = l
    BY <1>2, WithoutShrinks DEF LogIn, Shrinks
  <2>2. /\ logins' \in Lifetimes
        /\ \A m \in Logins : logins'[m].ended = logins[m].ended
    BY <1>2 DEF LogIn, SessionsInv, SessionsTypeOK
  <2>3. StillBounded
    BY <2>1, <2>2, Tokens DEF StillBounded, Bounded, Issued
  <2>4. Surroundings
    BY <2>1, <2>2, <2>3 DEF Surroundings, SessionsInv, SessionsTypeOK
  <2>5. ComesBack(r, l, 1)
    BY <1>2 DEF LogIn
  <2> QED
    BY <2>1, <2>4, <2>5, ComesBackKeeps
<1> QED
  BY <1>1, <1>2

\* The code is exchanged: a call begins.
LEMMA CallbackKeeps ==
  ASSUME SessionsInv, NEW r \in Requests, Callback(r)
  PROVE  SessionsInv'
<1>1. Surroundings /\ Shrinks(store')
  BY SameSurroundings, WithoutShrinks DEF Callback, Shrinks
<1>2. PICK o : o = request[r]
  OBVIOUS
<1>3. PICK q : q = [o EXCEPT !.step = "exchanging", !.since = now]
  OBVIOUS
<1>4. /\ o \in Request /\ Bounded(o.token) /\ o.token # NoToken
      /\ now \in Nat /\ "exchanging" \in Steps /\ Timeout \in Nat
  BY <1>2, InvFacts, TimesAssumption DEF Callback, At, RequestOK, Steps
<1>5. /\ q \in Request /\ q.step = "exchanging" /\ q.sid = o.sid
      /\ q.state = o.state /\ q.token = o.token /\ q.since = now
  BY <1>3, <1>4 DEF Request
<1>6. RequestOK(q) /\ Succeeds(q, r)
  BY <1>2, <1>4, <1>5 DEF RequestOK, Succeeds, Refreshing
<1>7. Moves(r, q)
  BY <1>2, <1>3 DEF Callback
<1> QED
  BY <1>1, <1>6, <1>7, MoveKeeps

\* Steps that leave no call under way and put nothing in the store.
LEMMA LocalKeeps ==
  ASSUME SessionsInv, NEW r \in Requests,
         \/ NoSession(r) \/ FindLapsed(r) \/ DeleteLapsed(r) \/ Serve(r)
         \/ VerifyFails(r) \/ RefreshFails(r) \/ RefuseCallback(r)
         \/ ExchangeFails(r) \/ Abandon(r)
  PROVE  SessionsInv'
<1>1. Surroundings
  BY SameSurroundings
  DEF NoSession, FindLapsed, DeleteLapsed, Serve, VerifyFails, RefreshFails,
      RefuseCallback, ExchangeFails, Abandon
<1>2. Shrinks(Without(r)) /\ Shrinks(store)
  BY WithoutShrinks
<1>3. CASE FindLapsed(r)
  <2>1. Goes(r, "lapsed") /\ Shrinks(store')
    BY <1>2, <1>3 DEF FindLapsed, Shrinks
  <2>2. "lapsed" \in Steps \ (Calling \cup {"callback"})
    BY DEF Steps, Calling
  <2> QED
    BY <1>1, <2>1, <2>2, GoOnKeeps
<1>4. CASE StartLogin(r, store) \/ StartLogin(r, Without(r))
  BY <1>1, <1>2, <1>4, StartLoginKeeps
<1>5. CASE Ends(r) /\ store' \in {store, Without(r)}
  <2>1. Shrinks(store')
    BY <1>2, <1>5 DEF Shrinks
  <2> QED
    BY <1>1, <1>5, <2>1, EndKeeps
<1> QED
  BY <1>3, <1>4, <1>5
  DEF NoSession, DeleteLapsed, Serve, VerifyFails, RefreshFails,
      RefuseCallback, ExchangeFails, Abandon

\* The browser takes the cookie of an answer.
LEMMA CookieKeeps ==
  ASSUME SessionsInv, NEW r \in Requests, Redirect(r) \/ ReceiveSession(r)
  PROVE  SessionsInv'
<1>1. Shrinks(store') /\ UNCHANGED <<sso, logins, now>>
  BY WithoutShrinks DEF Redirect, ReceiveSession, Shrinks
<1>2. cookie' \in [Hosts -> Ids \cup {None}]
  BY InvFacts DEF Redirect, ReceiveSession, SessionsInv, SessionsTypeOK
<1>3. Surroundings
  BY <1>1, <1>2, SameBounds DEF Surroundings, SessionsInv, SessionsTypeOK
<1>4. "keycloak" \in Steps \ (Calling \cup {"callback"})
  BY DEF Steps, Calling
<1>5. Goes(r, "keycloak") \/ Ends(r)
  BY DEF Redirect, ReceiveSession
<1> QED
  BY <1>1, <1>3, <1>4, <1>5, GoOnKeeps, EndKeeps

\* The session is deleted, and its token is the hint.
LEMMA HandleLogoutKeeps ==
  ASSUME SessionsInv, NEW r \in Requests, HandleLogout(r)
  PROVE  SessionsInv'
<1>1. Surroundings /\ Shrinks(store')
  BY SameSurroundings, WithoutShrinks DEF HandleLogout, Shrinks
<1>2. PICK o : o = request[r]
  OBVIOUS
<1>3. PICK t : t = IF Found(r) /\ ~Lapsed(Stored(r)) THEN Stored(r).token
                   ELSE NoToken
  OBVIOUS
<1>4. PICK q : q = [o EXCEPT !.step = "signedout", !.token = t]
  OBVIOUS
<1>5. t \in Token /\ Bounded(t)
  BY <1>3, StoredFacts, Tokens DEF SessionOK, Bounded
<1>6. o \in Request /\ "signedout" \in Steps
  BY <1>2, InvFacts DEF Steps
<1>7. /\ q \in Request /\ q.step = "signedout"
      /\ q.state = o.state /\ q.token = t
  BY <1>4, <1>5, <1>6 DEF Request
<1>8. RequestOK(q) /\ Succeeds(q, r)
  BY <1>2, <1>5, <1>7 DEF RequestOK, Succeeds, Calling, Refreshing
<1>9. Moves(r, q)
  BY <1>2, <1>3, <1>4 DEF HandleLogout
<1> QED
  BY <1>1, <1>8, <1>9, MoveKeeps

\* The tokens of a login that ends now last no longer than any other's.
LEMMA EndLoginBounds ==
  ASSUME SessionsInv, NEW l \in Logins \cup {None}, EndLogin(l), now' = now
  PROVE  /\ StillBounded /\ sso' \in Logins \cup {None}
         /\ logins' \in Lifetimes
<1>1. now \in Nat /\ TokenLife \in Nat /\ Never \notin Nat
  BY TimesAssumption, NoneAssumption DEF SessionsInv, SessionsTypeOK
<1>2. sso' \in Logins \cup {None}
  BY DEF EndLogin, SessionsInv, SessionsTypeOK
<1>3. /\ logins' \in Lifetimes
      /\ \A m \in Logins : logins'[m].ended \in {logins[m].ended, now}
  BY <1>1 DEF EndLogin, Live, SessionsInv, SessionsTypeOK
<1>4. StillBounded
  <2> SUFFICES ASSUME NEW t \in Token, Bounded(t) PROVE Bounded(t)'
    BY DEF StillBounded
  <2>1. CASE t = NoToken
    BY <2>1 DEF Bounded
  <2>2. CASE t # NoToken
    <3>1. t.login \in Logins
      BY <2>2, Tokens DEF Issued
    <3> QED
      BY <1>3, <2>2, <3>1 DEF Bounded
  <2> QED
    BY <2>1, <2>2
<1> QED
  BY <1>2, <1>3, <1>4

\* Keycloak ends the login.
LEMMA SignOutKeeps ==
  ASSUME SessionsInv, NEW r \in Requests, SignOut(r)
  PROVE  SessionsInv'
<1>1. PICK t, l : /\ t = request[r].token
                  /\ l = IF t = NoToken THEN sso ELSE t.login
  OBVIOUS
<1>2. l \in Logins \cup {None}
  BY <1>1, InvFacts, Tokens DEF Issued, SessionsInv, SessionsTypeOK
<1>3. EndLogin(l) /\ now' = now /\ Ends(r) /\ store' = store
  BY <1>1 DEF SignOut
<1>4. cookie' \in [Hosts -> Ids \cup {None}]
  BY DEF SignOut, SessionsInv, SessionsTypeOK
<1>5. Surroundings
  BY <1>2, <1>3, <1>4, EndLoginBounds DEF Surroundings
<1>6. Shrinks(store')
  BY <1>3, WithoutShrinks DEF Shrinks
<1> QED
  BY <1>3, <1>5, <1>6, EndKeeps

-----------------------------------------------------------------------------
(* The steps of the surroundings.                                          *)

\* The browser drops a cookie.
LEMMA ForgetKeeps ==
  ASSUME SessionsInv, NEW h \in Hosts, Forget(h)
  PROVE  SessionsInv'
<1>1. /\ cookie' \in [Hosts -> Ids \cup {None}]
      /\ sso' \in Logins \cup {None}
      /\ logins' \in Lifetimes
  BY DEF Forget, SessionsInv, SessionsTypeOK
<1>2. Surroundings
  BY <1>1, SameBounds DEF Forget, Surroundings
<1>3. Shrinks(store') /\ request' = request
  BY DEF Forget, Shrinks, SessionsInv, SessionsTypeOK
<1> QED
  BY <1>2, <1>3, StandStill

\* A login ends elsewhere.
LEMMA ExpireKeeps ==
  ASSUME SessionsInv, NEW l \in Logins, Expire(l)
  PROVE  SessionsInv'
<1>1. EndLogin(l) /\ now' = now /\ request' = request
  BY DEF Expire
<1>2. Surroundings
  BY <1>1, EndLoginBounds
  DEF Expire, Surroundings, SessionsInv, SessionsTypeOK
<1>3. Shrinks(store')
  BY DEF Expire, Shrinks, SessionsInv, SessionsTypeOK
<1> QED
  BY <1>1, <1>2, <1>3, StandStill

\* The sweep deletes what has lapsed.
LEMMA ReapKeeps ==
  ASSUME SessionsInv, Reap
  PROVE  SessionsInv'
<1>1. Surroundings /\ request' = request
  BY SameSurroundings DEF Reap
<1>2. Shrinks(store')
  BY DEF Reap, Shrinks, SessionsInv, SessionsTypeOK
<1> QED
  BY <1>1, <1>2, StandStill

\* A restart ends the calls, and with them what they would have stored.
LEMMA RestartKeeps ==
  ASSUME SessionsInv, Restart
  PROVE  SessionsInv'
<1>1. UNCHANGED <<cookie, sso, logins, now>> /\ StillBounded
  BY SameBounds DEF Restart
<1>2. /\ store' \in [Ids -> Session \cup {None}]
      /\ \A i \in Ids : store'[i] = None
  BY DEF Restart
<1>3. \A p \in Requests :
        \/ request'[p] = Idle(request[p].host)
        \/ /\ request'[p] = request[p]
           /\ request[p].step \notin Refreshing
  BY DEF Restart, Refreshing
<1>4. \A p \in Requests :
        RequestOK(request'[p]) /\ request'[p].step \notin Refreshing
  <2> SUFFICES ASSUME NEW p \in Requests
               PROVE  /\ RequestOK(request'[p])
                      /\ request'[p].step \notin Refreshing
    OBVIOUS
  <2>1. CASE request'[p] = request[p] /\ request[p].step \notin Refreshing
    BY <2>1, InvFacts
  <2>2. CASE request'[p] = Idle(request[p].host)
    <3>1. PICK h \in Hosts : h = request[p].host
      BY InvFacts
    <3>2. RequestOK(Idle(h)) /\ Idle(h).step \notin Refreshing
      BY IdleOK, IdleIs DEF Refreshing
    <3> QED
      BY <2>2, <3>1, <3>2
  <2> QED
    BY <1>3, <2>1, <2>2
<1>5. \A p \in Requests : RequestOK(request[p])'
  <2> SUFFICES ASSUME NEW p \in Requests PROVE RequestOK(request[p])'
    OBVIOUS
  <2>1. PICK o : o = request'[p]
    OBVIOUS
  <2>2. RequestOK(o)
    BY <1>4, <2>1
  <2> QED
    BY <1>1, <2>1, <2>2, RequestStays
<1>6. request' \in [Requests -> Request]
  BY <1>4 DEF Restart, RequestOK
<1>7. SessionsTypeOK'
  BY <1>1, <1>2, <1>4, <1>6 DEF SessionsInv, SessionsTypeOK, Refreshing
<1>8. IdentifiersRenewed'
  <2>1. \A p \in Requests : request'[p].state \in Ids \cup {None}
    BY <1>6 DEF Request
  <2> QED
    BY <1>2, <2>1 DEF IdentifiersRenewed
<1>9. Apart'
  BY <1>4 DEF Apart
<1> QED
  BY <1>2, <1>5, <1>7, <1>8, <1>9 DEF SessionsInv

\* Time waits for the answers of Keycloak as long as their deadline.
LEMMA TickKeeps ==
  ASSUME SessionsInv, Tick
  PROVE  SessionsInv'
<1>1. /\ UNCHANGED <<store, cookie, request, sso, logins>>
      /\ now \in Nat /\ now' = now + 1
      /\ TokenLife \in Nat /\ Timeout \in Nat
  BY TimesAssumption DEF Tick, SessionsInv, SessionsTypeOK
<1>2. StillBounded
  <2> SUFFICES ASSUME NEW t \in Token, Bounded(t) PROVE Bounded(t)'
    BY DEF StillBounded
  <2>1. t # NoToken => t.exp \in Nat
    BY Tokens DEF Issued
  <2> QED
    BY <1>1, <2>1 DEF Bounded
<1>3. \A i \in Ids : store'[i] # None => SessionOK(store[i])'
  <2> SUFFICES ASSUME NEW i \in Ids, store'[i] # None
               PROVE  SessionOK(store[i])'
    OBVIOUS
  <2>1. PICK s : s = store[i]
    OBVIOUS
  <2>2. SessionOK(s) /\ s = store'[i]
    BY <1>1, <2>1 DEF SessionsInv
  <2> QED
    BY <1>2, <2>2, SessionStays
<1>4. \A p \in Requests : RequestOK(request[p])'
  <2> SUFFICES ASSUME NEW p \in Requests PROVE RequestOK(request[p])'
    OBVIOUS
  <2>1. PICK q : q = request[p]
    OBVIOUS
  <2>2. RequestOK(q) /\ q = request'[p]
    BY <1>1, <2>1 DEF SessionsInv
  <2>3. q.token \in Token /\ q.since \in Nat
    BY <2>2 DEF RequestOK, Request
  <2>4. q.step \in Calling => now < q.since + Timeout
    BY <2>1 DEF Tick, Calling
  <2>5. q.step \in Calling => q.since <= now' /\ now' <= q.since + Timeout
    BY <1>1, <2>2, <2>3, <2>4 DEF RequestOK
  <2>6. RequestOK(q)'
    BY <1>2, <2>2, <2>3, <2>5 DEF RequestOK, StillBounded
  <2> QED
    BY <2>2, <2>6
<1>5. SessionsTypeOK' /\ IdentifiersRenewed' /\ Apart'
  <2>1. now' \in Nat
    BY <1>1
  <2> QED
    BY <1>1, <2>1
    DEF SessionsInv, SessionsTypeOK, IdentifiersRenewed, Apart, Pending
<1> QED
  BY <1>3, <1>4, <1>5 DEF SessionsInv

-----------------------------------------------------------------------------
(* The theorems.                                                           *)

\* No session, no request, no login at the beginning.
LEMMA SessionsInitially == Init => SessionsInv
<1> SUFFICES ASSUME Init PROVE SessionsInv
  OBVIOUS
<1>1. \A r \in Requests : \E h \in Hosts : request[r] = Idle(h)
  BY DEF Init
<1>2. \A r \in Requests :
        /\ RequestOK(request[r]) /\ request[r].state = None
        /\ request[r].step = "idle"
  <2> SUFFICES ASSUME NEW r \in Requests
               PROVE  /\ RequestOK(request[r]) /\ request[r].state = None
                      /\ request[r].step = "idle"
    OBVIOUS
  <2>1. PICK h \in Hosts : request[r] = Idle(h)
    BY <1>1
  <2>2. RequestOK(Idle(h)) /\ Idle(h).state = None /\ Idle(h).step = "idle"
    BY IdleOK, IdleIs
  <2> QED
    BY <2>1, <2>2
<1>3. request \in [Requests -> Request]
  <2>1. request \in [Requests -> {Idle(h) : h \in Hosts}]
    BY DEF Init
  <2>2. {Idle(h) : h \in Hosts} \subseteq Request
    BY IdleIs
  <2> QED
    BY <2>1, <2>2
<1>4. SessionsTypeOK
  BY <1>2, <1>3 DEF Init, SessionsTypeOK
<1>5. IdentifiersRenewed /\ Apart
  BY <1>2 DEF IdentifiersRenewed, Apart, Refreshing
<1>6. \A i \in Ids : store[i] = None
  BY DEF Init
<1> QED
  BY <1>2, <1>4, <1>5, <1>6 DEF SessionsInv

\* Every step keeps the invariant.
LEMMA SessionsPreserved == SessionsInv /\ [Next]_vars => SessionsInv'
<1> SUFFICES ASSUME SessionsInv, [Next]_vars PROVE SessionsInv'
  OBVIOUS
<1>1. CASE UNCHANGED vars
  <2>1. Surroundings /\ Shrinks(store') /\ request' = request
    BY <1>1, SameSurroundings DEF vars, Shrinks, SessionsInv, SessionsTypeOK
  <2> QED
    BY <2>1, StandStill
<1>2. ASSUME NEW r \in Requests, NEW h \in Hosts, Send(r, h) \/ AskSignOut(r, h)
      PROVE  SessionsInv'
  BY <1>2, SendKeeps
<1>3. ASSUME NEW r \in Requests,
             \/ NoSession(r) \/ FindLapsed(r) \/ DeleteLapsed(r) \/ Serve(r)
             \/ VerifyFails(r) \/ RefreshFails(r) \/ RefuseCallback(r)
             \/ ExchangeFails(r) \/ Abandon(r)
      PROVE  SessionsInv'
  BY <1>3, LocalKeeps
<1>4. ASSUME NEW r \in Requests, BeginRefresh(r)
      PROVE  SessionsInv'
  BY <1>4, BeginRefreshKeeps
<1>5. ASSUME NEW r \in Requests, Renew(r) \/ Exchange(r)
      PROVE  SessionsInv'
  BY <1>5, AnswerKeeps
<1>6. ASSUME NEW r \in Requests, ServeRenewed(r)
      PROVE  SessionsInv'
  BY <1>6, ServeRenewedKeeps
<1>7. ASSUME NEW r \in Requests, Redirect(r) \/ ReceiveSession(r)
      PROVE  SessionsInv'
  BY <1>7, CookieKeeps
<1>8. ASSUME NEW r \in Requests, SignOn(r) \/ \E l \in Logins : LogIn(r, l)
      PROVE  SessionsInv'
  BY <1>8, SignOnKeeps
<1>9. ASSUME NEW r \in Requests, Callback(r)
      PROVE  SessionsInv'
  BY <1>9, CallbackKeeps
<1>10. ASSUME NEW r \in Requests, Admit(r)
       PROVE  SessionsInv'
  BY <1>10, AdmitKeeps
<1>11. ASSUME NEW r \in Requests, HandleLogout(r)
       PROVE  SessionsInv'
  BY <1>11, HandleLogoutKeeps
<1>12. ASSUME NEW r \in Requests, SignOut(r)
       PROVE  SessionsInv'
  BY <1>12, SignOutKeeps
<1>13. ASSUME NEW h \in Hosts, Forget(h)
       PROVE  SessionsInv'
  BY <1>13, ForgetKeeps
<1>14. ASSUME NEW l \in Logins, Expire(l)
       PROVE  SessionsInv'
  BY <1>14, ExpireKeeps
<1>15. CASE Reap \/ Restart \/ Tick
  BY <1>15, ReapKeeps, RestartKeeps, TickKeeps
<1> QED
  BY <1>1, <1>2, <1>3, <1>4, <1>5, <1>6, <1>7, <1>8, <1>9, <1>10, <1>11,
     <1>12, <1>13, <1>14, <1>15 DEF Next

\* Store, requests and logins agree, always.
LEMMA SessionsInvariant == Spec => []SessionsInv
BY SessionsInitially, SessionsPreserved, PTL DEF Spec

\* The store, the browser's cookies and the local variables of the requests
\* hold values of their types; a request that renews has a session and a token
\* (memStore, identify).
THEOREM SessionsTypeCorrect == Spec => []SessionsTypeOK
<1>1. SessionsInv => SessionsTypeOK
  BY DEF SessionsInv
<1> QED
  BY <1>1, SessionsInvariant, PTL

\* What identify takes from the store without a refresh, or stores itself, is
\* valid: the skew covers the longest call, whatever the lifetimes are.
THEOREM TokensRenewedInTime == Spec => []RenewedInTime
<1>1. SessionsInv => RenewedInTime
  <2> SUFFICES ASSUME SessionsInv PROVE RenewedInTime
    OBVIOUS
  <2>1. /\ now \in Nat /\ Skew \in Nat /\ Timeout \in Nat /\ TokenLife \in Nat
        /\ Timeout <= Skew /\ Skew < TokenLife
    BY TimesAssumption DEF SessionsInv, SessionsTypeOK
  <2>2. ASSUME NEW i \in Ids, store[i] # None
        PROVE  Pending(store[i]) \/ Due(store[i]) \/ Valid(store[i].token)
    <3>1. PICK s : s = store[i]
      OBVIOUS
    <3>2. SessionOK(s)
      BY <2>2, <3>1 DEF SessionsInv
    <3>3. s.expiresAt \in Nat /\ s.token \in Token
      BY <3>2 DEF SessionOK, Session
    <3>4. Pending(s) \/ s.token.exp \in Nat
      BY <3>3, Tokens DEF Pending, Issued
    <3>5. Pending(s) \/ now + Skew > s.expiresAt \/ now <= s.token.exp
      BY <2>1, <3>2, <3>3, <3>4 DEF SessionOK
    <3> QED
      BY <3>1, <3>5 DEF Due, Valid
  <2>3. ASSUME NEW r \in Requests, request[r].step \in {"renewed", "exchanged"}
        PROVE  Valid(request[r].token)
    <3>1. PICK q : q = request[r]
      OBVIOUS
    <3>2. /\ RequestOK(q) /\ q.step \in {"renewed", "exchanged"}
          /\ q.since \in Nat /\ q.token \in Token
      BY <2>3, <3>1, InvFacts
    <3>3. /\ q.since + TokenLife <= q.token.exp /\ now <= q.since + Timeout
          /\ q.token # NoToken
      BY <3>2 DEF RequestOK, Calling
    <3>4. q.token.exp \in Nat
      BY <3>2, <3>3, Tokens DEF Issued
    <3>5. now <= q.token.exp
      BY <2>1, <3>2, <3>3, <3>4
    <3> QED
      BY <3>1, <3>5 DEF Valid
  <2> QED
    BY <2>2, <2>3 DEF RenewedInTime
<1> QED
  BY <1>1, SessionsInvariant, PTL

\* An id that the browser held before its login never names the session that
\* the login leads to, however many tabs and refreshes there are
\* (handleCallback, identify).
THEOREM LoginRenewsIdentifier == Spec => []IdentifiersRenewed
<1>1. SessionsInv => IdentifiersRenewed
  BY DEF SessionsInv
<1> QED
  BY <1>1, SessionsInvariant, PTL

\* A login that has ended is served no longer than the last token issued to it
\* can last, whichever host ended it and whatever a refresh put back
\* (identify, handleLogout).
THEOREM SignOutIsBounded == Spec => SignOutTakesHold
<1> DEFINE Takes(r) ==
      /\ Serve(r) => ~EndedFor(Stored(r).token.login, TokenLife)
      /\ ServeRenewed(r) => ~EndedFor(request[r].token.login, TokenLife)
<1>1. ASSUME SessionsInv, NEW t \in Token, t # NoToken, Bounded(t), Valid(t)
      PROVE  ~EndedFor(t.login, TokenLife)
  <2>1. t.exp \in Nat /\ t.login \in Logins
    BY <1>1, Tokens DEF Issued
  <2>2. now \in Nat /\ TokenLife \in Nat
    BY <1>1, TimesAssumption DEF SessionsInv, SessionsTypeOK
  <2>3. logins[t.login].ended # Never => logins[t.login].ended \in Nat
    BY <1>1, <2>1 DEF SessionsInv, SessionsTypeOK
  <2> QED
    BY <1>1, <2>1, <2>2, <2>3 DEF EndedFor, Bounded, Valid
<1>2. SessionsInv => \A r \in Requests : Takes(r)
  <2> SUFFICES ASSUME SessionsInv, NEW r \in Requests PROVE Takes(r)
    OBVIOUS
  <2>1. CASE Serve(r)
    <3>1. Found(r) /\ ~Pending(Stored(r)) /\ Valid(Stored(r).token)
      BY <2>1 DEF Serve, Usable
    <3>2. PICK t : t = Stored(r).token
      OBVIOUS
    <3>3. t \in Token /\ t # NoToken /\ Bounded(t) /\ Valid(t)
      BY <3>1, <3>2, StoredFacts DEF SessionOK, Pending
    <3>4. ~EndedFor(Stored(r).token.login, TokenLife)
      BY <1>1, <3>2, <3>3
    <3>5. ~ServeRenewed(r)
      BY <2>1 DEF Serve, ServeRenewed, Usable, At
    <3> QED
      BY <3>4, <3>5
  <2>2. CASE ServeRenewed(r)
    <3>1. At(r, "renewed") /\ Valid(request[r].token)
      BY <2>2 DEF ServeRenewed
    <3>2. PICK t : t = request[r].token
      OBVIOUS
    <3>3. t \in Token /\ t # NoToken /\ Bounded(t) /\ Valid(t)
      BY <3>1, <3>2, InvFacts DEF RequestOK, At, Calling
    <3>4. ~EndedFor(request[r].token.login, TokenLife)
      BY <1>1, <3>2, <3>3
    <3>5. ~Serve(r)
      BY <3>1 DEF Serve, Usable, At
    <3> QED
      BY <3>4, <3>5
  <2> QED
    BY <2>1, <2>2
<1> QED
  BY <1>2, SessionsInvariant, PTL DEF SignOutTakesHold
=============================================================================
