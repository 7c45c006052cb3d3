---------------------------- MODULE AccountConsole ----------------------------
(***************************************************************************)
(* The account console (cmd/account-app): how people change the graph.     *)
(* Consent, revocation and withdrawal are one SpiceDB transaction each.    *)
(* Creating a delegation and decommissioning an identity are not: they     *)
(* check, and then write in one or two further calls, so other handlers,   *)
(* other people and the operators' scripts run in between.                 *)
(***************************************************************************)
EXTENDS Relationships

CONSTANTS
  Handlers,     \* HTTP handler goroutines that make more than one call
  Asks,         \* [Agents -> SUBSET Capabilities], catalogue.yaml `requests`
  Sensitive,    \* the capabilities catalogue.yaml marks sensitive
  TTLs,         \* the lifetimes a delegation form may carry
  DefaultTTL,   \* the first entry of catalogue.yaml `delegationTTLs`
  MaxTTL,       \* 24 hours
  LastWrite,    \* bound: no delegation is written after this time
  MaxTime       \* bound: the clock stops here

ASSUME CatalogueAssumption ==
  /\ Asks \in [Agents -> SUBSET Capabilities]
  /\ Sensitive \subseteq Capabilities
ASSUME LifetimeAssumption ==
  /\ TTLs \subseteq Int
  /\ MaxTTL \in Nat
  /\ DefaultTTL \in 1..MaxTTL
ASSUME BoundAssumption == LastWrite \in Nat /\ MaxTime \in Nat

VARIABLES
  graph,    \* the relationships SpiceDB returns
  now,      \* the clock expiries are compared with
  handler   \* [Handlers -> HandlerState]

consoleVars == <<graph, now, handler>>

-----------------------------------------------------------------------------
\* What an agent may be granted: what it asks for, less the sensitive.
Delegatable(a) == {c \in Asks[a] : c \notin Sensitive}

\* Mutant: a lifetime longer than a day is accepted.
UnboundedTTL(ttl) == IF ttl <= 0 THEN DefaultTTL ELSE ttl

\* A lifetime that does not parse (0), is not positive, or exceeds a day
\* becomes the catalogue's first one.
EffectiveTTL(ttl) == IF ttl <= 0 \/ ttl > MaxTTL THEN DefaultTTL ELSE ttl

\* The identities a decommission form may name.
Identities ==
  {Agent(a) : a \in Agents} \cup {SystemPrincipal(d) : d \in Devices}

Idle == [step |-> "idle"]

HandlerState ==
  {Idle}
  \cup [step : {"enrolled"}, user : Users, agent : Agents,
        caps : SUBSET Capabilities, ttl : Int]
  \cup [step : {"operated"}, target : Identities]
  \cup [step : {"removed"}, target : {Agent(a) : a \in Agents}]

ConsoleTypeOK ==
  /\ graph \subseteq Relationship
  /\ now \in Nat
  /\ handler \in [Handlers -> HandlerState]

Init ==
  /\ graph = Seed
  /\ now = 0
  /\ handler = [h \in Handlers |-> Idle]

-----------------------------------------------------------------------------
(* Consent.  The subject is always the authenticated principal.            *)

GrantConsent(u, p, caps) ==
  /\ caps # {}
  /\ graph' = Grant(graph, u, p, caps)
  /\ UNCHANGED <<now, handler>>

RevokeConsent(u, p, caps) ==
  /\ graph' = Revoke(graph, u, p, caps)
  /\ UNCHANGED <<now, handler>>

-----------------------------------------------------------------------------
(* Delegation: validate the form, ask whether the agent is enrolled, write.*)

BeginDelegation(h, u, a, caps, ttl) ==
  /\ handler[h] = Idle
  /\ caps # {}
  /\ caps \subseteq Delegatable(a)
  /\ EnrolledFor(graph, a, u)
  /\ handler' = [handler EXCEPT ![h] =
       [step |-> "enrolled", user |-> u, agent |-> a, caps |-> caps,
        ttl |-> EffectiveTTL(ttl)]]
  /\ UNCHANGED <<graph, now>>

\* The expiry is reckoned from the write, not from the form.
WriteDelegation(h) ==
  /\ handler[h].step = "enrolled"
  /\ now <= LastWrite
  /\ graph' = Delegate(graph, handler[h].user, handler[h].agent,
                       handler[h].caps, now + handler[h].ttl)
  /\ handler' = [handler EXCEPT ![h] = Idle]
  /\ UNCHANGED now

WithdrawDelegation(u, a, caps) ==
  /\ graph' = Undelegate(graph, u, a, caps)
  /\ UNCHANGED <<now, handler>>

-----------------------------------------------------------------------------
(* Decommissioning: ask whether the caller operates the identity, delete   *)
(* what hangs off it, then, for an agent, what names it as delegate.       *)

BeginDecommission(h, u, target) ==
  /\ handler[h] = Idle
  /\ Operates(graph, target, u)
  /\ handler' = [handler EXCEPT ![h] =
       [step |-> "operated", target |-> target]]
  /\ UNCHANGED <<graph, now>>

\* Mutant: what is no agent is taken through the second deletion as well.
RemoveAnyIdentity(h) ==
  /\ handler[h].step = "operated"
  /\ graph' = WithoutResource(graph, handler[h].target)
  /\ handler' = [handler EXCEPT ![h].step = "removed"]
  /\ UNCHANGED now

RemoveIdentity(h) ==
  /\ handler[h].step = "operated"
  /\ graph' = WithoutResource(graph, handler[h].target)
  /\ handler' = [handler EXCEPT ![h] =
       IF handler[h].target.type = "agent"
       THEN [handler[h] EXCEPT !.step = "removed"]
       ELSE Idle]
  /\ UNCHANGED now

RemoveDelegations(h) ==
  /\ handler[h].step = "removed"
  /\ graph' = WithoutDelegate(graph, handler[h].target)
  /\ handler' = [handler EXCEPT ![h] = Idle]
  /\ UNCHANGED now

\* SpiceDB errs, the call times out, the browser goes away, the pod dies:
\* the handler answers 502, or nobody, and what it has written stays.
GiveUp(h) ==
  /\ handler[h] # Idle
  /\ handler' = [handler EXCEPT ![h] = Idle]
  /\ UNCHANGED <<graph, now>>

-----------------------------------------------------------------------------
(* What is outside the console: operators' scripts, and time.              *)

\* scripts/lifecycle.sh onboard_agent, its one relationship.
OnboardAgent(a, u) ==
  /\ graph' = Touch(graph, {Lasting(Agent(a), "operator", User(u))})
  /\ UNCHANGED <<now, handler>>

\* scripts/lifecycle.sh enrol_agent.
EnrolAgent(a, u) ==
  /\ graph' = Touch(graph, {Lasting(Agent(a), "enrolled_for", User(u))})
  /\ UNCHANGED <<now, handler>>

\* Time passes, and SpiceDB stops returning what has expired.
Tick ==
  /\ now < MaxTime
  /\ now' = now + 1
  /\ graph' = Unexpired(graph, now + 1)
  /\ UNCHANGED handler

-----------------------------------------------------------------------------
ConsoleStep ==
  \/ \E u \in Users, p \in Applications, caps \in SUBSET Capabilities :
       GrantConsent(u, p, caps) \/ RevokeConsent(u, p, caps)
  \/ \E h \in Handlers, u \in Users, a \in Agents,
        caps \in SUBSET Capabilities, ttl \in TTLs :
       BeginDelegation(h, u, a, caps, ttl)
  \/ \E h \in Handlers : WriteDelegation(h)
  \/ \E u \in Users, a \in Agents, caps \in SUBSET Capabilities :
       WithdrawDelegation(u, a, caps)
  \/ \E h \in Handlers, u \in Users, target \in Identities :
       BeginDecommission(h, u, target)
  \/ \E h \in Handlers : RemoveIdentity(h) \/ RemoveDelegations(h)
  \/ \E h \in Handlers : GiveUp(h)

Environment ==
  \/ \E a \in Agents, u \in Users : OnboardAgent(a, u) \/ EnrolAgent(a, u)
  \/ Tick

Next == ConsoleStep \/ Environment

Spec == Init /\ [][Next]_consoleVars

\* Time does not stop.  Nothing else is owed: no person need ever act, and a
\* handler may die at any point.
FairSpec == Spec /\ WF_consoleVars(Tick)

-----------------------------------------------------------------------------
(* Properties.                                                             *)

\* A delegation is never a standing privilege and never reaches past the
\* step-up boundary: whatever handlers raced to write it, each capability an
\* agent holds is one it may ask for, is not sensitive, and lapses within a
\* day (createDelegation, Delegatable, writer.Delegate).
DelegationsBounded ==
  \A e \in graph : e.res.type = "delegation" /\ e.rel = "granted" =>
    /\ e.exp # Never
    /\ e.exp <= now + MaxTTL
    /\ \E c \in Delegatable(e.res.id[2]) : e.sub = Capability(c)

\* Whatever a person granted, she can be found by and can take back: a live
\* consent names its subject and grantee and a live delegation its delegator,
\* at every point of concurrent grants, partial and whole revocations and
\* decommissions (writer.Grant, Revoke, Delegate, Undelegate, Decommission).
GrantsAreRevocable ==
  \A e \in graph : e.rel = "granted" =>
    LET u == e.res.id[1] IN
    /\ e.res.type = "consent_grant" =>
         /\ Permitted(graph, e.res, "revoke", User(u))
         /\ Related(graph, e.res, "grantee", Application(e.res.id[2]))
    /\ e.res.type = "delegation" =>
         Permitted(graph, e.res, "revoke", User(u))

\* A delegation nobody remembers to remove stops working anyway: every
\* delegated capability is eventually gone although no one withdraws it
\* (schema.zed `with expiration`, writer.Delegate).
DelegationsLapse ==
  \A u \in Users, a \in Agents, c \in Capabilities :
    Delegated(graph, u, a, c) ~> ~Delegated(graph, u, a, c)

\* Nothing non-human acts unowned: an agent enrolled to act for somebody and
\* a device that may push telemetry have an operator who answers for them.
NothingActsUnowned ==
  /\ \A a \in Agents :
       (\E u \in Users : EnrolledFor(graph, a, u)) =>
         \E u \in Users : Operates(graph, Agent(a), u)
  /\ \A d \in Devices :
       Permitted(graph, Device(d), "push_telemetry", SystemPrincipal(d)) =>
         \E u \in Users : Operates(graph, SystemPrincipal(d), u)

\* Once a decommission of an agent has run to its end, no account page lists
\* the agent as holding anything.
DecommissionedHoldsNothing ==
  [][\A h \in Handlers :
       (handler[h].step = "removed" /\ RemoveDelegations(h)) =>
         \A u \in Users, a \in Agents :
           handler[h].target = Agent(a) => a \notin DelegationsListed(graph', u)
    ]_consoleVars
=============================================================================
