------------------------- MODULE AccountConsoleProofs -------------------------
(***************************************************************************)
(* Theorems about the account console, for every set of people, agents and *)
(* handlers: its type invariant, that delegations are bounded, and that    *)
(* what was granted can be taken back.                                     *)
(***************************************************************************)
EXTENDS AccountConsole, TLAPS

-----------------------------------------------------------------------------
(* The graph stays a set of relationships.                                 *)

\* The objects the console names are objects of the schema.
LEMMA ObjectsTyped ==
  ASSUME NEW u \in Users
  PROVE  /\ User(u) \in Objects
         /\ \A p \in Applications :
              Application(p) \in Objects /\ ConsentGrant(u, p) \in Objects
         /\ \A a \in Agents :
              Agent(a) \in Objects /\ Delegation(u, a) \in Objects
         /\ \A c \in Capabilities : Capability(c) \in Objects
         /\ Profile(u) \in Objects
         /\ \A h \in Homes : Home(h) \in Objects
         /\ \A d \in Devices :
              Device(d) \in Objects /\ SystemPrincipal(d) \in Objects
BY DEF User, Application, ConsentGrant, Agent, Delegation, Capability,
       Profile, Home, Device, SystemPrincipal, Object, Objects, ObjectTypes,
       ObjectIds

\* Lasting and Expiring build relationships.
LEMMA EdgesTyped ==
  ASSUME NEW res \in Objects, NEW rel \in RelationNames, NEW sub \in Objects
  PROVE  /\ Lasting(res, rel, sub) \in Relationship
         /\ \A exp \in Int : Expiring(res, rel, sub, exp) \in Relationship
BY DEF Lasting, Expiring, Relationship

\* The seed is a graph.
LEMMA SeedTyped == Seed \subseteq Relationship
<1> SUFFICES ASSUME NEW e \in Seed PROVE e \in Relationship
  OBVIOUS
<1>1. {"owner", "home", "self", "operator", "enrolled_for"}
        \subseteq RelationNames
  BY DEF RelationNames
<1>2. CASE \E u \in Users : e = Lasting(Profile(u), "owner", User(u))
  BY <1>1, <1>2, ObjectsTyped, EdgesTyped
<1>3. CASE \E h \in Homes :
             e = Lasting(Home(h), "owner", User(HomeOwner[h]))
  <2>1. \A h \in Homes : HomeOwner[h] \in Users
    BY SeedAssumption
  <2> QED
    BY <1>1, <1>3, <2>1, ObjectsTyped, EdgesTyped
<1>4. CASE \E d \in Devices :
             \/ e = Lasting(Device(d), "home", Home(HomeOf[d]))
             \/ e = Lasting(Device(d), "self", SystemPrincipal(d))
             \/ e = Lasting(SystemPrincipal(d), "operator", User(Operator[d]))
  <2>1. \A d \in Devices : HomeOf[d] \in Homes /\ Operator[d] \in Users
    BY SeedAssumption
  <2> QED
    BY <1>1, <1>4, <2>1, ObjectsTyped, EdgesTyped
<1>5. CASE \E a \in Agents :
             \/ e = Lasting(Agent(a), "operator", User(Operator[a]))
             \/ e = Lasting(Agent(a), "enrolled_for", User(Operator[a]))
  <2>1. \A a \in Agents : Operator[a] \in Users
    BY SeedAssumption
  <2> QED
    BY <1>1, <1>5, <2>1, ObjectsTyped, EdgesTyped
<1> QED
  BY <1>2, <1>3, <1>4, <1>5 DEF Seed

\* The console's updates turn graphs into graphs.
LEMMA UpdatesTyped ==
  ASSUME NEW g, g \subseteq Relationship, NEW u \in Users,
         NEW caps \in SUBSET Capabilities
  PROVE  /\ \A p \in Applications :
              /\ Grant(g, u, p, caps) \subseteq Relationship
              /\ Revoke(g, u, p, caps) \subseteq Relationship
         /\ \A a \in Agents :
              /\ \A exp \in Int :
                   Delegate(g, u, a, caps, exp) \subseteq Relationship
              /\ Undelegate(g, u, a, caps) \subseteq Relationship
<1>1. {"subject", "grantee", "granted", "delegator", "delegate"}
        \subseteq RelationNames
  BY DEF RelationNames
<1>2. \A edges : edges \subseteq Relationship =>
        Touch(g, edges) \subseteq Relationship
  BY DEF Touch, Without
<1>3. ASSUME NEW p \in Applications
      PROVE  Grant(g, u, p, caps) \subseteq Relationship
  BY <1>1, <1>2, ObjectsTyped, EdgesTyped DEF Grant
<1>4. ASSUME NEW a \in Agents, NEW exp \in Int
      PROVE  Delegate(g, u, a, caps, exp) \subseteq Relationship
  BY <1>1, <1>2, ObjectsTyped, EdgesTyped DEF Delegate
<1>5. \A p, a : /\ Revoke(g, u, p, caps) \subseteq g
                /\ Undelegate(g, u, a, caps) \subseteq g
  BY DEF Revoke, Undelegate, WithoutResource, Without
<1> QED
  BY <1>3, <1>4, <1>5

-----------------------------------------------------------------------------
\* A handler that has read the graph knows what it has read about.
LEMMA HandlerFields ==
  ASSUME ConsoleTypeOK, NEW h \in Handlers
  PROVE  /\ handler[h].step = "enrolled" =>
              /\ handler[h].user \in Users
              /\ handler[h].agent \in Agents
              /\ handler[h].caps \in SUBSET Capabilities
              /\ handler[h].ttl \in Int
         /\ handler[h].step = "operated" =>
              /\ handler[h].target \in Identities
              /\ handler[h] = [step |-> "operated",
                               target |-> handler[h].target]
         /\ handler[h].step = "removed" =>
              handler[h].target \in {Agent(a) : a \in Agents}
BY DEF ConsoleTypeOK, HandlerState, Idle

\* Whatever lifetime a form carries, the one used is within a day.
LEMMA EffectiveTTLBounded ==
  ASSUME NEW ttl \in TTLs
  PROVE  EffectiveTTL(ttl) \in 1..MaxTTL
BY LifetimeAssumption DEF EffectiveTTL

\* The console keeps the graph a graph, and every handler between its read
\* and its last write, through crashes and failures in between.
THEOREM ConsoleTypeCorrect == Spec => []ConsoleTypeOK
<1>1. Init => ConsoleTypeOK
  BY SeedTyped DEF Init, ConsoleTypeOK, HandlerState
<1>2. ConsoleTypeOK /\ [Next]_consoleVars => ConsoleTypeOK'
  <2> SUFFICES ASSUME ConsoleTypeOK, [Next]_consoleVars
               PROVE  ConsoleTypeOK'
    OBVIOUS
  <2>1. ASSUME NEW u \in Users, NEW p \in Applications,
               NEW caps \in SUBSET Capabilities,
               GrantConsent(u, p, caps) \/ RevokeConsent(u, p, caps)
        PROVE  ConsoleTypeOK'
    BY <2>1, UpdatesTyped DEF GrantConsent, RevokeConsent, ConsoleTypeOK
  <2>2. ASSUME NEW h \in Handlers, NEW u \in Users, NEW a \in Agents,
               NEW caps \in SUBSET Capabilities, NEW ttl \in TTLs,
               BeginDelegation(h, u, a, caps, ttl)
        PROVE  ConsoleTypeOK'
    <3>1. EffectiveTTL(ttl) \in Int
      BY EffectiveTTLBounded, LifetimeAssumption
    <3>2. [step |-> "enrolled", user |-> u, agent |-> a, caps |-> caps,
           ttl |-> EffectiveTTL(ttl)] \in HandlerState
      BY <3>1 DEF HandlerState
    <3> QED
      BY <2>2, <3>2 DEF BeginDelegation, ConsoleTypeOK
  <2>3. ASSUME NEW h \in Handlers, WriteDelegation(h)
        PROVE  ConsoleTypeOK'
    <3>1. now + handler[h].ttl \in Int
      BY <2>3, HandlerFields DEF WriteDelegation, ConsoleTypeOK
    <3>2. graph' \subseteq Relationship
      BY <2>3, <3>1, HandlerFields, UpdatesTyped
         DEF WriteDelegation, ConsoleTypeOK
    <3> QED
      BY <2>3, <3>2 DEF WriteDelegation, ConsoleTypeOK, HandlerState
  <2>4. ASSUME NEW u \in Users, NEW a \in Agents,
               NEW caps \in SUBSET Capabilities,
               WithdrawDelegation(u, a, caps)
        PROVE  ConsoleTypeOK'
    BY <2>4, UpdatesTyped DEF WithdrawDelegation, ConsoleTypeOK
  <2>5. ASSUME NEW h \in Handlers, NEW u \in Users,
               NEW target \in Identities, BeginDecommission(h, u, target)
        PROVE  ConsoleTypeOK'
    BY <2>5 DEF BeginDecommission, ConsoleTypeOK, HandlerState
  <2>6. ASSUME NEW h \in Handlers, RemoveIdentity(h)
        PROVE  ConsoleTypeOK'
    <3>1. graph' \subseteq Relationship
      BY <2>6 DEF RemoveIdentity, WithoutResource, ConsoleTypeOK
    <3>2. handler' \in [Handlers -> HandlerState]
      <4>1. CASE handler[h].target.type = "agent"
        <5>1. handler[h].target \in {Agent(a) : a \in Agents}
          <6>1. handler[h].target \in Identities
            BY <2>6, HandlerFields DEF RemoveIdentity
          <6>2. \A d \in Devices : SystemPrincipal(d).type # "agent"
            BY DEF SystemPrincipal, Object
          <6> QED
            BY <4>1, <6>1, <6>2 DEF Identities
        <5>2. [handler[h] EXCEPT !.step = "removed"] =
                [step |-> "removed", target |-> handler[h].target]
          <6>1. PICK t : handler[h] = [step |-> "operated", target |-> t]
            BY <2>6, HandlerFields DEF RemoveIdentity
          <6> QED
            BY <6>1
        <5> QED
          BY <2>6, <4>1, <5>1, <5>2
             DEF RemoveIdentity, ConsoleTypeOK, HandlerState
      <4>2. CASE handler[h].target.type # "agent"
        BY <2>6, <4>2 DEF RemoveIdentity, ConsoleTypeOK, HandlerState
      <4> QED
        BY <4>1, <4>2
    <3> QED
      BY <2>6, <3>1, <3>2 DEF RemoveIdentity, ConsoleTypeOK
  <2>7. ASSUME NEW h \in Handlers, RemoveDelegations(h) \/ GiveUp(h)
        PROVE  ConsoleTypeOK'
    BY <2>7 DEF RemoveDelegations, GiveUp, WithoutDelegate, ConsoleTypeOK,
                HandlerState
  <2>8. ASSUME NEW a \in Agents, NEW u \in Users,
               OnboardAgent(a, u) \/ EnrolAgent(a, u)
        PROVE  ConsoleTypeOK'
    <3>1. /\ Lasting(Agent(a), "operator", User(u)) \in Relationship
          /\ Lasting(Agent(a), "enrolled_for", User(u)) \in Relationship
      BY ObjectsTyped, EdgesTyped DEF RelationNames
    <3> QED
      BY <2>8, <3>1
         DEF OnboardAgent, EnrolAgent, Touch, Without, ConsoleTypeOK
  <2>9. CASE Tick
    BY <2>9 DEF Tick, Unexpired, ConsoleTypeOK
  <2>10. CASE UNCHANGED consoleVars
    BY <2>10 DEF consoleVars, ConsoleTypeOK
  <2> QED
    BY <2>1, <2>2, <2>3, <2>4, <2>5, <2>6, <2>7, <2>8, <2>9, <2>10
       DEF Next, ConsoleStep, Environment
<1> QED
  BY <1>1, <1>2, PTL DEF Spec

-----------------------------------------------------------------------------
(* Delegations are bounded.  Between its check and its write a handler     *)
(* holds what it is about to write, so the bound must hold there already.  *)

DelegatedEdge(e) == e.res.type = "delegation" /\ e.rel = "granted"

HandlersBounded ==
  \A h \in Handlers : handler[h].step = "enrolled" =>
    /\ handler[h].caps \subseteq Delegatable(handler[h].agent)
    /\ handler[h].ttl <= MaxTTL

BoundedInv == ConsoleTypeOK /\ DelegationsBounded /\ HandlersBounded

\* Only WriteDelegation gives an agent anything.
LEMMA OnlyWriteDelegates ==
  ASSUME ConsoleTypeOK, [Next]_consoleVars,
         \A h \in Handlers : ~WriteDelegation(h)
  PROVE  /\ now' >= now /\ now' \in Int
         /\ \A e \in graph' : DelegatedEdge(e) => e \in graph
<1> DEFINE New == {e \in graph' : e \notin graph}
<1>1. now \in Int
  BY DEF ConsoleTypeOK
<1>2. ASSUME NEW u \in Users, NEW p \in Applications,
             NEW caps \in SUBSET Capabilities,
             GrantConsent(u, p, caps) \/ RevokeConsent(u, p, caps)
      PROVE  \A e \in New : ~DelegatedEdge(e)
  BY <1>2 DEF GrantConsent, RevokeConsent, Grant, Revoke, Touch, Without,
              WithoutResource, DelegatedEdge, Lasting, Expiring,
              ConsentGrant, Object
<1>3. ASSUME NEW u \in Users, NEW a \in Agents,
             NEW caps \in SUBSET Capabilities, WithdrawDelegation(u, a, caps)
      PROVE  New = {}
  BY <1>3 DEF WithdrawDelegation, Undelegate, Without, WithoutResource
<1>4. ASSUME NEW h \in Handlers,
             RemoveIdentity(h) \/ RemoveDelegations(h) \/ GiveUp(h)
      PROVE  New = {}
  BY <1>4 DEF RemoveIdentity, RemoveDelegations, GiveUp, WithoutResource,
              WithoutDelegate
<1>5. ASSUME NEW a \in Agents, NEW u, OnboardAgent(a, u) \/ EnrolAgent(a, u)
      PROVE  \A e \in New : ~DelegatedEdge(e)
  BY <1>5 DEF OnboardAgent, EnrolAgent, Touch, Without, DelegatedEdge,
              Lasting, Expiring, Agent, Object
<1>6. CASE Tick
  BY <1>1, <1>6 DEF Tick, Unexpired
<1>7. ASSUME NEW h \in Handlers, NEW u \in Users
      PROVE  /\ \A a \in Agents, caps \in SUBSET Capabilities, ttl \in TTLs :
                  BeginDelegation(h, u, a, caps, ttl) => UNCHANGED <<graph, now>>
             /\ \A target \in Identities :
                  BeginDecommission(h, u, target) => UNCHANGED <<graph, now>>
  BY DEF BeginDelegation, BeginDecommission
<1>8. ~Tick => UNCHANGED now
  BY DEF Next, ConsoleStep, Environment, GrantConsent, RevokeConsent,
         BeginDelegation, WithdrawDelegation, BeginDecommission,
         RemoveIdentity, RemoveDelegations, GiveUp, OnboardAgent, EnrolAgent,
         consoleVars
<1>9. CASE ~Tick
  <2>1. \/ New = {}
        \/ \A e \in New : ~DelegatedEdge(e)
    <3> HIDE DEF New
    <3>1. UNCHANGED graph => New = {}
      BY DEF New
    <3> QED
      BY <1>2, <1>3, <1>4, <1>5, <1>7, <1>9, <3>1
         DEF Next, ConsoleStep, Environment, consoleVars
  <2> QED
    BY <1>1, <1>8, <1>9, <2>1
<1> QED
  BY <1>6, <1>9

\* What an agent holds by delegation it may ask for, is not sensitive, and
\* lapses within a day, for any number of handlers racing with enrolments,
\* decommissions and failures (createDelegation, Delegatable, Delegate).
THEOREM DelegationsAreBounded == Spec => []DelegationsBounded
<1>1. Init => DelegationsBounded /\ HandlersBounded
  BY DEF Init, Seed, DelegationsBounded, HandlersBounded, Idle, Lasting,
         Expiring, Profile, Home, Device, SystemPrincipal, Agent, Object
<1>2. BoundedInv /\ [Next]_consoleVars => HandlersBounded'
  <2> SUFFICES ASSUME BoundedInv, [Next]_consoleVars, NEW h \in Handlers,
                      handler'[h].step = "enrolled"
               PROVE  /\ handler'[h].caps \subseteq
                           Delegatable(handler'[h].agent)
                      /\ handler'[h].ttl <= MaxTTL
    BY DEF HandlersBounded, Delegatable
  <2>1. CASE handler'[h] = handler[h]
    BY <2>1 DEF BoundedInv, HandlersBounded
  <2>2. ASSUME NEW u \in Users, NEW a \in Agents,
               NEW caps \in SUBSET Capabilities, NEW ttl \in TTLs,
               BeginDelegation(h, u, a, caps, ttl)
        PROVE  /\ handler'[h].caps \subseteq Delegatable(handler'[h].agent)
               /\ handler'[h].ttl <= MaxTTL
    <3>1. EffectiveTTL(ttl) <= MaxTTL
      BY EffectiveTTLBounded, LifetimeAssumption
    <3> QED
      BY <2>2, <3>1 DEF BeginDelegation, BoundedInv, ConsoleTypeOK
  <2>3. ASSUME NEW g \in Handlers,
               WriteDelegation(g) \/ RemoveDelegations(g) \/ GiveUp(g)
        PROVE  handler'[h] = handler[h]
    <3>1. handler' = [handler EXCEPT ![g] = Idle]
      BY <2>3 DEF WriteDelegation, RemoveDelegations, GiveUp
    <3> QED
      BY <3>1 DEF BoundedInv, ConsoleTypeOK, Idle
  <2>4. ASSUME NEW g \in Handlers, RemoveIdentity(g)
        PROVE  handler'[h] = handler[h]
    <3>1. handler[g].step = "operated"
      BY <2>4 DEF RemoveIdentity
    <3>2. handler'[g].step # "enrolled"
      <4>1. PICK t : handler[g] = [step |-> "operated", target |-> t]
        BY <3>1, HandlerFields DEF BoundedInv
      <4> QED
        BY <2>4, <4>1 DEF RemoveIdentity, BoundedInv, ConsoleTypeOK, Idle
    <3> QED
      BY <2>4, <3>2 DEF RemoveIdentity, BoundedInv, ConsoleTypeOK
  <2>5. ASSUME NEW g \in Handlers, NEW u \in Users, NEW target \in Identities,
               BeginDecommission(g, u, target)
        PROVE  handler'[h] = handler[h]
    <3>1. handler' = [handler EXCEPT ![g] =
                        [step |-> "operated", target |-> target]]
      BY <2>5 DEF BeginDecommission
    <3>2. g # h
      BY <3>1 DEF BoundedInv, ConsoleTypeOK
    <3> QED
      BY <3>1, <3>2 DEF BoundedInv, ConsoleTypeOK
  <2>6. ASSUME NEW g \in Handlers, g # h, NEW u \in Users, NEW a \in Agents,
               NEW caps \in SUBSET Capabilities, NEW ttl \in TTLs,
               BeginDelegation(g, u, a, caps, ttl)
        PROVE  handler'[h] = handler[h]
    BY <2>6 DEF BeginDelegation, BoundedInv, ConsoleTypeOK
  <2>7. \/ UNCHANGED handler
        \/ \E g \in Handlers :
             \/ WriteDelegation(g) \/ RemoveDelegations(g) \/ GiveUp(g)
             \/ RemoveIdentity(g)
             \/ \E u \in Users :
                  \/ \E target \in Identities : BeginDecommission(g, u, target)
                  \/ \E a \in Agents, caps \in SUBSET Capabilities,
                       ttl \in TTLs : BeginDelegation(g, u, a, caps, ttl)
    BY DEF Next, ConsoleStep, Environment, GrantConsent, RevokeConsent,
           WithdrawDelegation, OnboardAgent, EnrolAgent, Tick, consoleVars
  <2>8. CASE handler'[h] # handler[h]
    <3>1. PICK u \in Users, a \in Agents, caps \in SUBSET Capabilities,
               ttl \in TTLs : BeginDelegation(h, u, a, caps, ttl)
      BY <2>3, <2>4, <2>5, <2>6, <2>7, <2>8
    <3> QED
      BY <2>2, <3>1
  <2> QED
    BY <2>1, <2>8
<1>3. BoundedInv /\ [Next]_consoleVars => DelegationsBounded'
  <2> SUFFICES ASSUME BoundedInv, [Next]_consoleVars
               PROVE  DelegationsBounded'
    OBVIOUS
  <2>1. CASE \A h \in Handlers : ~WriteDelegation(h)
    <3> SUFFICES ASSUME NEW e \in graph', DelegatedEdge(e)
                 PROVE  /\ e.exp # Never
                        /\ e.exp <= now' + MaxTTL
                        /\ \E c \in Delegatable(e.res.id[2]) :
                             e.sub = Capability(c)
      BY DEF DelegationsBounded, DelegatedEdge, Delegatable
    <3>1. e \in graph /\ now' >= now /\ now' \in Int
      BY <2>1, OnlyWriteDelegates DEF BoundedInv
    <3>2. /\ e.exp # Never
          /\ e.exp <= now + MaxTTL
          /\ \E c \in Delegatable(e.res.id[2]) : e.sub = Capability(c)
      BY <3>1 DEF BoundedInv, DelegationsBounded, DelegatedEdge
    <3>3. e.exp \in Int /\ now \in Int /\ MaxTTL \in Int
      BY <3>1, <3>2, LifetimeAssumption
         DEF BoundedInv, ConsoleTypeOK, Relationship
    <3> QED
      BY <3>1, <3>2, <3>3
  <2>2. ASSUME NEW h \in Handlers, WriteDelegation(h)
        PROVE  DelegationsBounded'
    <3> DEFINE u == handler[h].user
               a == handler[h].agent
               caps == handler[h].caps
               exp == now + handler[h].ttl
    <3>1. /\ caps \subseteq Delegatable(a)
          /\ exp \in Int
          /\ exp <= now + MaxTTL
      BY <2>2, HandlerFields, LifetimeAssumption
         DEF WriteDelegation, BoundedInv, HandlersBounded, ConsoleTypeOK
    <3>2. graph' = Delegate(graph, u, a, caps, exp) /\ now' = now
      BY <2>2 DEF WriteDelegation
    <3> HIDE DEF u, a, caps, exp
    <3>3. ASSUME NEW e \in graph', DelegatedEdge(e)
          PROVE  \/ e \in graph
                 \/ \E c \in caps :
                      e = Expiring(Delegation(u, a), "granted", Capability(c),
                                   exp)
      BY <3>2, <3>3 DEF Delegate, Touch, Without, DelegatedEdge, Lasting,
                        Expiring
    <3>4. exp # Never
      BY <3>1, NeverAssumption
    <3>5. Delegation(u, a).id[2] = a
      BY DEF Delegation, Object
    <3>6. ASSUME NEW e \in graph', DelegatedEdge(e)
          PROVE  /\ e.exp # Never
                 /\ e.exp <= now' + MaxTTL
                 /\ \E c \in Delegatable(e.res.id[2]) : e.sub = Capability(c)
      <4>1. CASE e \in graph
        BY <3>2, <3>6, <4>1 DEF BoundedInv, DelegationsBounded, DelegatedEdge
      <4>2. CASE \E c \in caps :
                   e = Expiring(Delegation(u, a), "granted", Capability(c),
                                exp)
        BY <3>1, <3>2, <3>4, <3>5, <4>2 DEF Expiring
      <4> QED
        BY <3>3, <3>6, <4>1, <4>2
    <3> QED
      BY <3>6 DEF DelegationsBounded, DelegatedEdge, Delegatable
  <2> QED
    BY <2>1, <2>2
<1> QED
  BY <1>1, <1>2, <1>3, ConsoleTypeCorrect, PTL DEF Spec, BoundedInv

-----------------------------------------------------------------------------
(* What was granted can be taken back.  A grant is revocable because of    *)
(* the relationships it is anchored by, and those are there to stay only   *)
(* because they carry no expiry.                                           *)

Anchored(g) ==
  \A e \in g : e.rel = "granted" =>
    /\ e.res.type = "consent_grant" =>
         /\ Related(g, e.res, "subject", User(e.res.id[1]))
         /\ Related(g, e.res, "grantee", Application(e.res.id[2]))
    /\ e.res.type = "delegation" =>
         Related(g, e.res, "delegator", User(e.res.id[1]))

AnchorsLast(g) ==
  \A e \in g : e.rel \in {"subject", "grantee", "delegator"} => e.exp = Never

Revocable(g) == Anchored(g) /\ AnchorsLast(g)

\* A relationship without expiry is found by the schema's lookups.
LEMMA EdgeRelates ==
  ASSUME NEW g, NEW res, NEW rel, NEW sub, Lasting(res, rel, sub) \in g
  PROVE  Related(g, res, rel, sub)
<1>1. /\ Lasting(res, rel, sub).res = res
      /\ Lasting(res, rel, sub).rel = rel
      /\ Lasting(res, rel, sub).sub = sub
  BY DEF Lasting, Expiring
<1> QED
  BY <1>1 DEF Related

\* A TOUCH loses no relationship, only expiries.
LEMMA TouchKeeps ==
  ASSUME NEW g, NEW edges, NEW res, NEW rel, NEW sub, Related(g, res, rel, sub)
  PROVE  Related(Touch(g, edges), res, rel, sub)
<1>1. PICK e \in g : e.res = res /\ e.rel = rel /\ e.sub = sub
  BY DEF Related
<1>2. CASE \E f \in edges : Same(e, f)
  BY <1>1, <1>2 DEF Same, Touch, Related
<1>3. CASE \A f \in edges : ~Same(e, f)
  BY <1>1, <1>3 DEF Touch, Without, Related
<1> QED
  BY <1>2, <1>3

\* Touching relationships that are no grants disturbs no grant.
LEMMA TouchRevocable ==
  ASSUME NEW g, Revocable(g), NEW edges,
         AnchorsLast(edges),
         \A e \in edges : e.rel = "granted" =>
           /\ e.res.type = "consent_grant" =>
                /\ Related(edges, e.res, "subject", User(e.res.id[1]))
                /\ Related(edges, e.res, "grantee", Application(e.res.id[2]))
           /\ e.res.type = "delegation" =>
                Related(edges, e.res, "delegator", User(e.res.id[1]))
  PROVE  Revocable(Touch(g, edges))
<1>1. ASSUME NEW res, NEW rel, NEW sub,
             Related(edges, res, rel, sub) \/ Related(g, res, rel, sub)
      PROVE  Related(Touch(g, edges), res, rel, sub)
  <2>1. Related(edges, res, rel, sub) => Related(Touch(g, edges), res, rel, sub)
    BY DEF Related, Touch
  <2> QED
    BY <1>1, <2>1, TouchKeeps
<1>2. \A e \in Touch(g, edges) : e \in g \/ e \in edges
  BY DEF Touch, Without
<1> QED
  BY <1>1, <1>2 DEF Revocable, Anchored, AnchorsLast

\* Deleting whole objects, grants, or relationships that anchor nothing
\* leaves every grant that remains with its anchors.
LEMMA DeleteRevocable ==
  ASSUME NEW g, Revocable(g), NEW h, h \subseteq g,
         \A e \in g \ h :
           \/ e.rel \notin {"subject", "grantee", "delegator"}
           \/ \A f \in h : f.res # e.res
  PROVE  Revocable(h)
<1>1. ASSUME NEW e \in h, NEW rel \in {"subject", "grantee", "delegator"},
             NEW sub, Related(g, e.res, rel, sub)
      PROVE  Related(h, e.res, rel, sub)
  BY <1>1 DEF Related
<1> QED
  BY <1>1 DEF Revocable, Anchored, AnchorsLast

\* Consents, delegations and the first deletion of a decommission leave
\* what is granted revocable.
LEMMA UpdatesRevocable ==
  ASSUME NEW g, Revocable(g), NEW u, NEW x, NEW caps
  PROVE  /\ Revocable(Grant(g, u, x, caps))
         /\ Revocable(Revoke(g, u, x, caps))
         /\ \A exp : Revocable(Delegate(g, u, x, caps, exp))
         /\ Revocable(Undelegate(g, u, x, caps))
         /\ \A res : Revocable(WithoutResource(g, res))
<1>1. Revocable(Grant(g, u, x, caps))
  <2> DEFINE edges ==
        {Lasting(ConsentGrant(u, x), "subject", User(u)),
         Lasting(ConsentGrant(u, x), "grantee", Application(x))}
        \cup {Lasting(ConsentGrant(u, x), "granted", Capability(c)) : c \in caps}
  <2>1. AnchorsLast(edges)
    BY DEF AnchorsLast, Lasting, Expiring
  <2>2. ASSUME NEW e \in edges
        PROVE  /\ e.res.type = "consent_grant"
               /\ Related(edges, e.res, "subject", User(e.res.id[1]))
               /\ Related(edges, e.res, "grantee", Application(e.res.id[2]))
    <3>1. e.res = ConsentGrant(u, x)
      BY DEF Lasting, Expiring
    <3>2. /\ ConsentGrant(u, x).type = "consent_grant"
          /\ ConsentGrant(u, x).id[1] = u
          /\ ConsentGrant(u, x).id[2] = x
      BY DEF ConsentGrant, Object
    <3>3. /\ Related(edges, ConsentGrant(u, x), "subject", User(u))
          /\ Related(edges, ConsentGrant(u, x), "grantee", Application(x))
      BY EdgeRelates
    <3> HIDE DEF edges
    <3> QED
      BY <3>1, <3>2, <3>3
  <2> HIDE DEF edges
  <2>3. Revocable(Touch(g, edges))
    BY <2>1, <2>2, TouchRevocable
  <2> QED
    BY <2>3 DEF Grant, edges
<1>2. ASSUME NEW exp
      PROVE  Revocable(Delegate(g, u, x, caps, exp))
  <2> DEFINE edges ==
        {Lasting(Delegation(u, x), "delegator", User(u)),
         Lasting(Delegation(u, x), "delegate", Agent(x))}
        \cup {Expiring(Delegation(u, x), "granted", Capability(c), exp) :
                c \in caps}
  <2>1. AnchorsLast(edges)
    BY DEF AnchorsLast, Lasting, Expiring
  <2>2. ASSUME NEW e \in edges
        PROVE  /\ e.res.type = "delegation"
               /\ Related(edges, e.res, "delegator", User(e.res.id[1]))
    <3>1. e.res = Delegation(u, x)
      BY DEF Lasting, Expiring
    <3>2. /\ Delegation(u, x).type = "delegation"
          /\ Delegation(u, x).id[1] = u
      BY DEF Delegation, Object
    <3>3. Related(edges, Delegation(u, x), "delegator", User(u))
      BY EdgeRelates
    <3> HIDE DEF edges
    <3> QED
      BY <3>1, <3>2, <3>3
  <2> HIDE DEF edges
  <2>3. Revocable(Touch(g, edges))
    BY <2>1, <2>2, TouchRevocable
  <2> QED
    BY <2>3 DEF Delegate, edges
<1>3. ASSUME NEW res
      PROVE  Revocable(WithoutResource(g, res))
  BY DeleteRevocable DEF WithoutResource
<1>4. ASSUME NEW res
      PROVE  Revocable(Without(g,
               {Lasting(res, "granted", Capability(c)) : c \in caps}))
  BY DeleteRevocable DEF Without, Same, Lasting, Expiring
<1> QED
  BY <1>1, <1>2, <1>3, <1>4 DEF Revoke, Undelegate

\* A live grant always has somebody who can find it and take it back, after
\* any history of grants, partial and whole revocations, decommissions and
\* expiries (Grant, Revoke, Delegate, Undelegate, Decommission).
THEOREM GrantsStayRevocable == Spec => []GrantsAreRevocable
<1>1. Init => Revocable(graph)
  <2>1. \A e \in Seed :
          e.rel \in {"owner", "home", "self", "operator", "enrolled_for"}
    BY DEF Seed, Lasting, Expiring
  <2> QED
    BY <2>1 DEF Init, Revocable, Anchored, AnchorsLast
<1>2. Revocable(graph) /\ [Next]_consoleVars => Revocable(graph)'
  <2> SUFFICES ASSUME Revocable(graph), [Next]_consoleVars
               PROVE  Revocable(graph')
    OBVIOUS
  <2>1. ASSUME NEW u \in Users, NEW p \in Applications,
               NEW caps \in SUBSET Capabilities,
               GrantConsent(u, p, caps) \/ RevokeConsent(u, p, caps)
        PROVE  Revocable(graph')
    BY <2>1, UpdatesRevocable DEF GrantConsent, RevokeConsent
  <2>2. ASSUME NEW h \in Handlers, WriteDelegation(h) \/ RemoveIdentity(h)
        PROVE  Revocable(graph')
    <3>1. CASE WriteDelegation(h)
      <4>1. Revocable(Delegate(graph, handler[h].user, handler[h].agent,
                               handler[h].caps, now + handler[h].ttl))
        BY UpdatesRevocable
      <4> QED
        BY <3>1, <4>1 DEF WriteDelegation
    <3>2. CASE RemoveIdentity(h)
      <4>1. Revocable(WithoutResource(graph, handler[h].target))
        BY UpdatesRevocable
      <4> QED
        BY <3>2, <4>1 DEF RemoveIdentity
    <3> QED
      BY <2>2, <3>1, <3>2
  <2>3. ASSUME NEW u \in Users, NEW a \in Agents,
               NEW caps \in SUBSET Capabilities,
               WithdrawDelegation(u, a, caps)
        PROVE  Revocable(graph')
    BY <2>3, UpdatesRevocable DEF WithdrawDelegation
  <2>4. ASSUME NEW h \in Handlers, RemoveDelegations(h)
        PROVE  Revocable(graph')
    BY <2>4, DeleteRevocable DEF RemoveDelegations, WithoutDelegate
  <2>5. ASSUME NEW a \in Agents, NEW u, OnboardAgent(a, u) \/ EnrolAgent(a, u)
        PROVE  Revocable(graph')
    <3>1. ASSUME NEW rel \in {"operator", "enrolled_for"}, NEW v
          PROVE  Revocable(Touch(graph, {Lasting(Agent(a), rel, User(v))}))
      BY TouchRevocable DEF AnchorsLast, Lasting, Expiring
    <3> QED
      BY <2>5, <3>1 DEF OnboardAgent, EnrolAgent
  <2>6. CASE Tick
    BY <2>6, DeleteRevocable DEF Tick, Unexpired, Revocable, AnchorsLast
  <2>7. CASE UNCHANGED graph
    BY <2>7
  <2>8. ASSUME NEW h, NEW u, NEW x, NEW caps, NEW ttl,
               \/ BeginDelegation(h, u, x, caps, ttl)
               \/ BeginDecommission(h, u, x)
               \/ GiveUp(h)
        PROVE  UNCHANGED graph
    BY <2>8 DEF BeginDelegation, BeginDecommission, GiveUp
  <2>9. CASE ConsoleStep
    BY <2>1, <2>2, <2>3, <2>4, <2>7, <2>8, <2>9 DEF ConsoleStep
  <2>10. CASE Environment
    BY <2>5, <2>6, <2>10 DEF Environment
  <2> QED
    BY <2>7, <2>9, <2>10 DEF Next, consoleVars
<1>3. Revocable(graph) => GrantsAreRevocable
  <2>1. {"subject", "delegator"} \subseteq RelationNames
    BY DEF RelationNames
  <2>2. ASSUME NEW res, NEW u,
               \/ res.type = "consent_grant" /\ Related(graph, res, "subject", u)
               \/ res.type = "delegation" /\ Related(graph, res, "delegator", u)
        PROVE  Permitted(graph, res, "revoke", u)
    BY <2>1, <2>2 DEF Permitted, DirectlyPermitted, DirectPermissions
  <2> QED
    BY <2>2 DEF Revocable, Anchored, GrantsAreRevocable
<1> QED
  BY <1>1, <1>2, <1>3, PTL DEF Spec
=============================================================================
